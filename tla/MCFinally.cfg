CONSTANT Compiled <- CompiledProgs
CONSTANT Question = "finally"
SPECIFICATION Spec
INVARIANT CaughtInFinallyGoesOn
CHECK_DEADLOCK FALSE
