CONSTANT Compiled <- CompiledProgs
CONSTANT Question = "continue"
SPECIFICATION Spec
INVARIANT ContinueSkipsToNext
CHECK_DEADLOCK FALSE
