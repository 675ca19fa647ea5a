CONSTANT Compiled <- CompiledProgs
CONSTANT Question = "all"
SPECIFICATION Spec
INVARIANTS
    BehavesAsWritten
PROPERTIES
    Ends
CHECK_DEADLOCK FALSE
