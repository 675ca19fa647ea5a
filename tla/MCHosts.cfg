SPECIFICATION Spec
CONSTANTS
    Input <- Readers
    Events = "events"
    Tree = {1, 2}
    Host <- Hosts
INVARIANTS
    ViewFaithful
    CurrentWhenSettled
PROPERTIES
    RecoveryAdvances
CHECK_DEADLOCK FALSE
