SPECIFICATION ProgressSpec
CONSTANTS
    Client = {f1, f2, f3}
    Worker = {w}
    Capacity = 2
    Parallelism = 3
    Asking = {1, 2}
    a = a
    kid = kid
    door = door
    box = box
    k = k
    h1 = h1
    inv = inv
    w1 = w1
    NoTask = NoTask
    NoEndpoint = NoEndpoint
    none = none
INVARIANTS
    NoLostWakeup
    RoutingFaithful
PROPERTIES
    AdmittedInOrder
    WaitersAnswered
    WorkEnds
CHECK_DEADLOCK FALSE
