SPECIFICATION RuntimeSpec
CONSTANTS
    Task = {a, b}
    Key = {k}
    Response <- Responses
    Fault <- Failures
    Tagged = {b}
    Subscribing = {TRUE}
    NoTx = none
    MaxRetries = 1
    MaxSegment = 2
    MaxCounter = 3
    a = a
    b = b
    x = x
    y = y
    facts = facts
    derived = derived
    inbox = inbox
    base = base
    view = view
    policy = policy
    reader = reader
    none = none
INVARIANTS
    TasksExact
    StreamsFaithful
    SubscribersIsolated
PROPERTIES
    SegmentsImplemented
    NoUnauthorizedRows
CHECK_DEADLOCK FALSE
