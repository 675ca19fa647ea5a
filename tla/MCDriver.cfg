SPECIFICATION DriverSpec
CONSTANTS
    a = a
    b = b
    kid = kid
    e1 = e1
    e2 = e2
    m1 = m1
    m2 = m2
    NoTask = NoTask
    NoEndpoint = NoEndpoint
    Endpoint = {e1, e2}
    Fact = {x1}
    Scope = {endpoint, named}
    Mailbox = {m1, m2}
    EndpointScope = endpoint
    Call = {s1, s2}
    EndpointCapacity = 2
    SubscriptionCapacity = 2
    MailboxCapacity = 2
    None = None
    NoOp = NoOp
INVARIANTS
    MessagesReach
    EndsClean
    TasksAccounted
    ResourcesOwned
PROPERTIES
    OwnershipEndsRightly
CHECK_DEADLOCK FALSE
