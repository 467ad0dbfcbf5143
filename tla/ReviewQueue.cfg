CONSTANTS
    i1 = i1
    i2 = i2
    t1 = t1
    Null = Null
    Item = {i1, i2}
    Token = {t1}
    Type <- MCType
    DueAt <- MCDueAt
    Entity <- MCEntity
    Queue <- MCQueue
    Tenant <- MCTenant
    Claims <- MCClaims
    Endpoints = {"approve", "reject", "request_info"}
    MaxPosts = 1
    Now = 0
SPECIFICATION Spec
INVARIANT
    QueueInvariant
PROPERTY
    SentAsConfirmed
