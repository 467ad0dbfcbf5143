CONSTANTS
    r1 = r1
    r2 = r2
    w1 = w1
    w2 = w2
    v1 = v1
    v2 = v2
    v3 = v3
    Req = {r1, r2}
    Workflow = {w1, w2}
    Version = {v1, v2, v3}
    Name = {"agent", "helper"}
    Definition = {"good", "bad"}
    Valid = {"good"}
    Null = Null
    Op = {"create", "duplicate", "update", "delete", "restore", "compile", "edit", "deploy", "retire", "run", "test"}
    MaxRequests = 7
    SerialRequests = 7
    RacingRequests = 5
SPECIFICATION Spec
CHECK_DEADLOCK FALSE
SYMMETRY StudioSymmetry
INVARIANTS
    StudioInvariant
    LiveIsOnRecordInTurn
    NoRequestsDeadlock
PROPERTY
    DeploymentsAreKept
