CONSTANTS
    r1 = r1
    r2 = r2
    w1 = w1
    w2 = w2
    v1 = v1
    v2 = v2
    v3 = v3
    Req = {r1, r2}
    Workflow = {w1, w2}
    Version = {v1, v2}
    Name = {"agent"}
    Definition = {"good"}
    Valid = {"good"}
    Null = Null
    Op = {"create", "compile", "deploy"}
    MaxRequests = 5
    SerialRequests = 0
    RacingRequests = 5
SPECIFICATION Spec
CHECK_DEADLOCK FALSE
INVARIANT AtMostOneDeployed
