CONSTANTS
    r1 = r1
    r2 = r2
    r3 = r3
    Req = {r1, r2, r3}
    External = {"received", "expected"}
    Received = {"received"}
    Resolution = {approve, reject}
    Null = Null
SPECIFICATION CaseSpec
CHECK_DEADLOCK FALSE
SYMMETRY CaseSymmetry
INVARIANTS
    CaseInvariant
    NoCaseDeadlock
