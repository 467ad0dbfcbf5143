CONSTANTS
    Call = {c1, c2, c3}
    Tenant = {acme, beta}
    Limit = 2
    Grain = 2
    MaxCancels = 1
    Gone = Gone
    NoTenant = NoTenant
    Caller = {c1, c2, c3}
    Threshold = 3
    Attempts = 3
    Reset = 2
    Guard = {"governor", "breaker"}
SPECIFICATION Spec
INVARIANTS
    TokensGoRound
    BreakerSparesTheProvider
PROPERTY
    NobodyIsShutOut
