CONSTANTS
    t1 = t1
    t2 = t2
    t3 = t3
    other = other
    acme = acme
    zenith = zenith
    Tenant = {acme, zenith}
    Txn = {t1, t2, t3, other}
    TenantOf <- MCTenantOf
    MaxAppends = 2
    RowLocks = TRUE
    Half = {"log", "storage"}
    Contents = {"a", "b"}
    MaxRows = 4
    MaxDamage = 2
SPECIFICATION Spec
INVARIANTS
    AuditInvariant
    VerifyTellsWhatWasStored
PROPERTIES
    AppendOnly
    EveryRequestEnds
    ImplementsAuditAppend
