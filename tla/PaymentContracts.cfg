CONSTANTS
    Requests = {r1, r2, r3}
    Customers = {c1, c2}
    Keys = {k}
    Amounts = {20, 40}
    Tenants = {t1, t2}
    TenantAmounts = {0, 5}
    None = None
SPECIFICATION MCFairSpec
INVARIANTS
    TypeOK
    OnlyOwnerProcesses
    AnswersMatchRows
PROPERTIES
    ImplementsOncePerKey
    RequestsSettle
    TenantsAreServed
