CONSTANTS
    Txns = {t1, t2}
    OrderIds = {o1, o2}
    Stock = 1
    Qty = 1
    MaxFaults = 2
    None = None
    Sagas = {s1, s2, s3}
    Last = 3
    Deliveries = {d1, d2, d3}
    Keys = {k1, k2, k3}
    StepStock = 2
SPECIFICATION MCFairSpec
INVARIANTS
    EachTypeOK
    Atomic
    VerdictIsTrue
    SagasAreAtomic
PROPERTIES
    StockIsKept
    EveryoneReturns
CHECK_DEADLOCK FALSE
