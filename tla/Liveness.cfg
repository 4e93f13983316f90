CONSTANTS
    Threads = {t1, t2, t3}
    Threshold = 2
    MinRequests = 3
    Cap = 3
    Users = {alice, bob}
    Messages = {m1}
    Conns = {c1, c2}
    MaxSends = 1
    MaxFaults = 1
    None = None
SPECIFICATION MCFairSpec
INVARIANTS
    OpenIffFailing
PROPERTIES
    EverythingHeals
CHECK_DEADLOCK FALSE
