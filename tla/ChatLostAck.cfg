CONSTANTS
    Users = {alice, bob}
    Messages = {m1}
    Conns = {c1, c2}
    MaxSends = 1
    MaxFaults = 0
    None = None
SPECIFICATION Spec
INVARIANTS
    Ack2IsKept
CHECK_DEADLOCK FALSE
