SPECIFICATION Spec
CONSTANTS
    d1 = d1
    d2 = d2
    t1 = t1
    t2 = t2
    k1 = k1
    k2 = k2
    k3 = k3
    n1 = n1
    n2 = n2
    SharedKey = SharedKey
    Deliveries = {d1, d2}
    Keepers = {t1, t2}
    Keys = {k1, k2, k3}
    Nonces = {n1, n2}
    Messages <- MCMessages
    Envelopes <- MCEnvelopes
    Skew = 1
    FutureSkew = 1
    MaxLife = 2
    GuardTtl = 2
    GuardInMemory = TRUE
    MaxClock = 3
    Loads <- MCLoads
SYMMETRY Symmetry
INVARIANT OneActiveKey
CHECK_DEADLOCK FALSE
