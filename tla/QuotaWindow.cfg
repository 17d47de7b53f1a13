SPECIFICATION Spec
CONSTANTS
    c1 = c1
    c2 = c2
    m1 = m1
    m2 = m2
    Redis = Redis
    Calls = {c1, c2}
    Memories = {m1, m2}
    Minute = 1
    Day = 3
    Ttl = 4
    MaxStall = 1
    MaxClock = 5
    Loads <- MCLoads
SYMMETRY Symmetry
INVARIANTS
    TypeOK
    MinuteWindowHolds
    DayWindowHolds
    OverrunNeedsSwap
PROPERTIES
    RefusalEarned
CHECK_DEADLOCK FALSE
