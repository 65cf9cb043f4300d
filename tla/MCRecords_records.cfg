SPECIFICATION RecordsSpec
CONSTANTS
    DBFaults = TRUE
    Caller = {c1, c2, c3}
    Window = 2
    Skew = 1
    MaxTime = 3
    Nobody = Nobody
    Taker = {t1, t2, t3, t4}
    NoTaker = NoTaker
    Opener = {o1, o2}
    MaxPerHour = 1
    Hour = 2
    MaxOpenTime = 4
    Scanner = {s1, s2}
    Rates = {10, 20, 25, 30, 45}
    Threshold = 15
    LeakWindow = 2
    Cooldown = 4
    MaxLeakFaults = 2
INVARIANT LockInv
INVARIANT StoreInv
INVARIANT LimiterTypeOK
INVARIANT OverrunBounded
INVARIANT ReportsApart
PROPERTY ImplementsLockWindow
PROPERTY EveryCallAnswered
PROPERTY ImplementsHandOut
