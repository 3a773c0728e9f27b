CONSTANTS
    r1 = r1  r2 = r2  r3 = r3  r4 = r4
    w1 = w1  w2 = w2
    here = here  there = there
    Requests = {r1, r2, r3, r4}
    Workers = {w1, w2}
    Subjects = {"operator"}
    Threads = 2
    Window = 2
    Max = 1
    LastTick = 4
    Origins <- TwoOrigins
    TrustProxy = TRUE
    IpWindow = 2
    IpMax = 1
    RetryAfter = 2
    KeyTtl = 3
    Connected = Connected
    Unconfigured = Unconfigured
    NoAddress = NoAddress
    Unknown = Unknown
    Forever = Forever
SPECIFICATION WatchedSpec
SYMMETRY LimitsSymmetry
INVARIANTS TypeOK BucketBound SerialLimit AddressLimit FailsOpenRarely
PROPERTY RefusalIsDeserved
CHECK_DEADLOCK FALSE
