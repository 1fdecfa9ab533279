SPECIFICATION MCSpec
CONSTANTS
    None = None  NULL = NULL
    Provider = {p1, p2}  Consumer = {c1}  Thread = {t1, t2}
    ProviderLimit = 2  MaxQueueSize = 1
    InitialLinks <- AllLinks
    Call <- AllCalls
    ImageCount = 3
    RingSettings <- TheSettings
    Caller = {t1, t2}  MaxThreads = 4  MaxCalls = 2
    MaxTold = 3  MaxRounds = 5
    Pointer = {q1, q2, q3, q4}  Splicer = {t1, t2}
CHECK_DEADLOCK FALSE
INVARIANTS LinksAgree OneThread CancelHolds RingIsWhole
PROPERTIES TeardownReturns RingHolds WaitsEnd
