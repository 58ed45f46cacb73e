CONSTANTS
    N = 3
    PersistFails = TRUE
    Clients = {c1, c2, c3}
    Kinds = {"lock", "refresh", "redlock"}
    Lease = 3
    Interval = 2
    MaxErrors = 1
    None = None
    Jobs = {m1, m2, m3}
    Concurrency = 2
    JobRetries = 1
    HasDlq = TRUE
    DlqCapacity = 1
    NoJob = NoJob
    MinuteTicks = 4
    MilliTicks = 2
    PauseTicks = 2
    Period = 2
    Minutes = 3
    Hours = 2
    Horizon = 4
    MaxClock = 14
    Jumps <- MCJumps
    MaxBacks = 1
    CronExprs <- MCExprs
    Callbacks = {a, b}
    MaxWrites = 4
    MaxFaults = 3
    MaxTxns = 2
    LtWorkers = {w1, w2, w3}
    Total = 3
SPECIFICATION Spec
INVARIANT AllOrCompensated
INVARIANT RecordsTellTheTruth
PROPERTY EverySagaEnds
INVARIANT MutualExclusion
PROPERTY LostOnlyByExpiry
PROPERTY LockFreed
INVARIANT ReturnsDrained
PROPERTY RunReturns
PROPERTY ScheduledAsAsked
PROPERTY ConfigCatchesUp
PROPERTY StoreRecovers
INVARIANT TotalsAddUp
CHECK_DEADLOCK FALSE
