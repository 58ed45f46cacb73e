CONSTANTS
    Parts = {"flight", "breaker", "reset", "shedder"}
    Calls = {c1, c2, c3}
    Keys = {k1, k2}
    NoCall = NoCall
    AllowCancel = TRUE
    Requests = {r1, r2, r3}
    MinRequests = 1
    ThresholdNum = 1
    ThresholdDen = 2
    Cooldown = 1
    MaxProbes = 1
    Window = 1
    MaxTime = 2
    DirectReports = TRUE
    MayCancel = TRUE
    Resetter = Resetter
    None = None
    Threads = {t1, t2}
    Threshold = 2
    Low = 1
    High = 6
    SampleWindow = 1
    ProbStep = 5000
    MaxManual = 1
SPECIFICATION GuardsSpec
INVARIANT AtMostOneExecutor
INVARIANT ResultOfThisFlight
INVARIANT EntriesAreLive
PROPERTY WorkReturnsUnlessWedged
INVARIANT ProbeLimit
INVARIANT FailFast
PROPERTY ProbesResolve
PROPERTY ShedRecovers
CHECK_DEADLOCK FALSE
