SPECIFICATION Spec
CONSTANTS
    Instances <- OneInstance
    Floor = 1
    MaxChanges = 2
    Facts <- TwoFacts
    StaleAfter = 1
    MaxNow = 3
    MaxReports = 2
    Threads = {t1, t2}
    MaxRequests = 3
    Period = 2
    Environments = {e1}
    Outcomes = {"answered", "failed", "garbled"}
    MaxWorld = 2
    MaxScans = 1
    Keep = 2
    MaxBundles = 3
    MaxSaves = 1
    Channels <- TwoChannels
    Producers = {p1, p2}
    QueueSize = 2
    MaxMessages = 3
    MaxDirect = 1
    Runners = {r1}
    Retention = 2
    MaxClock = 4
    SampleEvery = 2
    SamplesKept = 4
    Cap = 3
    Fast = 2
    Slow = 4
    MaxTime = 5
    Overseers = {"self_monitoring", "slo"}
    Owns <- OneSignal
    FromTables = {"burn"}
    MaxRestarts = 1
    Programs = {"service", "command"}
    Knows <- TwoReleases
    Rerunnable <- IndexesOnly
    MaxRestores = 1
    Levels <- TwoLevels
    Hours = 2
    MinSamples = 2
    ZOpen = 7
    ZHold = 5
    Outlier = 16
    MaxAge = 2
    MaxShifts = 2
    Layouts <- FourLayouts
    Nodes <- Devices
    Lan <- TagOfLan
    MaxPairs = 4
    Persistence = 2
    MaxTurns = 2
    MaxMishaps = 1
    Contents = {"before", "after"}
    MaxDrifts = 1
    MaxRepairs = 1
    MaxReloads = 1
INVARIANTS TypeOK HealthyIsRecent OneIdentity RestorableBundle DeliveredInOrder EditionsKept
           AttainmentExact SchemaComplete
PROPERTIES NothingForgotten VerdictsSettle NeverForgets RefreshServed AlertsFollowSignals
           NewLevelLearnt LinksSettle ChecksSettle
CHECK_DEADLOCK FALSE
