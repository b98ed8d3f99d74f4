\* Each component on the instance the module gives it; the dependency search on
\* every graph of up to four missions.
SPECIFICATION AnySpec
CONSTANTS
    Nodes <- MCNodes
    KnownSets <- MCKnownSets
    BatchIds = {"m1", "m2", "m3", "m4"}
    LastSeq = 6
    BatchCallers = {"s1", "s2"}
    CallBatches <- TwoCalls
    RetryLimit = 1
    MaxRecoveries = 1
    MaxCallCrashes = 1
    ClientRequests = {"r1", "r2"}
    ApiThreads = {"a", "b"}
    PlannedIds = {1, 2, 3}
    MaxSends <- MCMaxSends
    MaxApiRestarts = 1
    Spenders = {"r1", "r2", "r3", "r4"}
    Estimate <- MCEstimate
    Priced = {"r1", "r2", "r4"}
    Spent = {0, 2}
    Days = {1, 2}
    PerRequest = 2
    Daily = 2
    Monthly = 3
    ServiceProcesses = {"p", "q"}
    ServiceThreads = {"a", "b", "c"}
    LimiterThreads = {"a", "c"}
    ModelThreads = {"a", "b"}
    ProcessOf <- MCProcessOf
    LimitedRequests = {"r1", "r2"}
    LimiterConfigs <- MCLimiterConfigs
    LimiterChanges <- MCLimiterChanges
    MaxClock = 1
    MaxSaves = 2
    MaxStoreCrashes = 1
    ModelNames = {"m", "n"}
    Chains <- MCChains
    Suited = {"m", "n"}
    MaxCalls = 4
    Executions = {"e"}
    MaxDeaths <- MCMaxDeaths
    RoutedCalls = {"a", "b"}
    Providers = {"n", "x"}
    Native = {"n"}
    Rank <- MCRank
    Capabilities = {"c"}
    Provides <- MCProvides
    Threshold = 2
    RecordWorkers = {"p", "q"}
    Readers = {"r"}
    Attempts = {"m.0", "m.1", "n.0"}
    MissionOf <- MCMissionOf
    Queries <- MCQueries
    LastSequence = 1
    MaxRuns = 2
    MaxSecond = 2
    MaxRecordFailures = 1
    Usages = {"u", "v"}
    MaxLedgerFailures = 2
    Owners = {"o", "w"}
    Handlers = {"h"}
    Lifecycle = TRUE
    MaxServers = 2
CONSTRAINT Explored
INVARIANTS
    VerdictIsRight
    BatchIsAtomic
    RequestsAreTracked
    NeverOvercommitted
    NoLostUpdate
    OverspentForAReason
    DisabledIsNotChosen
    OutcomesAreFinal
    CircuitStaysOpen
    AnswersAreRecent
    RecordedOnce
    AnswersAreTrue
\* The search ends, and clients, threads and counters come to an end.
CHECK_DEADLOCK FALSE
