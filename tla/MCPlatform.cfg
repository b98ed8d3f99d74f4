\* The queue: three missions, so that dependency chains and cycles of length
\* three occur; four enqueues, so that one mission can be dequeued and enqueued
\* again; retry limits below and above zero.  Of the other components, each as
\* many callers and things as its races need: two where they are interchangeable.
SPECIFICATION AnySpec
CONSTANTS
    m1 = m1
    m2 = m2
    m3 = m3
    Missions = {m1, m2, m3}
    Priorities = {1}
    RetryLimits <- MCRetryLimits
    MaxSeq = 4
    RunnerMissions = {"m", "n", "o"}
    Files = {"f", "g", "h", "i"}
    Deliverables <- MCDeliverables
    Tracked = {"f"}
    UnderAgent = {"f", "g", "i"}
    Ignored = {"i"}
    MaxRepairs = 2
    MaxRuns = 2
    AutoStart <- MCAutoStart
    StopOrder <- MCStopOrder
    MaxBuilds = 2
    Callers = {"a", "b"}
    MissionPlan <- MCPlan
    DependsOn <- MCDependsOn
    Calculated = {"low", "critical"}
    Requested = {"unasked"}
    AutoMerge = {"low"}
    AutoDeploy = TRUE
    MaxAttempts = 1
    MaxRetries = 1
    t1 = t1
    t2 = t2
    Threads = {t1, t2}
    Tasks = {"x", "z"}
    SiteApprovals = {"z"}
    Cost <- MCCost
    Budget = 1
    MaxTasks = 1
    MaxRegistrations = 2
    Workers = {"worker"}
    Tools = {"tool", "worker"}
    c1 = c1
    c2 = c2
    Capabilities = {c1, c2}
    Versions = {"v"}
    Reasons = {"r"}
    RegistryProcesses = {"p", "q"}
    Projects = {"x", "y"}
    Times = {1, 2}
    MaxChanges = 3
    MaxFailures = 1
    Paths = {"f", "g"}
    Patches <- MCPatches
    Branches = {"b", "main"}
    Protected = {"main"}
    ControllerAttempts = 2
    Decisions = {"d", "e", "o"}
    Accepted = {"d", "e"}
    Works = {"v", "w"}
    MaxWorks = 1
    Policies = {"p", "q"}
    Oversized = {"e"}
    Supersedes <- MCSupersedes
    MaxRecords = 3
    MaxCalls = 2
    Conversations = {"c"}
    Messages = {"m"}
    Images = {"i", "j"}
    ImageContents = {"x"}
    Closers = {"a", "b"}
    Configs <- MCConfigs
    Overridings <- MCOverridings
    Refusing = {"other"}
    KnownProjects = {"x"}
SYMMETRY Symmetry
INVARIANTS
    StartedDepsHold
    DependencyGraphAcyclic
    RetryBudget
    ComponentsAttended
    PushedIsWhatPassed
    MergedWasCleared
    SubmittedOnce
    ReplacedIsNative
    HandedOver
    ToldIsKept
    
    TornDownInOrder
    WholeOrNothing
    CommittedWasReviewed
CONSTRAINT
    Explored
PROPERTIES
    HistoryKept
\* The queue is passive, and threads and counters come to an end.
CHECK_DEADLOCK FALSE
