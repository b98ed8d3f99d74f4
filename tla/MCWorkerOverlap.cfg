\* Two workers on one mission, with a checkpoint store and a reporter: late starts,
\* a crash, an operator intervention, refused transitions, a checkpoint that is lost.
SPECIFICATION Spec
CONSTANTS
    m1 = m1
    w1 = w1
    w2 = w2
    NoIdleLimit = NoIdleLimit
    Missions = {m1}
    Workers = {w1, w2}
    Priorities = {1}
    RetryLimits = {1}
    MaxSeq = 1
    Statuses <- MCAllStatuses
    Modes <- DaemonModes
    CheckpointStore = TRUE
    Reporter = TRUE
    MayShutDown = FALSE
    MaxLostSaves = 1
    MaxCrashes = 1
    MaxStarts = 3
    MaxInterventions = 1
INVARIANTS
    ExecutionBudget
    OverlapExplained
    RecordsAreTruthful
\* All processes may be down with MaxStarts used up, or have left run().
CHECK_DEADLOCK FALSE
