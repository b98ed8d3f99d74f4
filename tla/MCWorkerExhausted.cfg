\* One worker, one mission with attempts left.
SPECIFICATION Spec
CONSTANTS
    m1 = m1
    w1 = w1
    NoIdleLimit = NoIdleLimit
    Missions = {m1}
    Workers = {w1}
    Priorities = {1}
    RetryLimits = {1}
    MaxSeq = 1
    Statuses <- MCStatuses
    Modes <- DaemonModes
    CheckpointStore = TRUE
    Reporter = FALSE
    MayShutDown = FALSE
    MaxLostSaves = 0
    MaxCrashes = 0
    MaxStarts = 1
    MaxInterventions = 0
INVARIANTS
    ExhaustedIsFailed
\* The worker may have nothing left to do.
CHECK_DEADLOCK FALSE
