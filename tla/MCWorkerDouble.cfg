\* Two workers, no crash and no operator: the second starts while the first executes.
SPECIFICATION Spec
CONSTANTS
    m1 = m1
    w1 = w1
    w2 = w2
    NoIdleLimit = NoIdleLimit
    Missions = {m1}
    Workers = {w1, w2}
    Priorities = {1}
    RetryLimits = {0}
    MaxSeq = 1
    Statuses <- MCStatuses
    Modes <- DaemonModes
    CheckpointStore = FALSE
    Reporter = FALSE
    MayShutDown = FALSE
    MaxLostSaves = 0
    MaxCrashes = 0
    MaxStarts = 2
    MaxInterventions = 0
INVARIANTS
    NoDoubleExecution
\* All processes may be down with MaxStarts used up, or have left run().
CHECK_DEADLOCK FALSE
