\* One worker under each command line and two missions that may depend on each
\* other: a crash, an operator intervention, stop requests; MaxStarts is never
\* reached.
SPECIFICATION FairSpec
CONSTANTS
    m1 = m1
    m2 = m2
    w1 = w1
    NoIdleLimit = NoIdleLimit
    Missions = {m1, m2}
    Workers = {w1}
    Priorities = {1}
    RetryLimits = {1}
    MaxSeq = 2
    Statuses <- MCStatuses
    Modes <- AllModes
    CheckpointStore = FALSE
    Reporter = FALSE
    MayShutDown = TRUE
    MaxLostSaves = 0
    MaxCrashes = 1
    MaxStarts = 4
    MaxInterventions = 1
INVARIANTS
    RunningIsAttended
PROPERTIES
    WorkComesToAnEnd
\* All processes may have left run().
CHECK_DEADLOCK FALSE
