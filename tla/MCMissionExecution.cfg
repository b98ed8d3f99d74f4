\* One worker, two missions of which one is read-only and one has a second runtime.
SPECIFICATION FairSpec
CONSTANTS
    m1 = m1
    m2 = m2
    e1 = e1
    Upstream = Upstream
    Missions = {m1, m2}
    ReadOnly = {m2}
    Protected = {}
    Executors = {e1}
    Fallbacks = {m1}
    Outcomes = {"changes", "no_changes", "unavailable"}
    RetryLimit = 1
    FaultKinds <- AllFaults
    MaxTrouble = 1
INVARIANTS
    DecisionsHold
    NothingLeftOver
PROPERTIES
    EveryMissionSettles
CHECK_DEADLOCK FALSE
