\* Two approvals of one mission, the first of which fails to push.
SPECIFICATION Spec
CONSTANTS
    m1 = m1
    d1 = d1
    d2 = d2
    Upstream = Upstream
    Missions = {m1}
    Deciders = {d1, d2}
    Calls = {"approve"}
    Conflicting = {}
    Equivalent = {}
    MaxUpstream = 0
    MaxPushFailures = 1
    MaxDeaths = 0
    MaxRollbacks = 0
    MaxInterventions = 0
INVARIANTS
    ApprovedIsPublished
\* A settled queue may leave nothing to decide.
CHECK_DEADLOCK FALSE
