\* Two missions, one of which conflicts, and two reviewers or reconcilers: failing and
\* foreign pushes, calls that end halfway, pulls, a rollback and the panel.  Decisions
\* that overlap are followed for the first mission, without foreign pushes.
SPECIFICATION FairSpec
CONSTANTS
    m1 = m1
    m2 = m2
    d1 = d1
    d2 = d2
    Upstream = Upstream
    Missions = {m1, m2}
    Deciders = {d1, d2}
    Calls <- AllCalls
    Conflicting = {m2}
    Equivalent = {m2}
    MaxUpstream = 1
    MaxPushFailures = 1
    MaxDeaths = 1
    MaxRollbacks = 1
    MaxInterventions = 1
CONSTRAINT
    Explored
INVARIANTS
    CompletedIsPublished
    SettledIsAudited
    AtRestPublished
PROPERTIES
    ApprovalConverges
\* A settled queue may leave nothing to decide.
CHECK_DEADLOCK FALSE
