\* One call whose second enqueue fails, and a retry of the mission claimed meanwhile.
SPECIFICATION Spec
CONSTANTS
    m1 = m1
    m2 = m2
    m3 = m3
    s1 = s1
    s2 = s2
    Missions = {m1, m2, m3}
    MaxSeq = 5
    Submitters = {s1}
    Batches <- OneCall
    RetryLimit = 1
    MaxRecoveries = 0
    MaxCrashes = 0
INVARIANTS
    NeverClaimedBlind
\* Every call may have returned and every mission be settled.
CHECK_DEADLOCK FALSE
