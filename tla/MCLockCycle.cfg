\* Two threads, two tasks of which one needs an approval, one registration.
SPECIFICATION Spec
CONSTANTS
    Threads = {"h", "k"}
    Tasks = {"x", "z"}
    NeedsApproval = {"z"}
    Cost <- MCCost
    Budget = 1
    MaxTasks = 1
    MaxRegistrations = 1
INVARIANTS
    NoLockCycle
\* Threads that wait for each other are what the run is about.
CHECK_DEADLOCK FALSE
