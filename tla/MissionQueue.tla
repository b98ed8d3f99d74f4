---------------------------- MODULE MissionQueue ----------------------------
(***************************************************************************)
(* The persistent mission queue: agent/runtime/mission_queue.py and its    *)
(* governed subclass agent/runtime/autonomous_mission_queue.py.            *)
(*                                                                         *)
(* Every public operation takes an exclusive file lock, reloads the JSON   *)
(* file, and replaces it atomically (temporary file, fsync, os.replace),   *)
(* so one operation is one action here.  An operation that raises leaves   *)
(* the file as it was: it is a stuttering step, and has no action.  The    *)
(* guard of each action is therefore the condition under which the call    *)
(* does not raise; modules that compose the queue use the named guards     *)
(* (Running, Known...) to model what the caller does when it does raise.   *)
(***************************************************************************)
EXTENDS Integers, FiniteSets

CONSTANTS
    Missions,     (* the identifiers a caller may use                        *)
    Priorities,   (* the priorities a caller may pass                        *)
    RetryLimits,  (* the max_retries values a caller may pass                *)
    MaxSeq        (* bound: no enqueue once next_seq has passed this value   *)

ASSUME QueueAssumption ==
    /\ IsFiniteSet(Missions)
    /\ Priorities \subseteq Int
    /\ RetryLimits \subseteq Int    (* nothing in the code rejects a negative limit *)
    /\ MaxSeq \in Nat

VARIABLES
    missions,     (* the missions mapping of the JSON file: id -> record     *)
    next_seq      (* its next_seq counter                                    *)

queue_vars == <<missions, next_seq>>

-----------------------------------------------------------------------------
(* Types.                                                                    *)

MissionStates ==
    {"pending", "running", "retrying", "completed", "failed", "blocked", "cancelled"}

Mission ==
    [priority      : Int,
     dependencies  : SUBSET Missions,
     state         : MissionStates,
     created_seq   : Nat,
     attempts_done : Nat,
     max_retries   : Int]

(* The type invariant of the queue file.                                     *)
QueueTypeOK ==
    /\ DOMAIN missions \subseteq Missions
    /\ missions \in [DOMAIN missions -> Mission]
    /\ next_seq \in Nat \ {0}

-----------------------------------------------------------------------------
(* Helper state functions.                                                   *)

Known(m) == m \in DOMAIN missions

InState(m, S) == Known(m) /\ missions[m].state \in S

Running(m) == InState(m, {"running"})

(* A dependency that names a mission the queue does not hold is unmet.       *)
DepsCompleted(m) ==
    \A d \in missions[m].dependencies : InState(d, {"completed"})

Eligible ==
    {m \in DOMAIN missions : InState(m, {"pending", "retrying"}) /\ DepsCompleted(m)}

(* The sort key of claim: priority descending, then created_seq ascending.   *)
(* The last key, the id, never decides: created_seq is unique (SeqUnique).   *)
Precedes(m, n) ==
    \/ missions[m].priority > missions[n].priority
    \/ /\ missions[m].priority = missions[n].priority
       /\ missions[m].created_seq < missions[n].created_seq

IsNext(m) ==
    /\ m \in Eligible
    /\ \A n \in Eligible \ {m} : Precedes(m, n)

(* No set of missions of q in which each waits for another of the set: for a *)
(* finite queue this is the absence of a cycle, a self-dependency included.  *)
(* DependencyDfs checks the code's traversal against it.                     *)
NoCycles(q) ==
    ~ \E S \in (SUBSET DOMAIN q) \ {{}} :
          \A m \in S : q[m].dependencies \cap S # {}

Without(m) == [n \in DOMAIN missions \ {m} |-> missions[n]]

With(m, record) ==
    [n \in DOMAIN missions \cup {m} |-> IF n = m THEN record ELSE missions[n]]

MoveTo(m, state) ==
    /\ missions' = [missions EXCEPT ![m].state = state]
    /\ UNCHANGED next_seq

-----------------------------------------------------------------------------
(* Operations.                                                               *)

(* The queue with the mission in it, as enqueue tries it.                    *)
Queued(m, priority, dependencies, max_retries) ==
    With(m, [priority      |-> priority,
             dependencies  |-> dependencies,
             state         |-> "pending",
             created_seq   |-> next_seq,
             attempts_done |-> 0,
             max_retries   |-> max_retries])

(* Mutant of Enqueue: no cycle check.                                        *)
EnqueueUnvalidated(m, priority, dependencies, max_retries) ==
    /\ next_seq <= MaxSeq
    /\ ~Known(m)
    /\ missions' = Queued(m, priority, dependencies, max_retries)
    /\ next_seq' = next_seq + 1

Enqueue(m, priority, dependencies, max_retries) ==
    /\ next_seq <= MaxSeq
    /\ ~Known(m)
    /\ NoCycles(Queued(m, priority, dependencies, max_retries))
    /\ missions' = Queued(m, priority, dependencies, max_retries)
    /\ next_seq' = next_seq + 1

(* Mutant of Dequeue: missions that depend on it are not looked for.         *)
DequeueUnchecked(m) ==
    /\ Known(m)
    /\ ~Running(m)
    /\ missions' = Without(m)
    /\ UNCHANGED next_seq

Dequeue(m) ==
    /\ Known(m)
    /\ ~Running(m)
    /\ \A n \in DOMAIN missions \ {m} : m \notin missions[n].dependencies
    /\ missions' = Without(m)
    /\ UNCHANGED next_seq

Claim(m) ==
    /\ IsNext(m)
    /\ MoveTo(m, "running")

(* Every running mission, whoever runs it: no owner is recorded.             *)
RecoverStale ==
    /\ \E m \in DOMAIN missions : Running(m)
    /\ missions' = [m \in DOMAIN missions |->
                      IF Running(m) THEN [missions[m] EXCEPT !.state = "retrying"]
                                    ELSE missions[m]]
    /\ UNCHANGED next_seq

Complete(m) ==
    /\ Running(m)
    /\ MoveTo(m, "completed")

(* Mutant of Fail: the limit itself is not granted.                          *)
FailEarly(m) ==
    /\ Running(m)
    /\ LET attempts == missions[m].attempts_done + 1
       IN  missions' = [missions EXCEPT
               ![m].attempts_done = attempts,
               ![m].state = IF attempts < missions[m].max_retries
                            THEN "retrying" ELSE "failed"]
    /\ UNCHANGED next_seq

Fail(m) ==
    /\ Running(m)
    /\ LET attempts == missions[m].attempts_done + 1
       IN  missions' = [missions EXCEPT
               ![m].attempts_done = attempts,
               ![m].state = IF attempts <= missions[m].max_retries
                            THEN "retrying" ELSE "failed"]
    /\ UNCHANGED next_seq

(* The guard of retry(): see RetryAlwaysRefused for why it has no action.    *)
RetryAllowed(m) ==
    /\ InState(m, {"failed"})
    /\ missions[m].attempts_done < missions[m].max_retries

Block(m) ==
    /\ InState(m, {"pending", "retrying", "running"})
    /\ MoveTo(m, "blocked")

Cancel(m) ==
    /\ Known(m)
    /\ ~InState(m, {"completed", "failed", "cancelled"})
    /\ MoveTo(m, "cancelled")

(* Mutant of Resume: the mission starts with a fresh budget.                 *)
ResumeAfresh(m) ==
    /\ InState(m, {"blocked", "cancelled"})
    /\ missions' = [missions EXCEPT ![m].state = "pending", ![m].attempts_done = 0]
    /\ UNCHANGED next_seq

Resume(m) ==
    /\ InState(m, {"blocked", "cancelled"})
    /\ MoveTo(m, "pending")

(* AutonomousMissionQueue: the final step of a human decision.  Deciding the *)
(* same way twice is a no-op.                                                *)
ApproveManualReview(m) ==
    /\ InState(m, {"blocked"})
    /\ MoveTo(m, "completed")

RejectManualReview(m) ==
    /\ InState(m, {"blocked"})
    /\ MoveTo(m, "cancelled")

-----------------------------------------------------------------------------
(* The queue under arbitrary callers.                                        *)

Init ==
    /\ missions = [m \in {} |-> 0]
    /\ next_seq = 1

Next ==
    \/ \E m \in Missions, p \in Priorities, D \in SUBSET Missions, r \in RetryLimits :
           Enqueue(m, p, D, r)
    \/ RecoverStale
    \/ \E m \in Missions :
           \/ Dequeue(m)
           \/ Claim(m)
           \/ Complete(m)
           \/ Fail(m)
           \/ Block(m)
           \/ Cancel(m)
           \/ Resume(m)
           \/ ApproveManualReview(m)
           \/ RejectManualReview(m)

Spec == Init /\ [][Next]_queue_vars

-----------------------------------------------------------------------------
(* Safety.                                                                   *)

(* A mission that is running, waiting for a retry or failed has been         *)
(* claimed, and all it depends on is still in the queue and still completed: *)
(* dequeue() cannot take a dependency away under it and no operation leaves  *)
(* the completed state.                                                      *)
StartedDepsHold ==
    \A m \in DOMAIN missions :
        InState(m, {"running", "retrying", "failed"}) => DepsCompleted(m)

(* fail() is the only authority over the retry budget: a mission has failed  *)
(* exactly when an execution ended unsuccessfully after its last allowed     *)
(* retry, and recovery, blocking, cancelling and resuming neither consume    *)
(* nor refund an attempt.                                                    *)
RetryBudget ==
    \A m \in DOMAIN missions :
        LET r == missions[m]
        IN  IF r.state = "failed"
            THEN /\ r.attempts_done > r.max_retries
                 /\ r.attempts_done = 1 \/ r.attempts_done = r.max_retries + 1
            ELSE r.attempts_done <= r.max_retries \/ r.attempts_done = 0

(* created_seq tells any two missions apart and is below next_seq, so claim, *)
(* list and recover_stale have one order whatever was dequeued in between.   *)
SeqUnique ==
    /\ \A m \in DOMAIN missions : missions[m].created_seq < next_seq
    /\ \A m, n \in DOMAIN missions :
           missions[m].created_seq = missions[n].created_seq => m = n

(* The dependency graph the queue persists is always one _load accepts.      *)
DependencyGraphAcyclic == NoCycles(missions)

(* Nobody waits for everybody: when every unfinished mission is waiting and  *)
(* every dependency is in the queue, claim() has a mission to hand out.      *)
NoCircularWait ==
    (/\ \E m \in DOMAIN missions : ~InState(m, {"completed"})
     /\ \A m \in DOMAIN missions : InState(m, {"pending", "retrying", "completed"})
     /\ \A m \in DOMAIN missions : missions[m].dependencies \subseteq DOMAIN missions)
    => Eligible # {}

(* retry() is documented as the manual override that gives a failed mission  *)
(* another attempt while budget remains.  fail() only reaches failed when    *)
(* none remains, so the call is refused in every reachable state.            *)
RetryAlwaysRefused == \A m \in Missions : ~RetryAllowed(m)

(* A completed mission stays completed for as long as the queue holds it,    *)
(* and no operation rewrites what a mission is: its place in the order, its  *)
(* dependencies and its limit, or takes back an attempt already counted.     *)
KeepsHistory ==
    \A m \in DOMAIN missions \cap DOMAIN missions' :
        LET r == missions[m]
            s == missions'[m]
        IN  /\ r.state = "completed" => s.state = "completed"
            /\ s.attempts_done >= r.attempts_done
            /\ s.priority = r.priority
            /\ s.dependencies = r.dependencies
            /\ s.created_seq = r.created_seq
            /\ s.max_retries = r.max_retries

HistoryKept == [][KeepsHistory]_queue_vars
=============================================================================
