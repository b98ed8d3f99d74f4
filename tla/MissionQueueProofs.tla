------------------------- MODULE MissionQueueProofs -------------------------
(***************************************************************************)
(* Proofs, for every set of missions, priorities, retry limits and bound,  *)
(* of the invariants TLC checks on small instances of MissionQueue.        *)
(***************************************************************************)
EXTENDS MissionQueue, TLAPS

(* The operations that change the state of one mission and nothing else.     *)
Moves(m, state) ==
    \/ state = "running"   /\ Claim(m)
    \/ state = "completed" /\ Complete(m)
    \/ state = "blocked"   /\ Block(m)
    \/ state = "cancelled" /\ Cancel(m)
    \/ state = "pending"   /\ Resume(m)
    \/ state = "completed" /\ ApproveManualReview(m)
    \/ state = "cancelled" /\ RejectManualReview(m)

(* Next, with those operations taken together.                               *)
LEMMA NextCases ==
    ASSUME Next
    PROVE  \/ \E m \in Missions, p \in Priorities, D \in SUBSET Missions, r \in RetryLimits :
                  Enqueue(m, p, D, r)
           \/ RecoverStale
           \/ \E m \in Missions : Dequeue(m)
           \/ \E m \in Missions : Fail(m)
           \/ \E m \in Missions, s \in MissionStates : Moves(m, s)
  BY SMTT(30) DEF Next, Moves, MissionStates

(* What any of the moves does, and does not: it starts from a state other    *)
(* than completed and failed, it never ends in failed or retrying, and only  *)
(* a claim, whose mission has its dependencies completed, ends in running.   *)
LEMMA MoveFacts ==
    ASSUME QueueTypeOK, NEW m, NEW s \in MissionStates, Moves(m, s)
    PROVE  /\ m \in DOMAIN missions
           /\ missions[m].state \notin {"completed", "failed"}
           /\ s \notin {"failed", "retrying"}
           /\ s = "running" => DepsCompleted(m)
           /\ missions' = [missions EXCEPT ![m].state = s]
           /\ next_seq' = next_seq
  BY SMTT(30) DEF Moves, Claim, IsNext, Eligible, Complete, Running, Block, Cancel, Resume,
                  ApproveManualReview, RejectManualReview, MoveTo, InState, Known

(* fail() replaces one record, counts one attempt and picks the next state.  *)
LEMMA FailFacts ==
    ASSUME QueueTypeOK, NEW m, Fail(m)
    PROVE  /\ Running(m)
           /\ \E r \in Mission :
                 /\ missions' = [missions EXCEPT ![m] = r]
                 /\ r.attempts_done = missions[m].attempts_done + 1
                 /\ r.state = IF r.attempts_done <= missions[m].max_retries
                              THEN "retrying" ELSE "failed"
                 /\ r.priority = missions[m].priority
                 /\ r.dependencies = missions[m].dependencies
                 /\ r.created_seq = missions[m].created_seq
                 /\ r.max_retries = missions[m].max_retries
           /\ next_seq' = next_seq
<1> DEFINE attempts == missions[m].attempts_done + 1
           r == [missions[m] EXCEPT
                   !.attempts_done = attempts,
                   !.state = IF attempts <= missions[m].max_retries
                             THEN "retrying" ELSE "failed"]
<1>1. Running(m) /\ m \in DOMAIN missions /\ missions[m] \in Mission
  BY DEF Fail, Running, InState, Known, QueueTypeOK
<1>2. r \in Mission
  <2>1. attempts \in Nat
    BY <1>1 DEF Mission
  <2>2. (IF attempts <= missions[m].max_retries THEN "retrying" ELSE "failed") \in MissionStates
    BY DEF MissionStates
  <2> HIDE DEF attempts
  <2> QED
    BY <1>1, <2>1, <2>2 DEF Mission
<1>3. missions' = [missions EXCEPT ![m] = r]
  BY <1>1 DEF Fail
<1>4. /\ r.attempts_done = attempts
      /\ r.state = IF attempts <= missions[m].max_retries THEN "retrying" ELSE "failed"
      /\ r.priority = missions[m].priority
      /\ r.dependencies = missions[m].dependencies
      /\ r.created_seq = missions[m].created_seq
      /\ r.max_retries = missions[m].max_retries
  BY <1>1 DEF Mission
<1>5. next_seq' = next_seq
  BY DEF Fail
<1> QED
  BY <1>1, <1>2, <1>3, <1>4, <1>5

-----------------------------------------------------------------------------
(* The queue file is well typed after every operation.                       *)
THEOREM QueueTyped == Spec => []QueueTypeOK
<1>1. Init => QueueTypeOK
  BY DEF Init, QueueTypeOK
<1>2. QueueTypeOK /\ [Next]_queue_vars => QueueTypeOK'
  <2> SUFFICES ASSUME QueueTypeOK, [Next]_queue_vars
               PROVE  QueueTypeOK'
    OBVIOUS
  <2>1. ASSUME NEW m \in Missions, NEW p \in Priorities, NEW D \in SUBSET Missions,
               NEW r \in RetryLimits, Enqueue(m, p, D, r)
        PROVE  QueueTypeOK'
    <3> DEFINE record == [priority |-> p, dependencies |-> D, state |-> "pending",
                          created_seq |-> next_seq, attempts_done |-> 0, max_retries |-> r]
    <3>1. record \in Mission
      BY QueueAssumption DEF Mission, MissionStates, QueueTypeOK
    <3>2. missions' = With(m, record) /\ next_seq' = next_seq + 1
      BY <2>1 DEF Enqueue, Queued
    <3> QED
      BY <3>1, <3>2 DEF QueueTypeOK, With
  <2>2. CASE RecoverStale
    BY <2>2 DEF RecoverStale, QueueTypeOK, Mission, MissionStates
  <2>3. ASSUME NEW m \in Missions, Dequeue(m)
        PROVE  QueueTypeOK'
    BY <2>3 DEF Dequeue, Without, QueueTypeOK
  <2>4. ASSUME NEW m \in Missions, Fail(m)
        PROVE  QueueTypeOK'
    BY <2>4, FailFacts DEF QueueTypeOK
  <2>5. ASSUME NEW m \in Missions, NEW s \in MissionStates, Moves(m, s)
        PROVE  QueueTypeOK'
    BY <2>5, MoveFacts DEF QueueTypeOK, Mission
  <2>6. CASE UNCHANGED queue_vars
    BY <2>6 DEF queue_vars, QueueTypeOK
  <2> QED
    BY <2>1, <2>2, <2>3, <2>4, <2>5, <2>6, NextCases
<1> QED
  BY <1>1, <1>2, PTL DEF Spec

-----------------------------------------------------------------------------
(* Whatever the callers do, a started mission's dependencies stay completed. *)
THEOREM StartedDepsAlwaysHold == Spec => []StartedDepsHold
<1>1. Init => StartedDepsHold
  BY DEF Init, StartedDepsHold
<1>2. QueueTypeOK /\ StartedDepsHold /\ [Next]_queue_vars => StartedDepsHold'
  <2> SUFFICES ASSUME QueueTypeOK, StartedDepsHold, [Next]_queue_vars,
                      NEW n \in DOMAIN missions', InState(n, {"running", "retrying", "failed"})'
               PROVE  DepsCompleted(n)'
    BY DEF StartedDepsHold
  <2> USE DEF InState, Known, DepsCompleted
  <2>1. ASSUME NEW m \in Missions, NEW p \in Priorities, NEW D \in SUBSET Missions,
               NEW r \in RetryLimits, Enqueue(m, p, D, r)
        PROVE  DepsCompleted(n)'
    BY <2>1 DEF Enqueue, Queued, With, StartedDepsHold, QueueTypeOK
  <2>2. CASE RecoverStale
    BY <2>2 DEF RecoverStale, Running, StartedDepsHold, QueueTypeOK, Mission
  <2>3. ASSUME NEW m \in Missions, Dequeue(m)
        PROVE  DepsCompleted(n)'
    BY <2>3 DEF Dequeue, Without, StartedDepsHold, QueueTypeOK
  <2>4. ASSUME NEW m \in Missions, Fail(m)
        PROVE  DepsCompleted(n)'
    BY <2>4, FailFacts DEF Running, StartedDepsHold, QueueTypeOK
  <2>5. ASSUME NEW m \in Missions, NEW s \in MissionStates, Moves(m, s)
        PROVE  DepsCompleted(n)'
    <3>1. \A d \in DOMAIN missions : missions[d].state = "completed" =>
              d \in DOMAIN missions' /\ missions'[d].state = "completed"
      BY <2>5, MoveFacts DEF QueueTypeOK, Mission
    <3>2. n \in DOMAIN missions /\ missions'[n].dependencies = missions[n].dependencies
      BY <2>5, MoveFacts DEF QueueTypeOK, Mission
    <3>3. DepsCompleted(n)
      BY <2>5, <3>2, MoveFacts DEF StartedDepsHold, QueueTypeOK, Mission
    <3> QED
      BY <3>1, <3>2, <3>3
  <2>6. CASE UNCHANGED queue_vars
    BY <2>6 DEF queue_vars, StartedDepsHold
  <2> QED
    BY <2>1, <2>2, <2>3, <2>4, <2>5, <2>6, NextCases
<1> QED
  BY <1>1, <1>2, QueueTyped, PTL DEF Spec

-----------------------------------------------------------------------------
(* Whatever its limit, a mission's attempts never leave its retry budget.    *)
THEOREM RetryBudgetHolds == Spec => []RetryBudget
<1>1. Init => RetryBudget
  BY DEF Init, RetryBudget
<1>2. QueueTypeOK /\ RetryBudget /\ [Next]_queue_vars => RetryBudget'
  <2> SUFFICES ASSUME QueueTypeOK, RetryBudget, [Next]_queue_vars
               PROVE  RetryBudget'
    OBVIOUS
  <2>1. ASSUME NEW m \in Missions, NEW p \in Priorities, NEW D \in SUBSET Missions,
               NEW r \in RetryLimits, Enqueue(m, p, D, r)
        PROVE  RetryBudget'
    BY <2>1 DEF Enqueue, Queued, With, RetryBudget, Known
  <2>2. CASE RecoverStale
    BY <2>2 DEF RecoverStale, RetryBudget, Running, InState, Known, QueueTypeOK, Mission
  <2>3. ASSUME NEW m \in Missions, Dequeue(m)
        PROVE  RetryBudget'
    BY <2>3 DEF Dequeue, Without, RetryBudget
  <2>4. ASSUME NEW m \in Missions, Fail(m)
        PROVE  RetryBudget'
    <3>1. m \in DOMAIN missions /\ missions[m].state = "running"
      BY <2>4, FailFacts DEF Running, InState, Known
    <3>2. missions[m].attempts_done \in Nat /\ missions[m].max_retries \in Int
      BY <3>1 DEF QueueTypeOK, Mission
    <3>3. missions[m].attempts_done <= missions[m].max_retries \/ missions[m].attempts_done = 0
      BY <3>1 DEF RetryBudget
    <3>4. PICK r \in Mission :
             /\ missions' = [missions EXCEPT ![m] = r]
             /\ r.attempts_done = missions[m].attempts_done + 1
             /\ r.state = IF r.attempts_done <= missions[m].max_retries
                          THEN "retrying" ELSE "failed"
             /\ r.max_retries = missions[m].max_retries
      BY <2>4, FailFacts
    <3>5. CASE r.attempts_done <= missions[m].max_retries
      BY <3>1, <3>4, <3>5 DEF RetryBudget, QueueTypeOK
    <3>6. CASE ~(r.attempts_done <= missions[m].max_retries)
      <4>1. /\ r.attempts_done > r.max_retries
            /\ r.attempts_done = 1 \/ r.attempts_done = r.max_retries + 1
        BY <3>2, <3>3, <3>4, <3>6
      <4> QED
        BY <3>1, <3>4, <3>6, <4>1 DEF RetryBudget, QueueTypeOK
    <3> QED
      BY <3>5, <3>6
  <2>5. ASSUME NEW m \in Missions, NEW s \in MissionStates, Moves(m, s)
        PROVE  RetryBudget'
    BY <2>5, MoveFacts DEF RetryBudget, QueueTypeOK, Mission
  <2>6. CASE UNCHANGED queue_vars
    BY <2>6 DEF queue_vars, RetryBudget
  <2> QED
    BY <2>1, <2>2, <2>3, <2>4, <2>5, <2>6, NextCases
<1> QED
  BY <1>1, <1>2, QueueTyped, PTL DEF Spec

(* The manual override retry() can never give a failed mission an attempt.   *)
THEOREM RetryNeverAllowed == Spec => []RetryAlwaysRefused
<1>1. QueueTypeOK /\ RetryBudget => RetryAlwaysRefused
  BY DEF QueueTypeOK, Mission, RetryBudget, RetryAlwaysRefused, RetryAllowed, InState, Known
<1> QED
  BY <1>1, QueueTyped, RetryBudgetHolds, PTL

-----------------------------------------------------------------------------
(* Creation numbers order the queue totally, dequeues included.              *)
THEOREM SeqAlwaysUnique == Spec => []SeqUnique
<1>1. Init => SeqUnique
  BY DEF Init, SeqUnique
<1>2. QueueTypeOK /\ SeqUnique /\ [Next]_queue_vars => SeqUnique'
  <2> SUFFICES ASSUME QueueTypeOK, SeqUnique, [Next]_queue_vars
               PROVE  SeqUnique'
    OBVIOUS
  <2> USE DEF SeqUnique, QueueTypeOK
  <2>1. ASSUME NEW m \in Missions, NEW p \in Priorities, NEW D \in SUBSET Missions,
               NEW r \in RetryLimits, Enqueue(m, p, D, r)
        PROVE  SeqUnique'
    <3>1. /\ DOMAIN missions' = DOMAIN missions \cup {m}
          /\ m \notin DOMAIN missions
          /\ missions'[m].created_seq = next_seq
          /\ \A n \in DOMAIN missions : missions'[n] = missions[n]
          /\ next_seq' = next_seq + 1
      BY <2>1 DEF Enqueue, Queued, With, Known
    <3>2. \A n \in DOMAIN missions : missions[n].created_seq \in Nat
      BY DEF Mission
    <3> QED
      BY <3>1, <3>2
  <2>2. CASE RecoverStale
    BY <2>2 DEF RecoverStale, Mission
  <2>3. ASSUME NEW m \in Missions, Dequeue(m)
        PROVE  SeqUnique'
    BY <2>3 DEF Dequeue, Without
  <2>4. ASSUME NEW m \in Missions, Fail(m)
        PROVE  SeqUnique'
    BY <2>4, FailFacts
  <2>5. ASSUME NEW m \in Missions, NEW s \in MissionStates, Moves(m, s)
        PROVE  SeqUnique'
    BY <2>5, MoveFacts DEF Mission
  <2>6. CASE UNCHANGED queue_vars
    BY <2>6 DEF queue_vars
  <2> QED
    BY <2>1, <2>2, <2>3, <2>4, <2>5, <2>6, NextCases
<1> QED
  BY <1>1, <1>2, QueueTyped, PTL DEF Spec

-----------------------------------------------------------------------------
(* Removing missions, or changing anything but dependencies, adds no cycle.  *)
LEMMA NoCyclesKept ==
    ASSUME NEW q, NEW r, NoCycles(q), DOMAIN r \subseteq DOMAIN q,
           \A m \in DOMAIN r : r[m].dependencies = q[m].dependencies
    PROVE  NoCycles(r)
<1> SUFFICES ASSUME NEW S \in (SUBSET DOMAIN r) \ {{}}
             PROVE  \E m \in S : r[m].dependencies \cap S = {}
  BY DEF NoCycles
<1>1. S \in (SUBSET DOMAIN q) \ {{}}
  OBVIOUS
<1>2. PICK m \in S : q[m].dependencies \cap S = {}
  BY <1>1 DEF NoCycles
<1> QED
  BY <1>2

(* The persisted dependency graph never holds a cycle.                       *)
THEOREM GraphAlwaysAcyclic == Spec => []DependencyGraphAcyclic
<1> USE DEF DependencyGraphAcyclic
<1>1. Init => DependencyGraphAcyclic
  BY DEF Init, NoCycles
<1>2. QueueTypeOK /\ DependencyGraphAcyclic /\ [Next]_queue_vars => DependencyGraphAcyclic'
  <2> SUFFICES ASSUME QueueTypeOK, NoCycles(missions), [Next]_queue_vars
               PROVE  NoCycles(missions')
    BY DEF NoCycles
  <2>1. ASSUME NEW m \in Missions, NEW p \in Priorities, NEW D \in SUBSET Missions,
               NEW r \in RetryLimits, Enqueue(m, p, D, r)
        PROVE  NoCycles(missions')
    BY <2>1 DEF Enqueue
  <2>2. ASSUME RecoverStale \/ (\E m \in Missions : Dequeue(m) \/ Fail(m))
                  \/ (\E m \in Missions, s \in MissionStates : Moves(m, s))
        PROVE  /\ DOMAIN missions' \subseteq DOMAIN missions
               /\ \A n \in DOMAIN missions' :
                      missions'[n].dependencies = missions[n].dependencies
    <3>1. CASE RecoverStale
      BY <3>1 DEF RecoverStale, QueueTypeOK, Mission
    <3>2. ASSUME NEW m \in Missions, Dequeue(m)
          PROVE  <2>2!2
      BY <3>2 DEF Dequeue, Without
    <3>3. ASSUME NEW m \in Missions, Fail(m)
          PROVE  <2>2!2
      BY <3>3, FailFacts DEF QueueTypeOK
    <3>4. ASSUME NEW m \in Missions, NEW s \in MissionStates, Moves(m, s)
          PROVE  <2>2!2
      BY <3>4, MoveFacts DEF QueueTypeOK, Mission
    <3> QED
      BY <2>2, <3>1, <3>2, <3>3, <3>4
  <2>3. CASE UNCHANGED queue_vars
    BY <2>3 DEF queue_vars
  <2> QED
    BY <2>1, <2>2, <2>3, NextCases, NoCyclesKept
<1> QED
  BY <1>1, <1>2, QueueTyped, PTL DEF Spec

(* An acyclic graph of which all is known and nothing is stuck has a         *)
(* mission to hand out: the unfinished missions are a set, so one of them    *)
(* waits for none of the others.                                             *)
THEOREM NeverCircularWait == Spec => []NoCircularWait
<1>1. QueueTypeOK /\ DependencyGraphAcyclic => NoCircularWait
  <2> SUFFICES ASSUME QueueTypeOK, NoCycles(missions),
                      \E m \in DOMAIN missions : ~InState(m, {"completed"}),
                      \A m \in DOMAIN missions :
                          InState(m, {"pending", "retrying", "completed"}),
                      \A m \in DOMAIN missions :
                          missions[m].dependencies \subseteq DOMAIN missions
               PROVE  Eligible # {}
    BY DEF NoCircularWait, DependencyGraphAcyclic
  <2> DEFINE Unfinished == {m \in DOMAIN missions : ~InState(m, {"completed"})}
  <2>1. Unfinished \in (SUBSET DOMAIN missions) \ {{}}
    OBVIOUS
  <2>2. PICK m \in Unfinished : missions[m].dependencies \cap Unfinished = {}
    BY <2>1 DEF NoCycles
  <2>3. DepsCompleted(m)
    BY <2>2 DEF DepsCompleted
  <2>4. InState(m, {"pending", "retrying"})
    BY <2>2 DEF InState
  <2> QED
    BY <2>2, <2>3, <2>4 DEF Eligible
<1> QED
  BY <1>1, QueueTyped, GraphAlwaysAcyclic, PTL

-----------------------------------------------------------------------------
(* Completion is final and attempts, order and dependencies are never        *)
(* rewritten, whichever operation runs.                                      *)
THEOREM HistoryAlwaysKept == Spec => HistoryKept
<1>1. QueueTypeOK /\ [Next]_queue_vars => [KeepsHistory]_queue_vars
  <2> SUFFICES ASSUME QueueTypeOK, Next
               PROVE  KeepsHistory
    OBVIOUS
  <2> USE DEF KeepsHistory
  <2>0. \A m \in DOMAIN missions : missions[m].attempts_done \in Nat
    BY DEF QueueTypeOK, Mission
  <2>1. ASSUME NEW m \in Missions, NEW p \in Priorities, NEW D \in SUBSET Missions,
               NEW r \in RetryLimits, Enqueue(m, p, D, r)
        PROVE  KeepsHistory
    BY <2>0, <2>1 DEF Enqueue, Queued, With, Known
  <2>2. CASE RecoverStale
    BY <2>0, <2>2 DEF RecoverStale, Running, InState, QueueTypeOK, Mission
  <2>3. ASSUME NEW m \in Missions, Dequeue(m)
        PROVE  KeepsHistory
    BY <2>0, <2>3 DEF Dequeue, Without
  <2>4. ASSUME NEW m \in Missions, Fail(m)
        PROVE  KeepsHistory
    BY <2>0, <2>4, FailFacts DEF Running, InState, QueueTypeOK
  <2>5. ASSUME NEW m \in Missions, NEW s \in MissionStates, Moves(m, s)
        PROVE  KeepsHistory
    BY <2>0, <2>5, MoveFacts DEF QueueTypeOK, Mission
  <2> QED
    BY <2>1, <2>2, <2>3, <2>4, <2>5, NextCases
<1> QED
  BY <1>1, QueueTyped, PTL DEF Spec, HistoryKept
=============================================================================
