----------------------- MODULE BackgroundWorkerProofs -----------------------
(***************************************************************************)
(* For any number of workers, missions, crashes and interventions:         *)
(* overlapping work is explained and paid for, no running mission is left  *)
(* alone, and checkpoints and reports tell the truth.                      *)
(***************************************************************************)
EXTENDS BackgroundWorker, TLAPS

(* The queue holds only identifiers callers may use.                         *)
QueuedAreMissions == DOMAIN missions \subseteq Missions

(* Of the queue a step takes at most one operation.                          *)
LEMMA StepImplementsQueue == QueuedAreMissions /\ [Next]_vars => [Q!Next]_queue_vars
<1> SUFFICES ASSUME QueuedAreMissions, [Next]_vars PROVE Q!Next \/ UNCHANGED queue_vars
  OBVIOUS
<1>1. ASSUME NEW w \in Workers, Step(w) PROVE Q!Next \/ UNCHANGED queue_vars
  <2>1. CASE Start(w)
    BY <2>1 DEF Start
  <2>2. CASE Recover(w)
    BY <2>2 DEF Recover, Q!Next
  <2>3. CASE Claim(w)
    BY <2>3 DEF Claim, Q!Next
  <2>4. CASE FindNothing(w)
    BY <2>4 DEF FindNothing
  <2>5. CASE EndIdleCycle(w)
    BY <2>5 DEF EndIdleCycle
  <2>6. CASE SaveClaimed(w) \/ SaveStarted(w) \/ SaveFinished(w)
    BY <2>6 DEF SaveClaimed, SaveStarted, SaveFinished
  <2>7. CASE ControllerReturns(w)
    BY <2>7 DEF ControllerReturns
  <2>8. CASE MoveMission(w)
    <3>1. QueueCall(status[w], job[w].id)
      BY <2>8 DEF MoveMission
    <3>2. job[w].id \in DOMAIN missions
      BY <3>1 DEF QueueCall, Q!Complete, Q!Fail, Q!Block, Q!Running, Q!InState, Q!Known
    <3>3. job[w].id \in Missions
      BY <3>2 DEF QueuedAreMissions
    <3> QED
      BY <3>1, <3>3 DEF QueueCall, Q!Next
  <2>9. CASE MoveRefused(w)
    BY <2>9 DEF MoveRefused
  <2>10. CASE SaveMoved(w) \/ Report(w)
    BY <2>10 DEF SaveMoved, Report
  <2> QED
    BY <1>1, <2>1, <2>2, <2>3, <2>4, <2>5, <2>6, <2>7, <2>8, <2>9, <2>10 DEF Step
<1>2. ASSUME NEW w \in Workers, RequestShutdown(w) \/ Die(w)
      PROVE  UNCHANGED queue_vars
  BY <1>2 DEF RequestShutdown, Die
<1>3. ASSUME NEW m \in Missions, Submit(m) \/ Cancel(m) \/ Resume(m)
      PROVE  Q!Next
  BY <1>3 DEF Submit, Cancel, Resume, Q!Next
<1>4. CASE UNCHANGED vars
  BY <1>4 DEF vars
<1> QED
  BY <1>1, <1>2, <1>3, <1>4 DEF Next

(* Queue operations do not change the limit of a mission.                    *)
LEMMA QueueKeepsLimits ==
    ASSUME Q!QueueTypeOK, [Q!Next]_queue_vars
    PROVE  \A n \in DOMAIN missions \cap DOMAIN missions' :
               missions'[n].max_retries = missions[n].max_retries
<1> USE DEF Q!QueueTypeOK, Q!Mission
<1>1. ASSUME NEW m \in Missions, NEW p, NEW D, NEW r, Q!Enqueue(m, p, D, r)
      PROVE  \A n \in DOMAIN missions : missions'[n] = missions[n]
  BY <1>1 DEF Q!Enqueue, Q!Queued, Q!With, Q!Known
<1>2. ASSUME NEW m \in Missions, Q!Dequeue(m)
      PROVE  \A n \in DOMAIN missions' : missions'[n] = missions[n]
  BY <1>2 DEF Q!Dequeue, Q!Without
<1>3. ASSUME NEW m \in Missions, NEW state, Q!MoveTo(m, state)
      PROVE  \A n \in DOMAIN missions : missions'[n].max_retries = missions[n].max_retries
  BY <1>3 DEF Q!MoveTo
<1>4. CASE Q!RecoverStale
  BY <1>4 DEF Q!RecoverStale
<1>5. ASSUME NEW m \in Missions, Q!Fail(m)
      PROVE  \A n \in DOMAIN missions : missions'[n].max_retries = missions[n].max_retries
  BY <1>5 DEF Q!Fail
<1>6. CASE UNCHANGED queue_vars
  BY <1>6 DEF queue_vars
<1> QED
  BY <1>1, <1>2, <1>3, <1>4, <1>5, <1>6
     DEF Q!Next, Q!Claim, Q!Complete, Q!Block, Q!Cancel, Q!Resume,
         Q!ApproveManualReview, Q!RejectManualReview

-----------------------------------------------------------------------------
(* The types the invariants below rest on.                                   *)

Places ==
    {"down", "starting", "polling", "idle", "exited", "moved", "reporting"} \cup Holding

Job == [id : Missions \cup {"none"}, attempts_done : Nat, max_retries : Int]

WorkersTypeOK ==
    /\ Q!QueueTypeOK
    /\ pc \in [Workers -> Places]
    /\ job \in [Workers -> Job]
    /\ status \in [Workers -> Statuses \cup {"none"}]
    /\ claims \in [Missions -> Nat]
    /\ returns \in [Missions -> Nat]

(* What moving a mission to another state changes, and what it keeps.        *)
LEMMA Moved ==
    ASSUME Q!QueueTypeOK, NEW m \in DOMAIN missions, NEW s \in Q!MissionStates,
           Q!MoveTo(m, s)
    PROVE  /\ DOMAIN missions' = DOMAIN missions
           /\ missions'[m].state = s
           /\ missions'[m].attempts_done = missions[m].attempts_done
           /\ \A n \in DOMAIN missions \ {m} : missions'[n] = missions[n]
           /\ Q!QueueTypeOK'
BY DEF Q!MoveTo, Q!QueueTypeOK, Q!Mission

(* What fail() changes: it counts the attempt.                               *)
LEMMA Failed ==
    ASSUME Q!QueueTypeOK, NEW m, Q!Fail(m)
    PROVE  /\ m \in DOMAIN missions /\ missions[m].state = "running"
           /\ DOMAIN missions' = DOMAIN missions
           /\ missions'[m].state \in {"retrying", "failed"}
           /\ missions'[m].attempts_done = missions[m].attempts_done + 1
           /\ \A n \in DOMAIN missions \ {m} : missions'[n] = missions[n]
           /\ Q!QueueTypeOK'
<1> DEFINE attempts == missions[m].attempts_done + 1
           s == IF attempts <= missions[m].max_retries THEN "retrying" ELSE "failed"
           r == [missions[m] EXCEPT !.attempts_done = attempts, !.state = s]
<1>1. m \in DOMAIN missions /\ missions[m].state = "running" /\ missions[m] \in Q!Mission
  BY DEF Q!Fail, Q!Running, Q!InState, Q!Known, Q!QueueTypeOK
<1>2. attempts \in Nat /\ s \in {"retrying", "failed"}
  BY <1>1 DEF Q!Mission
<1>3. missions' = [missions EXCEPT ![m] = r] /\ next_seq' = next_seq
  BY <1>1 DEF Q!Fail
<1>4. r \in Q!Mission /\ r.attempts_done = attempts /\ r.state = s
  <2> HIDE DEF attempts, s
  <2> QED
    BY <1>1, <1>2 DEF Q!Mission, Q!MissionStates
<1> QED
  BY <1>1, <1>2, <1>3, <1>4 DEF Q!QueueTypeOK

(* What enqueue() changes.                                                   *)
LEMMA Enqueued ==
    ASSUME Q!QueueTypeOK, NEW m \in Missions, NEW p \in Priorities,
           NEW D \in SUBSET Missions, NEW r \in RetryLimits, Q!Enqueue(m, p, D, r)
    PROVE  /\ m \notin DOMAIN missions
           /\ DOMAIN missions' = DOMAIN missions \cup {m}
           /\ missions'[m].state = "pending"
           /\ missions'[m].attempts_done = 0
           /\ \A n \in DOMAIN missions : missions'[n] = missions[n]
           /\ Q!QueueTypeOK'
<1> DEFINE record == [priority |-> p, dependencies |-> D, state |-> "pending",
                      created_seq |-> next_seq, attempts_done |-> 0, max_retries |-> r]
<1>1. record \in Q!Mission /\ record.state = "pending" /\ record.attempts_done = 0
  BY WorkerAssumption DEF Q!Mission, Q!MissionStates, Q!QueueTypeOK
<1>2. /\ m \notin DOMAIN missions
      /\ missions' = Q!With(m, record) /\ next_seq' = next_seq + 1
  BY DEF Q!Enqueue, Q!Queued, Q!Known
<1> HIDE DEF record
<1> QED
  BY <1>1, <1>2 DEF Q!QueueTypeOK, Q!With

(* What recover_stale() changes, and what the worker leaves when it finds    *)
(* nothing to recover.                                                       *)
LEMMA Recovered ==
    ASSUME Q!QueueTypeOK,
           IF {m \in DOMAIN missions : Q!Running(m)} = {}
           THEN UNCHANGED queue_vars ELSE Q!RecoverStale
    PROVE  /\ DOMAIN missions' = DOMAIN missions
           /\ \A n \in DOMAIN missions :
                 /\ missions'[n].attempts_done = missions[n].attempts_done
                 /\ missions'[n].state = IF missions[n].state = "running"
                                         THEN "retrying" ELSE missions[n].state
           /\ Q!QueueTypeOK'
<1>1. CASE {m \in DOMAIN missions : Q!Running(m)} = {}
  BY <1>1 DEF queue_vars, Q!QueueTypeOK, Q!Running, Q!InState, Q!Known
<1>2. CASE Q!RecoverStale
  BY <1>2 DEF Q!RecoverStale, Q!QueueTypeOK, Q!Running, Q!InState, Q!Known,
              Q!Mission, Q!MissionStates
<1> QED
  BY <1>1, <1>2

(* The steps of a worker that leave the queue and the histories alone.  What *)
(* one holds after them it held before; what it held it still holds, unless  *)
(* it died.                                                                  *)
Quiet(w) ==
    \/ Start(w) \/ FindNothing(w) \/ EndIdleCycle(w)
    \/ SaveClaimed(w) \/ SaveStarted(w) \/ ControllerReturns(w) \/ SaveFinished(w)
    \/ MoveRefused(w) \/ SaveMoved(w) \/ Report(w)
    \/ RequestShutdown(w) \/ Die(w)

QuietStep(w) ==
    /\ UNCHANGED <<missions, next_seq, claims, returns, disowned>>
    /\ \A v \in Workers \ {w} : pc'[v] = pc[v] /\ job'[v] = job[v]
    /\ pc' \in [Workers -> Places] /\ job' \in [Workers -> Job]
    /\ pc'[w] \in Holding => pc[w] \in Holding /\ job'[w] = job[w]
    /\ pc[w] \in Holding => pc'[w] \in Holding \cup {"down"}
    /\ pc[w] \in {"down", "starting"} => pc'[w] \in {"down", "starting"}
    /\ status' \in [Workers -> Statuses \cup {"none"}]

LEMMA QuietFacts ==
    ASSUME WorkersTypeOK, NEW w \in Workers, Quiet(w)
    PROVE  QuietStep(w)
<1> USE DEF Holding, Go, QuietStep
<1>1. NoJob \in Job /\ Holding \cup {"down", "starting", "polling", "idle", "exited", "moved", "reporting"} = Places
  BY DEF NoJob, Job, Places
<1>2. /\ pc \in [Workers -> Places] /\ job \in [Workers -> Job]
      /\ status \in [Workers -> Statuses \cup {"none"}]
  BY DEF WorkersTypeOK
<1>3. CASE Start(w) \/ FindNothing(w) \/ EndIdleCycle(w) \/ RequestShutdown(w)
  BY <1>1, <1>2, <1>3
     DEF Start, FindNothing, EndIdleCycle, RequestShutdown, queue_vars, history_vars
<1>4. CASE SaveClaimed(w) \/ SaveStarted(w) \/ SaveFinished(w)
  BY <1>1, <1>2, <1>4 DEF SaveClaimed, SaveStarted, SaveFinished, queue_vars, history_vars
<1>5. CASE ControllerReturns(w)
  BY <1>1, <1>2, <1>5 DEF ControllerReturns, queue_vars
<1>6. ASSUME Perish(w), UNCHANGED <<queue_vars, history_vars>>
      PROVE  QuietStep(w)
  BY <1>1, <1>2, <1>6 DEF Perish, Forget, queue_vars, history_vars
<1>7. CASE MoveRefused(w) \/ Die(w)
  BY <1>6, <1>7 DEF MoveRefused, Die
<1>8. CASE SaveMoved(w) \/ Report(w)
  BY <1>1, <1>2, <1>8 DEF SaveMoved, Report, Forget, AfterMission, queue_vars, history_vars
<1> QED
  BY <1>3, <1>4, <1>5, <1>7, <1>8 DEF Quiet

(* Claiming: the mission was waiting and runs now, in this worker's hands.   *)
LEMMA ClaimFacts ==
    ASSUME WorkersTypeOK, NEW w \in Workers, Claim(w)
    PROVE  \E m \in DOMAIN missions :
               /\ missions[m].state \in {"pending", "retrying"}
               /\ DOMAIN missions' = DOMAIN missions
               /\ missions'[m].state = "running"
               /\ missions'[m].attempts_done = missions[m].attempts_done
               /\ \A n \in DOMAIN missions \ {m} : missions'[n] = missions[n]
               /\ Q!QueueTypeOK'
               /\ job' = [job EXCEPT ![w] = [id            |-> m,
                                             attempts_done |-> missions[m].attempts_done,
                                             max_retries   |-> missions[m].max_retries]]
               /\ job' \in [Workers -> Job]
               /\ claims' = [claims EXCEPT ![m] = @ + 1]
               /\ disowned' = IF \E v \in Workers : Holds(v, m)
                              THEN disowned ELSE disowned \ {m}
               /\ pc[w] = "polling" /\ pc' = [pc EXCEPT ![w] = "claimed"]
               /\ UNCHANGED <<status, returns, succeeded, checkpoints, reports>>
<1>1. PICK m \in Missions :
          /\ Q!Claim(m)
          /\ job' = [job EXCEPT ![w] = [id            |-> m,
                                        attempts_done |-> missions[m].attempts_done,
                                        max_retries   |-> missions[m].max_retries]]
          /\ claims' = [claims EXCEPT ![m] = @ + 1]
          /\ disowned' = IF \E v \in Workers : Holds(v, m)
                         THEN disowned ELSE disowned \ {m}
  BY DEF Claim
<1>2. m \in DOMAIN missions /\ missions[m].state \in {"pending", "retrying"}
  BY <1>1 DEF Q!Claim, Q!IsNext, Q!Eligible, Q!InState, Q!Known
<1>3. Q!MoveTo(m, "running") /\ "running" \in Q!MissionStates
  BY <1>1 DEF Q!Claim, Q!MissionStates
<1>4. Q!QueueTypeOK
  BY DEF WorkersTypeOK
<1>5. /\ DOMAIN missions' = DOMAIN missions
      /\ missions'[m].state = "running"
      /\ missions'[m].attempts_done = missions[m].attempts_done
      /\ \A n \in DOMAIN missions \ {m} : missions'[n] = missions[n]
      /\ Q!QueueTypeOK'
  BY <1>2, <1>3, <1>4, Moved
<1>6. /\ pc[w] = "polling" /\ pc' = [pc EXCEPT ![w] = "claimed"]
      /\ UNCHANGED <<status, returns, succeeded, checkpoints, reports>>
  BY DEF Claim, Go, store_vars
<1>7. missions[m].attempts_done \in Nat /\ missions[m].max_retries \in Int
  BY <1>2, <1>4 DEF Q!QueueTypeOK, Q!Mission
<1>8. job' \in [Workers -> Job]
  BY <1>1, <1>7 DEF WorkersTypeOK, Job
<1> QED
  BY <1>1, <1>2, <1>5, <1>6, <1>8

(* The call an outcome leads to: a success completes, a failure counts the   *)
(* attempt, anything else blocks.                                            *)
LEMMA MoveFacts ==
    ASSUME WorkersTypeOK, NEW w \in Workers, MoveMission(w)
    PROVE  LET m == job[w].id
           IN  /\ m \in DOMAIN missions
               /\ missions[m].state \in {"pending", "retrying", "running"}
               /\ DOMAIN missions' = DOMAIN missions
               /\ missions'[m].state \in {"completed", "retrying", "failed", "blocked"}
               /\ missions'[m].state = "completed" <=> status[w] = "success"
               /\ missions'[m].attempts_done =
                      missions[m].attempts_done
                      + (IF status[w] \in {"retry", "exhausted"} THEN 1 ELSE 0)
               /\ missions'[m].state = "retrying" =>
                      status[w] \in {"retry", "exhausted"}
               /\ \A n \in DOMAIN missions \ {m} : missions'[n] = missions[n]
               /\ Q!QueueTypeOK'
               /\ pc[w] = "recorded" /\ pc' = [pc EXCEPT ![w] = "moved"]
               /\ UNCHANGED <<job, status, claims, returns, succeeded, disowned,
                              checkpoints, reports>>
<1> DEFINE m == job[w].id
<1>1. QueueCall(status[w], m)
  BY DEF MoveMission
<1>2. Q!QueueTypeOK
  BY DEF WorkersTypeOK
<1>3. /\ pc[w] = "recorded" /\ pc' = [pc EXCEPT ![w] = "moved"]
      /\ UNCHANGED <<job, status, claims, returns, succeeded, disowned,
                     checkpoints, reports>>
  BY DEF MoveMission, Go, store_vars, history_vars
<1>4. m \in DOMAIN missions /\ missions[m].attempts_done \in Nat
  BY <1>1, <1>2 DEF QueueCall, Q!Complete, Q!Fail, Q!Block, Q!Running, Q!InState,
                    Q!Known, Q!QueueTypeOK, Q!Mission
<1> HIDE DEF m
<1>5. CASE status[w] = "success"
  <2>1. /\ missions[m].state = "running" /\ Q!MoveTo(m, "completed")
        /\ "completed" \in Q!MissionStates
    BY <1>1, <1>5 DEF QueueCall, Q!Complete, Q!Running, Q!InState, Q!MissionStates
  <2> QED
    BY <1>2, <1>3, <1>4, <1>5, <2>1, Moved DEF m
<1>6. CASE status[w] \in {"retry", "exhausted"}
  <2>1. Q!Fail(m)
    BY <1>1, <1>6 DEF QueueCall
  <2> QED
    BY <1>2, <1>3, <1>4, <1>6, <2>1, Failed DEF m
<1>7. CASE status[w] \notin {"success", "retry", "exhausted"}
  <2>1. /\ missions[m].state \in {"pending", "retrying", "running"}
        /\ Q!MoveTo(m, "blocked") /\ "blocked" \in Q!MissionStates
    BY <1>1, <1>7 DEF QueueCall, Q!Block, Q!InState, Q!MissionStates
  <2> QED
    BY <1>2, <1>3, <1>4, <1>7, <2>1, Moved DEF m
<1> QED
  BY <1>5, <1>6, <1>7

(* An operator cancels or resumes: the mission was not completed, and it is  *)
(* not running afterwards.                                                   *)
LEMMA InterventionFacts ==
    ASSUME WorkersTypeOK, NEW m \in Missions, Cancel(m) \/ Resume(m)
    PROVE  /\ m \in DOMAIN missions /\ missions[m].state # "completed"
           /\ DOMAIN missions' = DOMAIN missions
           /\ missions'[m].state \in {"cancelled", "pending"}
           /\ missions'[m].state = "pending" => returns' = [returns EXCEPT ![m] = @ + 1]
           /\ missions'[m].state = "cancelled" => returns' = returns
           /\ missions'[m].attempts_done = missions[m].attempts_done
           /\ \A n \in DOMAIN missions \ {m} : missions'[n] = missions[n]
           /\ Q!QueueTypeOK'
           /\ disowned' = disowned \cup {n \in {m} : \E w \in Workers : Holds(w, n)}
           /\ UNCHANGED <<pc, job, status, claims, succeeded, checkpoints, reports>>
<1>1. Q!QueueTypeOK /\ returns \in [Missions -> Nat]
  BY DEF WorkersTypeOK
<1>2. "cancelled" \in Q!MissionStates /\ "pending" \in Q!MissionStates
  BY DEF Q!MissionStates
<1>3. CASE Cancel(m)
  <2>1. /\ Q!MoveTo(m, "cancelled")
        /\ m \in DOMAIN missions /\ missions[m].state # "completed"
    BY <1>3 DEF Cancel, Q!Cancel, Q!Known, Q!InState
  <2>2. /\ disowned' = disowned \cup {n \in {m} : \E w \in Workers : Holds(w, n)}
        /\ UNCHANGED <<pc, job, status, claims, returns, succeeded, checkpoints, reports>>
    BY <1>3 DEF Cancel, Disown, process_vars, store_vars
  <2> QED
    BY <1>1, <1>2, <2>1, <2>2, Moved
<1>4. CASE Resume(m)
  <2>1. /\ Q!MoveTo(m, "pending")
        /\ m \in DOMAIN missions /\ missions[m].state # "completed"
    BY <1>4 DEF Resume, Q!Resume, Q!Known, Q!InState
  <2>2. /\ disowned' = disowned \cup {n \in {m} : \E w \in Workers : Holds(w, n)}
        /\ UNCHANGED <<pc, job, status, claims, succeeded, checkpoints, reports>>
    BY <1>4 DEF Resume, Disown, process_vars, store_vars
  <2>3. returns' = [returns EXCEPT ![m] = @ + 1]
    BY <1>1, <1>4 DEF Resume, Return
  <2> QED
    BY <1>1, <1>2, <2>1, <2>2, <2>3, Moved
<1> QED
  BY <1>3, <1>4

(* A recovery: nothing runs any more, what ran waits again and is a return.  *)
LEMMA RecoverFacts ==
    ASSUME WorkersTypeOK, NEW w \in Workers, Recover(w)
    PROVE  /\ DOMAIN missions' = DOMAIN missions
           /\ \A n \in DOMAIN missions :
                 /\ missions'[n].attempts_done = missions[n].attempts_done
                 /\ missions'[n].state = IF missions[n].state = "running"
                                         THEN "retrying" ELSE missions[n].state
                 /\ returns'[n] = returns[n]
                                  + (IF missions[n].state = "running" THEN 1 ELSE 0)
           /\ returns' \in [Missions -> Nat]
           /\ Q!QueueTypeOK'
           /\ disowned' = disowned \cup
                  {m \in {n \in DOMAIN missions : missions[n].state = "running"} :
                       \E v \in Workers : Holds(v, m)}
           /\ pc[w] = "starting" /\ pc' = [pc EXCEPT ![w] = "polling"]
           /\ UNCHANGED <<job, status, claims, succeeded, checkpoints, reports>>
<1>1. Q!QueueTypeOK /\ returns \in [Missions -> Nat] /\ DOMAIN missions \subseteq Missions
  BY DEF WorkersTypeOK, Q!QueueTypeOK
<1> DEFINE stranded == {m \in DOMAIN missions : Q!Running(m)}
<1>2. stranded = {n \in DOMAIN missions : missions[n].state = "running"}
  BY DEF Q!Running, Q!InState, Q!Known
<1>3. /\ IF stranded = {} THEN UNCHANGED queue_vars ELSE Q!RecoverStale
      /\ Return(stranded) /\ Disown(stranded)
      /\ pc[w] = "starting" /\ pc' = [pc EXCEPT ![w] = "polling"]
      /\ UNCHANGED <<job, status, claims, succeeded, checkpoints, reports>>
  BY DEF Recover, Go, store_vars
<1>4. /\ DOMAIN missions' = DOMAIN missions
      /\ \A n \in DOMAIN missions :
            /\ missions'[n].attempts_done = missions[n].attempts_done
            /\ missions'[n].state = IF missions[n].state = "running"
                                    THEN "retrying" ELSE missions[n].state
      /\ Q!QueueTypeOK'
  BY <1>1, <1>3, Recovered
<1> HIDE DEF stranded
<1>5. /\ \A n \in DOMAIN missions :
            returns'[n] = returns[n] + (IF missions[n].state = "running" THEN 1 ELSE 0)
      /\ returns' \in [Missions -> Nat]
  BY <1>1, <1>2, <1>3 DEF Return
<1> QED
  BY <1>2, <1>3, <1>4, <1>5 DEF Disown

(* Submitting: the mission was not queued, and waits with nothing counted.   *)
LEMMA SubmitFacts ==
    ASSUME WorkersTypeOK, NEW m \in Missions, Submit(m)
    PROVE  /\ m \notin DOMAIN missions
           /\ DOMAIN missions' = DOMAIN missions \cup {m}
           /\ missions'[m].state = "pending"
           /\ missions'[m].attempts_done = 0
           /\ \A n \in DOMAIN missions : missions'[n] = missions[n]
           /\ Q!QueueTypeOK'
           /\ UNCHANGED <<pc, job, status, claims, returns, succeeded, disowned,
                          checkpoints, reports>>
<1>1. PICK p \in Priorities, D \in SUBSET Missions, r \in RetryLimits :
          Q!Enqueue(m, p, D, r)
  BY DEF Submit
<1>2. Q!QueueTypeOK
  BY DEF WorkersTypeOK
<1> QED
  BY <1>1, <1>2, Enqueued DEF Submit, process_vars, store_vars, history_vars

(* The steps of the system, sorted by what they do to the queue.             *)
LEMMA StepCases ==
    ASSUME [Next]_vars
    PROVE  \/ \E w \in Workers : Quiet(w) \/ Recover(w) \/ Claim(w) \/ MoveMission(w)
           \/ \E m \in Missions : Submit(m) \/ Cancel(m) \/ Resume(m)
           \/ UNCHANGED vars
BY DEF Next, Step, Quiet

(* The types are kept.                                                       *)
LEMMA WorkersTyped == Spec => []WorkersTypeOK
<1>1. Init => WorkersTypeOK
  BY DEF Init, WorkersTypeOK, Q!Init, Q!QueueTypeOK, NoJob, Job, Places
<1>2. WorkersTypeOK /\ [Next]_vars => WorkersTypeOK'
  <2> SUFFICES ASSUME WorkersTypeOK, [Next]_vars PROVE WorkersTypeOK'
    OBVIOUS
  <2> USE DEF WorkersTypeOK
  <2>0. {"polling", "claimed", "moved"} \subseteq Places
    BY DEF Places, Holding
  <2>1. ASSUME NEW w \in Workers, Quiet(w) PROVE WorkersTypeOK'
    <3>1. QuietStep(w)
      BY <2>1, QuietFacts
    <3> QED
      BY <3>1 DEF QuietStep, Q!QueueTypeOK
  <2>2. ASSUME NEW w \in Workers, Recover(w) PROVE WorkersTypeOK'
    <3> HIDE DEF WorkersTypeOK
    <3>1. /\ Q!QueueTypeOK' /\ returns' \in [Missions -> Nat]
          /\ pc' = [pc EXCEPT ![w] = "polling"] /\ UNCHANGED <<job, status, claims>>
      BY <2>2, RecoverFacts
    <3> QED
      BY <2>0, <3>1 DEF WorkersTypeOK
  <2>3. ASSUME NEW w \in Workers, Claim(w) PROVE WorkersTypeOK'
    <3> HIDE DEF WorkersTypeOK
    <3>1. PICK m \in DOMAIN missions :
              /\ Q!QueueTypeOK' /\ job' \in [Workers -> Job]
              /\ claims' = [claims EXCEPT ![m] = @ + 1]
              /\ pc' = [pc EXCEPT ![w] = "claimed"] /\ UNCHANGED <<status, returns>>
      BY <2>3, ClaimFacts
    <3>2. claims' \in [Missions -> Nat]
      BY <3>1 DEF WorkersTypeOK, Q!QueueTypeOK
    <3> QED
      BY <2>0, <3>1, <3>2 DEF WorkersTypeOK
  <2>4. ASSUME NEW w \in Workers, MoveMission(w) PROVE WorkersTypeOK'
    <3> HIDE DEF WorkersTypeOK
    <3>1. /\ Q!QueueTypeOK' /\ pc' = [pc EXCEPT ![w] = "moved"]
          /\ UNCHANGED <<job, status, claims, returns>>
      BY <2>4, MoveFacts
    <3> QED
      BY <2>0, <3>1 DEF WorkersTypeOK
  <2>5. ASSUME NEW m \in Missions, Submit(m) PROVE WorkersTypeOK'
    <3> HIDE DEF WorkersTypeOK
    <3>1. Q!QueueTypeOK' /\ UNCHANGED <<pc, job, status, claims, returns>>
      BY <2>5, SubmitFacts
    <3> QED
      BY <3>1 DEF WorkersTypeOK
  <2>6. ASSUME NEW m \in Missions, Cancel(m) \/ Resume(m) PROVE WorkersTypeOK'
    <3> HIDE DEF WorkersTypeOK
    <3>1. /\ Q!QueueTypeOK' /\ UNCHANGED <<pc, job, status, claims>>
          /\ returns' = returns \/ returns' = [returns EXCEPT ![m] = @ + 1]
      BY <2>6, InterventionFacts
    <3> QED
      BY <3>1 DEF WorkersTypeOK
  <2>7. CASE UNCHANGED vars
    BY <2>7 DEF vars, queue_vars, process_vars, history_vars, Q!QueueTypeOK
  <2> QED
    BY <2>1, <2>2, <2>3, <2>4, <2>5, <2>6, <2>7, StepCases
<1> QED
  BY <1>1, <1>2, PTL DEF Spec

-----------------------------------------------------------------------------
(* Overlapping workers.                                                      *)

(* Whoever holds a mission nobody took from it holds it running: that is why *)
(* claim(), which hands out waiting missions only, hands it to nobody else.  *)
HeldIsRunning ==
    \A m \in Missions, w \in Workers :
        Holds(w, m) /\ m \notin disowned =>
            m \in DOMAIN missions /\ missions[m].state = "running"

OverlapInv == OverlapExplained /\ HeldIsRunning

LEMMA OverlapStep == WorkersTypeOK /\ OverlapInv /\ [Next]_vars => OverlapInv'
<1> SUFFICES ASSUME WorkersTypeOK, OverlapInv, [Next]_vars PROVE OverlapInv'
  OBVIOUS
<1> USE DEF OverlapInv, OverlapExplained, HeldIsRunning, Holds
<1>1. ASSUME NEW w \in Workers, Quiet(w) PROVE OverlapInv'
  <2>1. QuietStep(w)
    BY <1>1, QuietFacts
  <2> QED
    BY <2>1 DEF QuietStep
<1>2. ASSUME NEW w \in Workers, Recover(w) PROVE OverlapInv'
  <2>1. /\ disowned' = disowned \cup
               {m \in {n \in DOMAIN missions : missions[n].state = "running"} :
                    \E v \in Workers : Holds(v, m)}
        /\ pc' = [pc EXCEPT ![w] = "polling"] /\ job' = job
    BY <1>2, RecoverFacts
  <2>2. \A v \in Workers, m \in Missions : Holds(v, m)' => Holds(v, m)
    BY <2>1 DEF WorkersTypeOK, Holding
  <2> QED
    BY <2>1, <2>2
<1>3. ASSUME NEW w \in Workers, Claim(w) PROVE OverlapInv'
  <2>1. PICK m \in DOMAIN missions :
            /\ missions[m].state \in {"pending", "retrying"}
            /\ DOMAIN missions' = DOMAIN missions
            /\ missions'[m].state = "running"
            /\ \A n \in DOMAIN missions \ {m} : missions'[n] = missions[n]
            /\ job' = [job EXCEPT ![w] = [id            |-> m,
                                          attempts_done |-> missions[m].attempts_done,
                                          max_retries   |-> missions[m].max_retries]]
            /\ disowned' = IF \E v \in Workers : Holds(v, m)
                           THEN disowned ELSE disowned \ {m}
            /\ pc[w] = "polling" /\ pc' = [pc EXCEPT ![w] = "claimed"]
    BY <1>3, ClaimFacts
  <2>2. \A v \in Workers \ {w}, n \in Missions : Holds(v, n)' <=> Holds(v, n)
    BY <2>1 DEF WorkersTypeOK
  <2>3. \A n \in Missions : Holds(w, n)' => n = m
    BY <2>1 DEF WorkersTypeOK
  <2>4. m \in Missions
    BY DEF WorkersTypeOK, Q!QueueTypeOK
  <2>5. (\E v \in Workers : Holds(v, m)) => m \in disowned
    BY <2>1, <2>4
  <2>6. OverlapExplained'
    BY <2>1, <2>2, <2>3, <2>5
  <2>7. HeldIsRunning'
    BY <2>1, <2>2, <2>3
  <2> QED
    BY <2>6, <2>7
<1>4. ASSUME NEW w \in Workers, MoveMission(w) PROVE OverlapInv'
  <2>1. /\ DOMAIN missions' = DOMAIN missions
        /\ \A n \in DOMAIN missions \ {job[w].id} : missions'[n] = missions[n]
        /\ pc[w] = "recorded" /\ pc' = [pc EXCEPT ![w] = "moved"]
        /\ UNCHANGED <<job, disowned>>
    BY <1>4, MoveFacts
  <2>2. \A v \in Workers, m \in Missions :
            Holds(v, m)' => Holds(v, m) /\ v # w
    BY <2>1 DEF WorkersTypeOK, Holding
  <2>3. Holds(w, job[w].id)
    BY <2>1 DEF Holding
  <2>4. \A v \in Workers, m \in Missions \ disowned : Holds(v, m)' => m # job[w].id
    BY <2>2, <2>3
  <2> QED
    BY <2>1, <2>2, <2>4
<1>5. ASSUME NEW m \in Missions, Submit(m) PROVE OverlapInv'
  <2>1. /\ m \notin DOMAIN missions
        /\ DOMAIN missions' = DOMAIN missions \cup {m}
        /\ \A n \in DOMAIN missions : missions'[n] = missions[n]
        /\ UNCHANGED <<pc, job, disowned>>
    BY <1>5, SubmitFacts
  <2> QED
    BY <2>1
<1>6. ASSUME NEW m \in Missions, Cancel(m) \/ Resume(m) PROVE OverlapInv'
  <2>1. /\ DOMAIN missions' = DOMAIN missions
        /\ \A n \in DOMAIN missions \ {m} : missions'[n] = missions[n]
        /\ disowned' = disowned \cup {n \in {m} : \E w \in Workers : Holds(w, n)}
        /\ UNCHANGED <<pc, job>>
    BY <1>6, InterventionFacts
  <2> QED
    BY <2>1
<1>7. CASE UNCHANGED vars
  BY <1>7 DEF vars, queue_vars, process_vars, history_vars
<1> QED
  BY <1>1, <1>2, <1>3, <1>4, <1>5, <1>6, <1>7, StepCases

(* Two workers hold one mission only if it was recovered, cancelled or       *)
(* resumed while one of them held it, however many workers there are.        *)
THEOREM OverlapAlwaysExplained == Spec => []OverlapExplained
<1>1. Init => OverlapInv
  BY DEF Init, OverlapInv, OverlapExplained, HeldIsRunning, Holds, Holding
<1>2. OverlapInv => OverlapExplained
  BY DEF OverlapInv
<1> QED
  BY <1>1, <1>2, OverlapStep, WorkersTyped, PTL DEF Spec

-----------------------------------------------------------------------------
(* Attendance.                                                               *)

LEMMA AttendedStep ==
    WorkersTypeOK /\ RunningIsAttended /\ [Next]_vars => RunningIsAttended'
<1> SUFFICES ASSUME WorkersTypeOK, RunningIsAttended, [Next]_vars
             PROVE  RunningIsAttended'
  OBVIOUS
<1> USE DEF RunningIsAttended, Holds, Q!Running, Q!InState, Q!Known
<1>1. ASSUME NEW w \in Workers, Quiet(w) PROVE RunningIsAttended'
  <2>1. QuietStep(w) /\ (pc[w] \in Holding /\ pc'[w] # "down" => job'[w] = job[w])
    BY <1>1, QuietFacts DEF QuietStep, Holding
  <2> QED
    BY <2>1 DEF QuietStep
<1>2. ASSUME NEW w \in Workers, Recover(w) PROVE RunningIsAttended'
  <2>1. /\ DOMAIN missions' = DOMAIN missions
        /\ \A n \in DOMAIN missions : missions'[n].state # "running"
    BY <1>2, RecoverFacts
  <2> QED
    BY <2>1
<1>3. ASSUME NEW w \in Workers, Claim(w) PROVE RunningIsAttended'
  <2>1. PICK m \in DOMAIN missions :
            /\ DOMAIN missions' = DOMAIN missions
            /\ \A n \in DOMAIN missions \ {m} : missions'[n] = missions[n]
            /\ job' = [job EXCEPT ![w] = [id            |-> m,
                                          attempts_done |-> missions[m].attempts_done,
                                          max_retries   |-> missions[m].max_retries]]
            /\ pc[w] = "polling" /\ pc' = [pc EXCEPT ![w] = "claimed"]
    BY <1>3, ClaimFacts
  <2>2. Holds(w, m)'
    BY <2>1 DEF WorkersTypeOK, Holding
  <2>3. \A v \in Workers : v # w => pc'[v] = pc[v] /\ job'[v] = job[v]
    BY <2>1 DEF WorkersTypeOK
  <2>4. \A n \in Missions : ~Holds(w, n) /\ pc[w] \notin {"down", "starting"}
    BY <2>1 DEF Holding
  <2> QED
    BY <2>1, <2>2, <2>3, <2>4
<1>4. ASSUME NEW w \in Workers, MoveMission(w) PROVE RunningIsAttended'
  <2>1. /\ DOMAIN missions' = DOMAIN missions
        /\ missions'[job[w].id].state # "running"
        /\ \A n \in DOMAIN missions \ {job[w].id} : missions'[n] = missions[n]
        /\ pc[w] = "recorded" /\ pc' = [pc EXCEPT ![w] = "moved"] /\ job' = job
    BY <1>4, MoveFacts
  <2>2. \A v \in Workers : v # w => pc'[v] = pc[v]
    BY <2>1 DEF WorkersTypeOK
  <2> QED
    BY <2>1, <2>2
<1>5. ASSUME NEW m \in Missions, Submit(m) PROVE RunningIsAttended'
  <2>1. /\ DOMAIN missions' = DOMAIN missions \cup {m}
        /\ missions'[m].state = "pending"
        /\ \A n \in DOMAIN missions : missions'[n] = missions[n]
        /\ UNCHANGED <<pc, job>>
    BY <1>5, SubmitFacts
  <2> QED
    BY <2>1
<1>6. ASSUME NEW m \in Missions, Cancel(m) \/ Resume(m) PROVE RunningIsAttended'
  <2>1. /\ DOMAIN missions' = DOMAIN missions
        /\ missions'[m].state # "running"
        /\ \A n \in DOMAIN missions \ {m} : missions'[n] = missions[n]
        /\ UNCHANGED <<pc, job>>
    BY <1>6, InterventionFacts
  <2> QED
    BY <2>1
<1>7. CASE UNCHANGED vars
  BY <1>7 DEF vars, queue_vars, process_vars
<1> QED
  BY <1>1, <1>2, <1>3, <1>4, <1>5, <1>6, <1>7, StepCases

(* A running mission is held by a worker, or a process that has yet to start *)
(* will recover it: no order of crashes, stops and claims strands one.       *)
THEOREM RunningAlwaysAttended == Spec => []RunningIsAttended
<1>1. Init => RunningIsAttended
  BY DEF Init, RunningIsAttended, Q!Init, Q!Running, Q!InState, Q!Known
<1> QED
  BY <1>1, AttendedStep, WorkersTyped, PTL DEF Spec

-----------------------------------------------------------------------------
(* The execution budget.                                                     *)

(* A mission nobody runs has no execution left that nothing accounts for.    *)
BudgetInv ==
    \A m \in Missions :
        /\ m \notin DOMAIN missions => claims[m] = 0
        /\ m \in DOMAIN missions =>
               claims[m] <= missions[m].attempts_done + returns[m] + 1
        /\ m \in DOMAIN missions /\ missions[m].state \in {"pending", "retrying"} =>
               claims[m] <= missions[m].attempts_done + returns[m]

LEMMA BudgetStep == WorkersTypeOK /\ BudgetInv /\ [Next]_vars => BudgetInv'
<1> SUFFICES ASSUME WorkersTypeOK, BudgetInv, [Next]_vars PROVE BudgetInv'
  OBVIOUS
<1> USE DEF BudgetInv
<1>0. /\ claims \in [Missions -> Nat] /\ returns \in [Missions -> Nat]
      /\ DOMAIN missions \subseteq Missions
      /\ \A m \in DOMAIN missions : missions[m].attempts_done \in Nat
  BY DEF WorkersTypeOK, Q!QueueTypeOK, Q!Mission
<1>1. ASSUME NEW w \in Workers, Quiet(w) PROVE BudgetInv'
  <2>1. QuietStep(w)
    BY <1>1, QuietFacts
  <2> QED
    BY <2>1 DEF QuietStep
<1>2. ASSUME NEW w \in Workers, Recover(w) PROVE BudgetInv'
  <2>1. /\ DOMAIN missions' = DOMAIN missions
        /\ \A n \in DOMAIN missions :
              /\ missions'[n].attempts_done = missions[n].attempts_done
              /\ missions'[n].state = IF missions[n].state = "running"
                                      THEN "retrying" ELSE missions[n].state
              /\ returns'[n] = returns[n]
                               + (IF missions[n].state = "running" THEN 1 ELSE 0)
        /\ claims' = claims
    BY <1>2, RecoverFacts
  <2> QED
    BY <1>0, <2>1
<1>3. ASSUME NEW w \in Workers, Claim(w) PROVE BudgetInv'
  <2>1. PICK m \in DOMAIN missions :
            /\ missions[m].state \in {"pending", "retrying"}
            /\ DOMAIN missions' = DOMAIN missions
            /\ missions'[m].state = "running"
            /\ missions'[m].attempts_done = missions[m].attempts_done
            /\ \A n \in DOMAIN missions \ {m} : missions'[n] = missions[n]
            /\ claims' = [claims EXCEPT ![m] = @ + 1]
            /\ returns' = returns
    BY <1>3, ClaimFacts
  <2> QED
    BY <1>0, <2>1
<1>4. ASSUME NEW w \in Workers, MoveMission(w) PROVE BudgetInv'
  <2> DEFINE m == job[w].id
  <2>1. /\ m \in DOMAIN missions
        /\ DOMAIN missions' = DOMAIN missions
        /\ missions'[m].state \in {"completed", "retrying", "failed", "blocked"}
        /\ missions'[m].attempts_done =
               missions[m].attempts_done
               + (IF status[w] \in {"retry", "exhausted"} THEN 1 ELSE 0)
        /\ missions'[m].state = "retrying" => status[w] \in {"retry", "exhausted"}
        /\ \A n \in DOMAIN missions \ {m} : missions'[n] = missions[n]
        /\ UNCHANGED <<claims, returns>>
    BY <1>4, MoveFacts
  <2> HIDE DEF m
  <2> QED
    BY <1>0, <2>1
<1>5. ASSUME NEW m \in Missions, Submit(m) PROVE BudgetInv'
  <2>1. /\ m \notin DOMAIN missions
        /\ DOMAIN missions' = DOMAIN missions \cup {m}
        /\ missions'[m].attempts_done = 0
        /\ \A n \in DOMAIN missions : missions'[n] = missions[n]
        /\ UNCHANGED <<claims, returns>>
    BY <1>5, SubmitFacts
  <2> QED
    BY <1>0, <2>1
<1>6. ASSUME NEW m \in Missions, Cancel(m) \/ Resume(m) PROVE BudgetInv'
  <2>1. /\ DOMAIN missions' = DOMAIN missions
        /\ missions'[m].state \in {"cancelled", "pending"}
        /\ missions'[m].state = "pending" => returns' = [returns EXCEPT ![m] = @ + 1]
        /\ missions'[m].state = "cancelled" => returns' = returns
        /\ missions'[m].attempts_done = missions[m].attempts_done
        /\ \A n \in DOMAIN missions \ {m} : missions'[n] = missions[n]
        /\ claims' = claims
    BY <1>6, InterventionFacts
  <2> QED
    BY <1>0, <2>1
<1>7. CASE UNCHANGED vars
  BY <1>7 DEF vars, queue_vars, history_vars
<1> QED
  BY <1>1, <1>2, <1>3, <1>4, <1>5, <1>6, <1>7, StepCases

(* No mission is executed more often than counted attempts, recoveries and   *)
(* resumes account for, plus the execution under way.                        *)
THEOREM ExecutionBudgetHolds == Spec => []ExecutionBudget
<1>1. Init => BudgetInv
  BY DEF Init, BudgetInv, Q!Init
<1>2. WorkersTypeOK /\ BudgetInv => ExecutionBudget
  BY DEF WorkersTypeOK, Q!QueueTypeOK, BudgetInv, ExecutionBudget
<1> QED
  BY <1>1, <1>2, BudgetStep, WorkersTyped, PTL DEF Spec

-----------------------------------------------------------------------------
(* Truthful records.                                                         *)

(* What a worker carries is never ahead of what happened: the outcome it was *)
(* told, the attempt it claimed, and, once it has moved the mission, the     *)
(* state and the count its last checkpoint and its report will claim.        *)
Carries(w) ==
    LET m == job[w].id
    IN  /\ pc[w] \in {"finished", "recorded"} /\ status[w] = "success" =>
               m \in succeeded
        /\ pc[w] \in Holding \cup {"moved"} =>
               /\ m \in DOMAIN missions
               /\ job[w].attempts_done <= missions[m].attempts_done
               /\ job[w].max_retries = missions[m].max_retries
        /\ (pc[w] = "moved" /\ status[w] = "success") \/ pc[w] = "reporting" =>
               m \in DOMAIN missions /\ missions[m].state = "completed"
        /\ pc[w] = "moved" /\ status[w] \in {"retry", "exhausted"} =>
               job[w].attempts_done < missions[m].attempts_done

CarriedIsTrue == \A w \in Workers : Carries(w)

SavedIsTrue ==
    /\ DOMAIN checkpoints \subseteq Missions \X Nat \X (0 .. 3)
    /\ \A k \in DOMAIN checkpoints : k[1] \in DOMAIN missions

TruthInv == RecordsAreTruthful /\ CarriedIsTrue /\ SavedIsTrue

(* The queue never goes back on what records rest on.                        *)
QueueAdvances ==
    /\ DOMAIN missions \subseteq DOMAIN missions'
    /\ \A m \in DOMAIN missions :
          /\ missions[m].attempts_done \in Nat /\ missions'[m].attempts_done \in Nat
          /\ missions[m].attempts_done <= missions'[m].attempts_done
          /\ missions[m].max_retries \in Int
          /\ missions'[m].max_retries = missions[m].max_retries
          /\ missions[m].state = "completed" => missions'[m].state = "completed"

LEMMA QuietAdvances ==
    ASSUME WorkersTypeOK, UNCHANGED missions PROVE QueueAdvances
BY DEF WorkersTypeOK, Q!QueueTypeOK, Q!Mission, QueueAdvances

(* What is on the disk stays true while the queue advances.                  *)
LEMMA RecordsStayTrue ==
    ASSUME TruthInv, QueueAdvances, UNCHANGED <<checkpoints, reports>>
    PROVE  RecordsFollowQueue' /\ SavedIsTrue'
<1> USE DEF TruthInv, QueueAdvances, Q!InState, Q!Known
<1>1. \A m \in reports : m \in DOMAIN missions' /\ missions'[m].state = "completed"
  BY DEF RecordsAreTruthful, RecordsFollowQueue
<1>2. ASSUME NEW k \in DOMAIN checkpoints
      PROVE  /\ k[1] \in DOMAIN missions'
             /\ k[3] = 3 =>
                  /\ checkpoints[k].state = "completed" => missions'[k[1]].state = "completed"
                  /\ checkpoints[k].state \in {"retrying", "failed"} =>
                         missions'[k[1]].attempts_done > k[2]
                  /\ checkpoints[k].state = "failed" /\ checkpoints[k].status # "exhausted" =>
                         missions'[k[1]].attempts_done > missions'[k[1]].max_retries
  <2>1. k[1] \in DOMAIN missions /\ k[2] \in Nat
    BY DEF SavedIsTrue
  <2> QED
    BY <2>1 DEF RecordsAreTruthful, RecordsFollowQueue
<1>3. DOMAIN checkpoints' = DOMAIN checkpoints
  OBVIOUS
<1> QED
  BY <1>1, <1>2, <1>3 DEF RecordsFollowQueue, SavedIsTrue

(* So does what a worker carries.                                            *)
LEMMA CarriedStaysTrue ==
    ASSUME WorkersTypeOK, TruthInv, QueueAdvances, NEW w \in Workers,
           pc'[w] = pc[w], job'[w] = job[w], status'[w] = status[w],
           succeeded \subseteq succeeded'
    PROVE  Carries(w)'
<1>1. job[w].attempts_done \in Nat
  BY DEF WorkersTypeOK, Job
<1> QED
  BY <1>1 DEF TruthInv, QueueAdvances, CarriedIsTrue, Carries, Holding

(* A checkpoint a worker saves for the mission it has in hand is true when   *)
(* what it says of the end of the execution is.                              *)
LEMMA SavedTruly ==
    ASSUME WorkersTypeOK, TruthInv, UNCHANGED <<missions, reports>>,
           NEW w \in Workers, pc[w] \in Holding \cup {"moved"},
           NEW seq \in 0 .. 3, NEW s, SaveCheckpoint(w, seq, s),
           seq = 3 =>
               /\ s = "completed" => missions[job[w].id].state = "completed"
               /\ s \in {"retrying", "failed"} =>
                      missions[job[w].id].attempts_done > job[w].attempts_done
               /\ s = "failed" /\ status[w] # "exhausted" =>
                      missions[job[w].id].attempts_done > missions[job[w].id].max_retries
    PROVE  RecordsFollowQueue' /\ SavedIsTrue'
<1>1. /\ job[w].id \in DOMAIN missions /\ job[w].id \in Missions
      /\ job[w].attempts_done \in Nat
  BY DEF WorkersTypeOK, Job, Q!QueueTypeOK, TruthInv, CarriedIsTrue, Carries
<1> DEFINE key == <<job[w].id, job[w].attempts_done, seq>>
<1>2. CASE UNCHANGED checkpoints
  BY <1>2, QuietAdvances, RecordsStayTrue
<1>3. CASE checkpoints' = [k \in DOMAIN checkpoints \cup {key} |->
                              IF k = key THEN [state |-> s, status |-> status[w]]
                              ELSE checkpoints[k]]
  <2>1. key \in Missions \X Nat \X (0 .. 3) /\ key[1] = job[w].id
        /\ key[2] = job[w].attempts_done /\ key[3] = seq
    BY <1>1
  <2> HIDE DEF key
  <2>2. SavedIsTrue'
    BY <1>1, <1>3, <2>1 DEF TruthInv, SavedIsTrue
  <2>3. ASSUME NEW k \in DOMAIN checkpoints', k[3] = 3
        PROVE  /\ checkpoints'[k].state = "completed" => Q!InState(k[1], {"completed"})
               /\ checkpoints'[k].state \in {"retrying", "failed"} =>
                      missions[k[1]].attempts_done > k[2]
               /\ checkpoints'[k].state = "failed" /\ checkpoints'[k].status # "exhausted" =>
                      missions[k[1]].attempts_done > missions[k[1]].max_retries
    <3>1. CASE k = key
      BY <1>1, <1>3, <2>1, <2>3, <3>1 DEF Q!InState, Q!Known
    <3>2. CASE k # key
      BY <1>3, <2>3, <3>2 DEF TruthInv, RecordsAreTruthful, RecordsFollowQueue
    <3> QED
      BY <3>1, <3>2
  <2> QED
    BY <2>2, <2>3 DEF TruthInv, RecordsAreTruthful, RecordsFollowQueue, Q!InState, Q!Known
<1> QED
  BY <1>2, <1>3 DEF SaveCheckpoint

(* A worker's own steps, which leave the queue alone.                        *)
LEMMA TruthQuiet ==
    ASSUME WorkersTypeOK, TruthInv, NEW w \in Workers, Quiet(w)
    PROVE  TruthInv'
<1>1. UNCHANGED missions /\ QueueAdvances
  BY QuietFacts, QuietAdvances DEF QuietStep
<1>2. ASSUME succeeded \subseteq succeeded', Carries(w)',
             \A v \in Workers \ {w} :
                 pc'[v] = pc[v] /\ job'[v] = job[v] /\ status'[v] = status[v],
             RecordsFollowQueue' /\ SavedIsTrue'
      PROVE  TruthInv'
  <2>1. CarriedIsTrue'
    BY <1>1, <1>2, CarriedStaysTrue DEF CarriedIsTrue
  <2>2. CompletedSucceeded'
    BY <1>1, <1>2 DEF TruthInv, RecordsAreTruthful, CompletedSucceeded, Q!InState, Q!Known
  <2> QED
    BY <1>2, <2>1, <2>2 DEF TruthInv, RecordsAreTruthful
<1>3. ASSUME UNCHANGED <<checkpoints, reports>> PROVE RecordsFollowQueue' /\ SavedIsTrue'
  BY <1>1, <1>3, RecordsStayTrue
<1>4. Carries(w)
  BY DEF TruthInv, CarriedIsTrue
<1> USE DEF Go, WorkersTypeOK
<1>5. CASE Start(w) \/ FindNothing(w) \/ EndIdleCycle(w)
  <2>1. /\ UNCHANGED <<job, status, succeeded, checkpoints, reports>>
        /\ \A v \in Workers \ {w} : pc'[v] = pc[v]
        /\ pc'[w] \notin Holding \cup {"moved", "reporting"}
    BY <1>5 DEF Start, FindNothing, EndIdleCycle, store_vars, history_vars, Holding
  <2>2. Carries(w)'
    BY <2>1 DEF Carries, Holding
  <2> QED
    BY <1>2, <1>3, <2>1, <2>2
<1>6. CASE RequestShutdown(w)
  <2>1. UNCHANGED <<pc, job, status, succeeded, checkpoints, reports>>
    BY <1>6 DEF RequestShutdown, store_vars, history_vars
  <2>2. Carries(w)'
    BY <1>1, <1>4, <2>1 DEF Carries
  <2> QED
    BY <1>2, <1>3, <2>1, <2>2
<1>7. CASE MoveRefused(w) \/ Die(w)
  <2>1. /\ Perish(w) /\ UNCHANGED <<succeeded, checkpoints, reports>>
    BY <1>7 DEF MoveRefused, Die, store_vars, history_vars
  <2>2. /\ pc'[w] = "down"
        /\ \A v \in Workers \ {w} :
               pc'[v] = pc[v] /\ job'[v] = job[v] /\ status'[v] = status[v]
    BY <2>1 DEF Perish, Forget
  <2>3. Carries(w)'
    BY <2>2 DEF Carries, Holding
  <2> QED
    BY <1>2, <1>3, <2>1, <2>2, <2>3
<1>8. CASE SaveClaimed(w) \/ SaveStarted(w) \/ SaveFinished(w)
  <2>1. /\ UNCHANGED <<job, status, succeeded, reports>>
        /\ \A v \in Workers \ {w} : pc'[v] = pc[v]
        /\ pc[w] \in Holding /\ pc'[w] \in Holding
        /\ pc'[w] \in {"finished", "recorded"} => pc[w] = "finished"
        /\ \E seq \in {0, 1, 2} : SaveCheckpoint(w, seq, "running")
    BY <1>8 DEF SaveClaimed, SaveStarted, SaveFinished, history_vars, Holding
  <2>2. Carries(w)'
    BY <1>1, <1>4, <2>1 DEF Carries, Holding
  <2>3. PICK seq \in {0, 1, 2} : SaveCheckpoint(w, seq, "running")
    BY <2>1
  <2>4. seq \in 0 .. 3 /\ seq # 3 /\ pc[w] \in Holding \cup {"moved"}
    BY <2>1
  <2> HIDE DEF WorkersTypeOK
  <2>5. RecordsFollowQueue' /\ SavedIsTrue'
    BY <1>1, <2>1, <2>3, <2>4, SavedTruly
  <2> QED
    BY <1>2, <2>1, <2>2, <2>5
<1>9. CASE ControllerReturns(w)
  <2>1. PICK s \in Statuses :
            /\ status' = [status EXCEPT ![w] = s]
            /\ succeeded' = IF s = "success" THEN succeeded \cup {job[w].id} ELSE succeeded
    BY <1>9 DEF ControllerReturns
  <2>2. /\ pc[w] = "executing" /\ pc' = [pc EXCEPT ![w] = "finished"]
        /\ UNCHANGED <<job, checkpoints, reports>>
    BY <1>9 DEF ControllerReturns, store_vars
  <2>3. Carries(w)'
    BY <1>1, <1>4, <2>1, <2>2 DEF Carries, Holding
  <2>4. /\ succeeded \subseteq succeeded'
        /\ \A v \in Workers \ {w} : pc'[v] = pc[v] /\ status'[v] = status[v]
    BY <2>1, <2>2
  <2> QED
    BY <1>2, <1>3, <2>2, <2>3, <2>4
<1>10. CASE SaveMoved(w)
  <2>1. /\ pc[w] = "moved" /\ SaveCheckpoint(w, 3, ExpectedState(w))
        /\ UNCHANGED <<succeeded, reports>>
    BY <1>10 DEF SaveMoved, history_vars
  <2>2. /\ \A v \in Workers \ {w} :
               pc'[v] = pc[v] /\ job'[v] = job[v] /\ status'[v] = status[v]
        /\ \/ pc'[w] \in {"exited", "polling"}
           \/ pc'[w] = "reporting" /\ status[w] = "success" /\ UNCHANGED <<job, status>>
    BY <1>10 DEF SaveMoved, Forget, AfterMission
  <2>3. Carries(w)'
    BY <1>1, <1>4, <2>1, <2>2 DEF Carries, Holding
  <2>4. /\ ExpectedState(w) = "completed" => status[w] = "success"
        /\ ExpectedState(w) \in {"retrying", "failed"} => status[w] \in {"retry", "exhausted"}
    BY DEF ExpectedState
  <2>5. /\ ExpectedState(w) = "completed" => missions[job[w].id].state = "completed"
        /\ ExpectedState(w) \in {"retrying", "failed"} =>
               missions[job[w].id].attempts_done > job[w].attempts_done
        /\ ExpectedState(w) = "failed" /\ status[w] # "exhausted" =>
               missions[job[w].id].attempts_done > missions[job[w].id].max_retries
    <3>1. /\ status[w] = "success" => missions[job[w].id].state = "completed"
          /\ status[w] \in {"retry", "exhausted"} =>
                 /\ job[w].attempts_done < missions[job[w].id].attempts_done
                 /\ job[w].id \in DOMAIN missions
                 /\ job[w].max_retries = missions[job[w].id].max_retries
      BY <1>4, <2>1 DEF Carries
    <3>2. job[w].attempts_done \in Nat
      BY DEF Job
    <3>3. job[w].id \in DOMAIN missions =>
              missions[job[w].id].attempts_done \in Nat /\ missions[job[w].id].max_retries \in Int
      BY DEF Q!QueueTypeOK, Q!Mission
    <3>4. ExpectedState(w) = "failed" /\ status[w] # "exhausted" =>
              status[w] = "retry" /\ ~(job[w].attempts_done + 1 <= job[w].max_retries)
      BY DEF ExpectedState
    <3> QED
      BY <2>4, <3>1, <3>2, <3>3, <3>4
  <2> HIDE DEF WorkersTypeOK
  <2>6. RecordsFollowQueue' /\ SavedIsTrue'
    <3>1. 3 \in 0 .. 3 /\ pc[w] \in Holding \cup {"moved"}
      BY <2>1
    <3> QED
      BY <1>1, <2>1, <2>5, <3>1, SavedTruly
  <2> QED
    BY <1>2, <2>1, <2>2, <2>3, <2>6
<1>11. CASE Report(w)
  <2>1. /\ pc[w] = "reporting"
        /\ reports' = reports \/ reports' = reports \cup {job[w].id}
        /\ UNCHANGED <<checkpoints, succeeded>>
        /\ pc'[w] \in {"exited", "polling"}
        /\ \A v \in Workers \ {w} :
               pc'[v] = pc[v] /\ job'[v] = job[v] /\ status'[v] = status[v]
    BY <1>11 DEF Report, Forget, AfterMission, history_vars
  <2>2. Carries(w)'
    BY <2>1 DEF Carries, Holding
  <2>3. Q!InState(job[w].id, {"completed"})
    BY <1>4, <2>1 DEF Carries, Q!InState, Q!Known
  <2>4. RecordsFollowQueue' /\ SavedIsTrue'
    BY <1>1, <2>1, <2>3
       DEF TruthInv, RecordsAreTruthful, RecordsFollowQueue, SavedIsTrue, Q!InState, Q!Known
  <2> QED
    BY <1>2, <2>1, <2>2, <2>4
<1> QED
  BY <1>5, <1>6, <1>7, <1>8, <1>9, <1>10, <1>11 DEF Quiet

(* A queue operation.  Only moving a mission on completes one.               *)
LEMMA TruthQueue ==
    ASSUME WorkersTypeOK, TruthInv, QueueAdvances,
           UNCHANGED <<status, succeeded, checkpoints, reports>>,
           \A v \in Workers : (pc'[v] = pc[v] /\ job'[v] = job[v]) \/ Carries(v)',
           \A m \in DOMAIN missions' : missions'[m].state = "completed" =>
               m \in succeeded \/ (m \in DOMAIN missions /\ missions[m].state = "completed")
    PROVE  TruthInv'
<1>1. CarriedIsTrue'
  BY CarriedStaysTrue DEF CarriedIsTrue
<1>2. CompletedSucceeded'
  BY DEF TruthInv, RecordsAreTruthful, CompletedSucceeded, Q!InState, Q!Known
<1> QED
  BY <1>1, <1>2, RecordsStayTrue DEF TruthInv, RecordsAreTruthful

LEMMA TruthStep == WorkersTypeOK /\ TruthInv /\ [Next]_vars => TruthInv'
<1> SUFFICES ASSUME WorkersTypeOK, TruthInv, [Next]_vars PROVE TruthInv'
  OBVIOUS
<1>0. /\ \A m \in DOMAIN missions :
            missions[m].attempts_done \in Nat /\ missions[m].max_retries \in Int
      /\ \A m \in DOMAIN missions \cap DOMAIN missions' :
            missions'[m].max_retries = missions[m].max_retries
  <2>1. Q!QueueTypeOK /\ QueuedAreMissions
    BY DEF WorkersTypeOK, Q!QueueTypeOK, QueuedAreMissions
  <2>2. [Q!Next]_queue_vars
    BY <2>1, StepImplementsQueue
  <2> QED
    BY <2>1, <2>2, QueueKeepsLimits DEF Q!QueueTypeOK, Q!Mission
<1>1. ASSUME NEW w \in Workers, Quiet(w) PROVE TruthInv'
  BY <1>1, TruthQuiet
<1>2. ASSUME NEW w \in Workers, Recover(w) PROVE TruthInv'
  <2>1. /\ DOMAIN missions' = DOMAIN missions
        /\ \A n \in DOMAIN missions :
              /\ missions'[n].attempts_done = missions[n].attempts_done
              /\ missions'[n].state = IF missions[n].state = "running"
                                      THEN "retrying" ELSE missions[n].state
        /\ pc' = [pc EXCEPT ![w] = "polling"]
        /\ UNCHANGED <<job, status, succeeded, checkpoints, reports>>
    BY <1>2, RecoverFacts
  <2>2. pc'[w] = "polling" /\ \A v \in Workers \ {w} : pc'[v] = pc[v]
    BY <2>1 DEF WorkersTypeOK
  <2>3. Carries(w)'
    BY <2>2 DEF Carries, Holding
  <2>4. QueueAdvances
    BY <1>0, <2>1 DEF QueueAdvances
  <2> QED
    BY <2>1, <2>2, <2>3, <2>4, TruthQueue
<1>3. ASSUME NEW w \in Workers, Claim(w) PROVE TruthInv'
  <2>1. PICK m \in DOMAIN missions :
            /\ missions[m].state \in {"pending", "retrying"}
            /\ DOMAIN missions' = DOMAIN missions
            /\ missions'[m].state = "running"
            /\ missions'[m].attempts_done = missions[m].attempts_done
            /\ \A n \in DOMAIN missions \ {m} : missions'[n] = missions[n]
            /\ job' = [job EXCEPT ![w] = [id            |-> m,
                                          attempts_done |-> missions[m].attempts_done,
                                          max_retries   |-> missions[m].max_retries]]
            /\ pc' = [pc EXCEPT ![w] = "claimed"]
            /\ UNCHANGED <<status, returns, succeeded, checkpoints, reports>>
    BY <1>3, ClaimFacts
  <2>2. /\ pc'[w] = "claimed" /\ job'[w].id = m
        /\ job'[w].attempts_done = missions[m].attempts_done
        /\ job'[w].max_retries = missions[m].max_retries
        /\ \A v \in Workers \ {w} : pc'[v] = pc[v] /\ job'[v] = job[v]
    BY <2>1 DEF WorkersTypeOK
  <2>3. Carries(w)'
    BY <1>0, <2>1, <2>2 DEF Carries, Holding
  <2>4. QueueAdvances
    BY <1>0, <2>1 DEF QueueAdvances
  <2> QED
    BY <2>1, <2>2, <2>3, <2>4, TruthQueue
<1>4. ASSUME NEW w \in Workers, MoveMission(w) PROVE TruthInv'
  <2> DEFINE m == job[w].id
  <2>1. /\ m \in DOMAIN missions
        /\ missions[m].state \in {"pending", "retrying", "running"}
        /\ DOMAIN missions' = DOMAIN missions
        /\ missions'[m].state = "completed" <=> status[w] = "success"
        /\ missions'[m].attempts_done =
               missions[m].attempts_done
               + (IF status[w] \in {"retry", "exhausted"} THEN 1 ELSE 0)
        /\ \A n \in DOMAIN missions \ {m} : missions'[n] = missions[n]
        /\ pc[w] = "recorded" /\ pc' = [pc EXCEPT ![w] = "moved"]
        /\ UNCHANGED <<job, status, succeeded, checkpoints, reports>>
    BY <1>4, MoveFacts
  <2>2. pc'[w] = "moved" /\ \A v \in Workers \ {w} : pc'[v] = pc[v]
    BY <2>1 DEF WorkersTypeOK
  <2>3. /\ status[w] = "success" => m \in succeeded
        /\ job[w].attempts_done <= missions[m].attempts_done
        /\ job[w].max_retries = missions[m].max_retries
        /\ job[w].attempts_done \in Nat
    BY <2>1 DEF TruthInv, CarriedIsTrue, Carries, Holding, WorkersTypeOK, Job
  <2>4. QueueAdvances
    BY <1>0, <2>1 DEF QueueAdvances
  <2>5. Carries(w)'
    BY <1>0, <2>1, <2>2, <2>3 DEF Carries, Holding
  <2>6. \A n \in DOMAIN missions' : missions'[n].state = "completed" =>
            n \in succeeded \/ (n \in DOMAIN missions /\ missions[n].state = "completed")
    BY <2>1, <2>3
  <2> HIDE DEF m
  <2> QED
    BY <2>1, <2>2, <2>4, <2>5, <2>6, TruthQueue
<1>5. ASSUME NEW m \in Missions, Submit(m) PROVE TruthInv'
  <2>1. /\ m \notin DOMAIN missions
        /\ DOMAIN missions' = DOMAIN missions \cup {m}
        /\ missions'[m].state = "pending"
        /\ \A n \in DOMAIN missions : missions'[n] = missions[n]
        /\ UNCHANGED <<pc, job, status, succeeded, checkpoints, reports>>
    BY <1>5, SubmitFacts
  <2>2. QueueAdvances
    BY <1>0, <2>1 DEF QueueAdvances
  <2> QED
    BY <2>1, <2>2, TruthQueue
<1>6. ASSUME NEW m \in Missions, Cancel(m) \/ Resume(m) PROVE TruthInv'
  <2>1. /\ m \in DOMAIN missions /\ missions[m].state # "completed"
        /\ DOMAIN missions' = DOMAIN missions
        /\ missions'[m].state \in {"cancelled", "pending"}
        /\ missions'[m].attempts_done = missions[m].attempts_done
        /\ \A n \in DOMAIN missions \ {m} : missions'[n] = missions[n]
        /\ UNCHANGED <<pc, job, status, succeeded, checkpoints, reports>>
    BY <1>6, InterventionFacts
  <2>2. QueueAdvances
    BY <1>0, <2>1 DEF QueueAdvances
  <2> QED
    BY <2>1, <2>2, TruthQueue
<1>7. CASE UNCHANGED vars
  <2>1. UNCHANGED <<missions, pc, job, status, succeeded, checkpoints, reports>>
    BY <1>7 DEF vars, queue_vars, process_vars, store_vars, history_vars
  <2> QED
    BY <2>1, QuietAdvances, TruthQueue
<1> QED
  BY <1>1, <1>2, <1>3, <1>4, <1>5, <1>6, <1>7, StepCases

(* The queue, the reports and the checkpoints never claim more than was      *)
(* done, whichever of the workers that held a mission ends up recording it.  *)
THEOREM RecordsAlwaysTruthful == Spec => []RecordsAreTruthful
<1>1. Init => TruthInv
  BY DEF Init, TruthInv, RecordsAreTruthful, CompletedSucceeded, RecordsFollowQueue,
         CarriedIsTrue, Carries, Holding, SavedIsTrue, Q!Init, Q!InState, Q!Known
<1>2. TruthInv => RecordsAreTruthful
  BY DEF TruthInv
<1> QED
  BY <1>1, <1>2, TruthStep, WorkersTyped, PTL DEF Spec
=============================================================================
