-------------------------- MODULE BackgroundWorker --------------------------
(***************************************************************************)
(* Worker processes over the mission queue: BackgroundWorker.run of        *)
(* agent/runtime/background_worker.py with the checkpoint store of         *)
(* agent/runtime/checkpoint_store.py, the queue of MissionQueue, the       *)
(* operators who enqueue, cancel and resume missions (private_admin_api),  *)
(* process crashes, and the restart by the service manager.                *)
(*                                                                         *)
(* One action per stretch of run() between two accesses to shared durable  *)
(* state: a worker may die, and another process may act, between any two.  *)
(* Heartbeats and the in-memory event list are left out.                   *)
(***************************************************************************)
EXTENDS Integers, FiniteSets

CONSTANTS
    Missions, Priorities, RetryLimits, MaxSeq,   (* of the queue               *)
    Workers,           (* the worker processes on this queue                   *)
    Statuses,          (* what a controller may report                         *)
    Modes,             (* the command lines workers are started with           *)
    NoIdleLimit,       (* no --max-idle-cycles option                          *)
    CheckpointStore,   (* whether a checkpoint store is configured               *)
    Reporter,          (* whether an execution reporter is configured            *)
    MayShutDown,       (* whether SIGTERM or SIGINT may arrive                 *)
    MaxLostSaves,      (* bound: how many checkpoints fail to be saved         *)
    MaxCrashes,        (* bound: how often a worker process is killed          *)
    MaxStarts,         (* bound: how many processes are started in all            *)
    MaxInterventions   (* bound: how often an operator cancels or resumes      *)

ASSUME WorkerAssumption ==
    /\ Priorities \subseteq Int
    /\ RetryLimits \subseteq Int
    /\ CheckpointStore \in BOOLEAN
    /\ Reporter \in BOOLEAN
    /\ MayShutDown \in BOOLEAN
    /\ Modes \subseteq [once : BOOLEAN, idle_limit : Nat \cup {NoIdleLimit}]
    /\ MaxLostSaves \in Nat
    /\ MaxCrashes \in Nat
    /\ MaxStarts \in Nat
    /\ MaxInterventions \in Nat

VARIABLES
    missions, next_seq,   (* the queue file                                    *)
    pc,                   (* where each worker process is in run()             *)
    job,                  (* the mission record claim() returned to it         *)
    status,               (* what the controller reported for it               *)
    shutdown,             (* _shutdown_requested                               *)
    idle,                 (* _idle_cycles                                      *)
    checkpoints,          (* persisted queue_state and controller_status, by
                             <<id, attempt, seq>>                              *)
    lost_saves,           (* how many of them could not be written             *)
    reports,              (* missions with a persisted execution report        *)
    claims,               (* history: claims of each mission                   *)
    returns,              (* history: recoveries and resumes of each mission   *)
    succeeded,            (* history: missions whose controller succeeded      *)
    disowned,             (* history: missions recovered, cancelled or resumed
                             while a worker held them                          *)
    mode,                 (* the options all workers run with                  *)
    crashes, starts, interventions

Q == INSTANCE MissionQueue

queue_vars == <<missions, next_seq>>
process_vars == <<pc, job, status, shutdown, idle>>
store_vars == <<checkpoints, lost_saves, reports>>
history_vars == <<claims, returns, succeeded, disowned>>
bound_vars == <<mode, crashes, starts, interventions>>
vars == <<queue_vars, process_vars, store_vars, history_vars, bound_vars>>

-----------------------------------------------------------------------------
NoJob == [id |-> "none", attempts_done |-> 0, max_retries |-> 0]

(* The places of run() with a mission in hand.                               *)
Holding == {"claimed", "announced", "executing", "finished", "recorded"}

Holds(w, m) == pc[w] \in Holding /\ job[w].id = m

(* The locals of the mission just handled are dead.                          *)
Forget(w) ==
    /\ job' = [job EXCEPT ![w] = NoJob]
    /\ status' = [status EXCEPT ![w] = "none"]

Go(w, place) == pc' = [pc EXCEPT ![w] = place]

(* A process dies with all its memory: the next one starts afresh.           *)
Perish(w) ==
    /\ Go(w, "down")
    /\ Forget(w)
    /\ shutdown' = [shutdown EXCEPT ![w] = FALSE]
    /\ idle' = [idle EXCEPT ![w] = 0]

(* A mission some worker holds is taken from under it.                       *)
Disown(S) == disowned' = disowned \cup {m \in S : \E w \in Workers : Holds(w, m)}

Return(S) ==
    returns' = [m \in Missions |-> IF m \in S THEN returns[m] + 1 ELSE returns[m]]

(* DurableCheckpointStore.save replaces one record; the worker's             *)
(* _save_checkpoint swallows every failure to do so.                         *)
SaveCheckpoint(w, seq, queue_state) ==
    LET key == <<job[w].id, job[w].attempts_done, seq>>
    IN  \/ /\ CheckpointStore
           /\ checkpoints' = [k \in DOMAIN checkpoints \cup {key} |->
                                 IF k = key THEN [state |-> queue_state, status |-> status[w]]
                                 ELSE checkpoints[k]]
           /\ UNCHANGED lost_saves
        \/ /\ CheckpointStore
           /\ lost_saves < MaxLostSaves
           /\ lost_saves' = lost_saves + 1
           /\ UNCHANGED checkpoints
        \/ /\ ~CheckpointStore
           /\ UNCHANGED <<checkpoints, lost_saves>>

-----------------------------------------------------------------------------
(* The life of a worker process.                                             *)

(* Mutant of Start: run() does not recover.                                  *)
StartPolling(w) ==
    /\ pc[w] = "down"
    /\ starts < MaxStarts
    /\ Go(w, "polling")
    /\ starts' = starts + 1
    /\ UNCHANGED <<queue_vars, job, status, shutdown, idle, store_vars, history_vars,
                   mode, crashes, interventions>>

(* A fresh process, which has not recovered yet.                             *)
Start(w) ==
    /\ pc[w] = "down"
    /\ starts < MaxStarts
    /\ Go(w, "starting")
    /\ starts' = starts + 1
    /\ UNCHANGED <<queue_vars, job, status, shutdown, idle, store_vars, history_vars,
                   mode, crashes, interventions>>

Recover(w) ==
    LET stranded == {m \in DOMAIN missions : Q!Running(m)}
    IN  /\ pc[w] = "starting"
        /\ Go(w, "polling")
        /\ IF stranded = {} THEN UNCHANGED queue_vars ELSE Q!RecoverStale
        /\ Return(stranded)
        /\ Disown(stranded)
        /\ UNCHANGED <<job, status, shutdown, idle, store_vars,
                       claims, succeeded, bound_vars>>

(* Mutant of Claim: a running mission is handed out again.                   *)
ClaimAnew(w) ==
    /\ pc[w] = "polling"
    /\ \E m \in Missions :
          /\ Q!IsNext(m) \/ Q!Running(m)
          /\ Q!MoveTo(m, "running")
          /\ job' = [job EXCEPT ![w] = [id            |-> m,
                                        attempts_done |-> missions[m].attempts_done,
                                        max_retries   |-> missions[m].max_retries]]
          /\ claims' = [claims EXCEPT ![m] = @ + 1]
    /\ idle' = [idle EXCEPT ![w] = 0]
    /\ Go(w, "claimed")
    /\ UNCHANGED <<status, shutdown, store_vars, returns, succeeded, disowned, bound_vars>>

Claim(w) ==
    /\ pc[w] = "polling"
    /\ \E m \in Missions :
          /\ Q!Claim(m)
          /\ job' = [job EXCEPT ![w] = [id            |-> m,
                                        attempts_done |-> missions[m].attempts_done,
                                        max_retries   |-> missions[m].max_retries]]
          /\ claims' = [claims EXCEPT ![m] = @ + 1]
          /\ disowned' = IF \E v \in Workers : Holds(v, m)
                         THEN disowned ELSE disowned \ {m}
    /\ idle' = [idle EXCEPT ![w] = 0]
    /\ Go(w, "claimed")
    /\ UNCHANGED <<status, shutdown, store_vars, returns, succeeded, bound_vars>>

(* Mutant of FindNothing: idle cycles are not counted.                       *)
FindNothingUncounted(w) ==
    /\ pc[w] = "polling"
    /\ Q!Eligible = {}
    /\ Go(w, "idle")
    /\ UNCHANGED <<queue_vars, job, status, shutdown, idle, store_vars,
                   history_vars, bound_vars>>

(* claim() returned None.                                                    *)
FindNothing(w) ==
    /\ pc[w] = "polling"
    /\ Q!Eligible = {}
    /\ idle' = [idle EXCEPT ![w] = IF mode.idle_limit = NoIdleLimit THEN 0 ELSE @ + 1]
    /\ Go(w, "idle")
    /\ UNCHANGED <<queue_vars, job, status, shutdown, store_vars,
                   history_vars, bound_vars>>

(* Leave, or sleep for the poll interval and ask again.                      *)
EndIdleCycle(w) ==
    /\ pc[w] = "idle"
    /\ Go(w, IF \/ shutdown[w]
                \/ mode.once
                \/ mode.idle_limit # NoIdleLimit /\ idle[w] >= mode.idle_limit
             THEN "exited" ELSE "polling")
    /\ UNCHANGED <<queue_vars, job, status, shutdown, idle, store_vars,
                   history_vars, bound_vars>>

SaveClaimed(w) ==
    /\ pc[w] = "claimed"
    /\ SaveCheckpoint(w, 0, "running")
    /\ Go(w, "announced")
    /\ UNCHANGED <<queue_vars, job, status, shutdown, idle, reports,
                   history_vars, bound_vars>>

SaveStarted(w) ==
    /\ pc[w] = "announced"
    /\ SaveCheckpoint(w, 1, "running")
    /\ Go(w, "executing")
    /\ UNCHANGED <<queue_vars, job, status, shutdown, idle, reports,
                   history_vars, bound_vars>>

(* controller.execute() returns; an exception from it is a Die step.         *)
ControllerReturns(w) ==
    /\ pc[w] = "executing"
    /\ \E s \in Statuses :
          /\ status' = [status EXCEPT ![w] = s]
          /\ succeeded' = IF s = "success" THEN succeeded \cup {job[w].id} ELSE succeeded
    /\ Go(w, "finished")
    /\ UNCHANGED <<queue_vars, job, shutdown, idle, store_vars,
                   claims, returns, disowned, bound_vars>>

(* Mutant of SaveFinished: the outcome is recorded before the queue moved.   *)
SaveOutcomeEarly(w) ==
    /\ pc[w] = "finished"
    /\ SaveCheckpoint(w, 3, IF status[w] = "success" THEN "completed" ELSE "retrying")
    /\ Go(w, "recorded")
    /\ UNCHANGED <<queue_vars, job, status, shutdown, idle, reports,
                   history_vars, bound_vars>>

SaveFinished(w) ==
    /\ pc[w] = "finished"
    /\ SaveCheckpoint(w, 2, "running")
    /\ Go(w, "recorded")
    /\ UNCHANGED <<queue_vars, job, status, shutdown, idle, reports,
                   history_vars, bound_vars>>

(* Mutant of QueueCall: a retry puts the mission back without counting the   *)
(* attempt.                                                                  *)
QueueCallUncounted(s, m) ==
    CASE s = "success"                -> Q!Complete(m)
      [] s \in {"retry", "exhausted"} -> Q!Running(m) /\ Q!MoveTo(m, "retrying")
      [] OTHER                        -> Q!Block(m)

(* The queue call a status leads to; an unknown status fails closed.         *)
QueueCall(s, m) ==
    CASE s = "success"                -> Q!Complete(m)
      [] s \in {"retry", "exhausted"} -> Q!Fail(m)
      [] OTHER                        -> Q!Block(m)

CallAccepted(s, m) ==
    IF s \in {"success", "retry", "exhausted"}
    THEN Q!Running(m)
    ELSE Q!InState(m, {"pending", "retrying", "running"})

MoveMission(w) ==
    /\ pc[w] = "recorded"
    /\ QueueCall(status[w], job[w].id)
    /\ Go(w, "moved")
    /\ UNCHANGED <<job, status, shutdown, idle, store_vars, history_vars, bound_vars>>

(* The queue refuses the call: nothing catches the exception, the process    *)
(* dies without finishing the mission.                                       *)
MoveRefused(w) ==
    /\ pc[w] = "recorded"
    /\ ~CallAccepted(status[w], job[w].id)
    /\ Perish(w)
    /\ UNCHANGED <<queue_vars, store_vars, history_vars, bound_vars>>

(* The queue_state of the last checkpoint is computed from the claimed       *)
(* record, not read back from the queue.                                     *)
ExpectedState(w) ==
    CASE status[w] = "success"   -> "completed"
      [] status[w] = "retry"     ->
            IF job[w].attempts_done + 1 <= job[w].max_retries
            THEN "retrying" ELSE "failed"
      [] status[w] = "exhausted" -> "failed"
      [] OTHER                   -> "blocked"

AfterMission == IF mode.once THEN "exited" ELSE "polling"

SaveMoved(w) ==
    /\ pc[w] = "moved"
    /\ SaveCheckpoint(w, 3, ExpectedState(w))
    /\ IF status[w] = "success"
       THEN Go(w, "reporting") /\ UNCHANGED <<job, status>>
       ELSE Go(w, AfterMission) /\ Forget(w)
    /\ UNCHANGED <<queue_vars, shutdown, idle, reports, history_vars, bound_vars>>

(* Only a success is reported, after it was completed; a failure to persist  *)
(* the report is an event and nothing more.                                  *)
Report(w) ==
    /\ pc[w] = "reporting"
    /\ \/ Reporter /\ reports' = reports \cup {job[w].id}
       \/ UNCHANGED reports
    /\ Go(w, AfterMission)
    /\ Forget(w)
    /\ UNCHANGED <<queue_vars, shutdown, idle, checkpoints, lost_saves,
                   history_vars, bound_vars>>

-----------------------------------------------------------------------------
(* The environment.                                                          *)

RequestShutdown(w) ==
    /\ MayShutDown
    /\ pc[w] \notin {"down", "exited"}
    /\ ~shutdown[w]
    /\ shutdown' = [shutdown EXCEPT ![w] = TRUE]
    /\ UNCHANGED <<queue_vars, pc, job, status, idle, store_vars,
                   history_vars, bound_vars>>

(* SIGKILL, a reboot, or an exception out of the controller.                 *)
Die(w) ==
    /\ crashes < MaxCrashes
    /\ pc[w] \notin {"down", "exited"}
    /\ Perish(w)
    /\ crashes' = crashes + 1
    /\ UNCHANGED <<queue_vars, store_vars, history_vars, mode, starts, interventions>>

Submit(m) ==
    /\ \E p \in Priorities, D \in SUBSET Missions, r \in RetryLimits :
          Q!Enqueue(m, p, D, r)
    /\ UNCHANGED <<process_vars, store_vars, history_vars, bound_vars>>

Cancel(m) ==
    /\ interventions < MaxInterventions
    /\ Q!Cancel(m)
    /\ interventions' = interventions + 1
    /\ Disown({m})
    /\ UNCHANGED <<process_vars, store_vars, claims, returns, succeeded,
                   mode, crashes, starts>>

Resume(m) ==
    /\ interventions < MaxInterventions
    /\ Q!Resume(m)
    /\ interventions' = interventions + 1
    /\ Return({m})
    /\ Disown({m})
    /\ UNCHANGED <<process_vars, store_vars, claims, succeeded, mode, crashes, starts>>

-----------------------------------------------------------------------------
Init ==
    /\ Q!Init
    /\ pc = [w \in Workers |-> "down"]
    /\ job = [w \in Workers |-> NoJob]
    /\ status = [w \in Workers |-> "none"]
    /\ shutdown = [w \in Workers |-> FALSE]
    /\ idle = [w \in Workers |-> 0]
    /\ checkpoints = [k \in {} |-> [state |-> "none", status |-> "none"]]
    /\ lost_saves = 0
    /\ reports = {}
    /\ claims = [m \in Missions |-> 0]
    /\ returns = [m \in Missions |-> 0]
    /\ succeeded = {}
    /\ disowned = {}
    /\ mode \in Modes
    /\ crashes = 0
    /\ starts = 0
    /\ interventions = 0

Step(w) ==
    \/ Start(w)
    \/ Recover(w)
    \/ Claim(w)
    \/ FindNothing(w)
    \/ EndIdleCycle(w)
    \/ SaveClaimed(w)
    \/ SaveStarted(w)
    \/ ControllerReturns(w)
    \/ SaveFinished(w)
    \/ MoveMission(w)
    \/ MoveRefused(w)
    \/ SaveMoved(w)
    \/ Report(w)

Next ==
    \/ \E w \in Workers : Step(w) \/ RequestShutdown(w) \/ Die(w)
    \/ \E m \in Missions : Submit(m) \/ Cancel(m) \/ Resume(m)

Spec == Init /\ [][Next]_vars

(* A live process keeps running (the controller bounds every execution with  *)
(* a timeout) and the service manager restarts one that died.                *)
Fairness == \A w \in Workers : WF_vars(Step(w))

FairSpec == Spec /\ Fairness

-----------------------------------------------------------------------------
(* Safety.                                                                   *)

(* A mission is executed at most once per counted attempt, per recovery and  *)
(* per resume, plus the execution under way: crashes and overlapping workers *)
(* cannot buy it executions nothing accounts for.                            *)
ExecutionBudget ==
    \A m \in DOMAIN missions : claims[m] <= missions[m].attempts_done + returns[m] + 1

(* No mission stays running with nobody to move it on: a worker holds it, or *)
(* a process that has yet to start will recover it.  A worker that left      *)
(* run() gracefully has left nothing running.                                *)
RunningIsAttended ==
    \A m \in Missions :
        Q!Running(m) =>
            \E w \in Workers : Holds(w, m) \/ pc[w] \in {"down", "starting"}

(* Two workers hold one mission only if it was recovered, cancelled or       *)
(* resumed while one of them held it: claim() alone never hands it out twice.*)
OverlapExplained ==
    \A m \in Missions, v, w \in Workers :
        v # w /\ Holds(v, m) /\ Holds(w, m) => m \in disowned

(* A mission is completed only if some execution of it succeeded, whichever  *)
(* worker ends up recording it.                                              *)
CompletedSucceeded ==
    \A m \in Missions : Q!InState(m, {"completed"}) => m \in succeeded

(* What an execution leaves behind never runs ahead of the queue: it has a   *)
(* report only when the queue completed its mission, and its last checkpoint *)
(* says completed only of a completed mission, retrying or failed only when  *)
(* the attempt has been counted, and failed only of a mission that has used  *)
(* its attempts up.  That last part is not so where the controller said      *)
(* exhausted: see ExhaustedIsFailed.                                         *)
RecordsFollowQueue ==
    /\ \A m \in reports : Q!InState(m, {"completed"})
    /\ \A k \in DOMAIN checkpoints :
        k[3] = 3 =>
            /\ checkpoints[k].state = "completed" => Q!InState(k[1], {"completed"})
            /\ checkpoints[k].state \in {"retrying", "failed"} =>
                   missions[k[1]].attempts_done > k[2]
            /\ checkpoints[k].state = "failed" /\ checkpoints[k].status # "exhausted" =>
                   missions[k[1]].attempts_done > missions[k[1]].max_retries

(* The queue, the reports and the checkpoints never claim more than was done:*)
(* no completed mission without an execution that succeeded, and nothing on  *)
(* the disk that is ahead of the queue.                                      *)
RecordsAreTruthful == CompletedSucceeded /\ RecordsFollowQueue

-----------------------------------------------------------------------------
(* Liveness.                                                                 *)

(* A mission that claim() may hand out is settled in the end: completed,     *)
(* out of attempts, blocked or cancelled, in spite of crashes, unless the    *)
(* workers were told to leave (--once, --max-idle-cycles, a stop request).   *)
EligibleSettles ==
    \A m \in Missions :
        m \in Q!Eligible
            ~> \/ Q!InState(m, {"completed", "failed", "blocked", "cancelled"})
               \/ \A w \in Workers : pc[w] = "exited"

(* The worker leaves run() when it is told to: after a stop request it       *)
(* finishes the work there is and leaves, unless it dies first, and with     *)
(* --once or --max-idle-cycles the workers leave for good, however often     *)
(* submissions, resumes and crashes made them start over.                    *)
WorkersLeave ==
    /\ \A w \in Workers : shutdown[w] ~> pc[w] \in {"exited", "down"}
    /\ mode.once \/ mode.idle_limit # NoIdleLimit
           => <>[](\A w \in Workers : pc[w] = "exited")

(* Missions are settled and workers leave, whatever order crashes, stop      *)
(* requests and interventions come in.                                       *)
WorkComesToAnEnd == EligibleSettles /\ WorkersLeave

-----------------------------------------------------------------------------
(* What the mission contract background_worker.md says, and run() does not.  *)

(* "A second worker must receive no mission while the first worker owns it." *)
NoDoubleExecution ==
    \A m \in Missions, v, w \in Workers :
        v # w /\ pc[v] = "executing" /\ pc[w] = "executing" =>
            job[v].id # job[w].id

(* "Mark exhausted failures failed." (background_worker.md:17): once the     *)
(* worker has moved such a mission, and before anyone else has, it failed.   *)
ExhaustedIsFailed ==
    \A w \in Workers :
        pc[w] = "moved" /\ status[w] = "exhausted" => Q!InState(job[w].id, {"failed"})
=============================================================================
