--------------------------- MODULE SiteOperations ---------------------------
(***************************************************************************)
(* SiteOperationsManager (agent/operations/site_operations_manager.py) for *)
(* one project: threads that ingest observations, run cycles (assess,      *)
(* generate, dispatch), approve and reject tasks, register and unregister. *)
(* There are two kinds of reentrant locks, the manager's and one per       *)
(* registered project; an event is emitted under the manager's, often with *)
(* the project's held.  An observation, its finding and the task for it    *)
(* have ids that follow from each other and are one thing here.  Texts,    *)
(* severities, reports and the memory records are left out.                *)
(***************************************************************************)
EXTENDS Integers, FiniteSets

CONSTANTS
    Threads, Tasks,
    NeedsApproval,      (* tasks of high risk or of a security finding        *)
    Cost,               (* Tasks -> estimated cost                            *)
    Budget,             (* maximum_estimated_cost_per_cycle                   *)
    MaxTasks,           (* the smaller of the limits per cycle                *)
    MaxRegistrations    (* bound on register_project() calls                  *)

Registrations == 1..MaxRegistrations
Nobody == "nobody"

VARIABLES
    current,        (* the registration in _projects; 0: none                 *)
    last,           (* the latest registration; threads may hold old ones     *)
    automatic,      (* automatic_low_risk_fixes_enabled, by registration      *)
    observed,       (* observations, by registration                          *)
    findings,
    task,           (* registration -> task -> its status, or "none"          *)
    eligible,       (* tasks whose auto_dispatch_eligible is set              *)
    manager_lock,   (* who holds it                                           *)
    project_lock,   (* who holds it, by registration                          *)
    pc, mine,       (* of each thread: where it is, what it holds             *)
    submissions,    (* history: calls to the supervisor                       *)
    rejected, late  (* history: tasks that were rejected; submitted after     *)

project_vars == <<automatic, observed, findings, task, eligible>>
history_vars == <<submissions, rejected, late>>
vars == <<current, last, project_vars, manager_lock, project_lock, pc, mine, history_vars>>

Nothing == [at |-> 0, left |-> {}, spent |-> 0, count |-> 0, subject |-> {}]

Init ==
    /\ current = 0 /\ last = 0
    /\ automatic = [e \in Registrations |-> FALSE]
    /\ observed = [e \in Registrations |-> {}]
    /\ findings = [e \in Registrations |-> {}]
    /\ task = [e \in Registrations |-> [t \in Tasks |-> "none"]]
    /\ eligible = [e \in Registrations |-> {}]
    /\ manager_lock = Nobody
    /\ project_lock = [e \in Registrations |-> Nobody]
    /\ pc = [h \in Threads |-> "idle"]
    /\ mine = [h \in Threads |-> Nothing]
    /\ submissions = [e \in Registrations |-> [t \in Tasks |-> 0]]
    /\ rejected = {} /\ late = {}

At(h) == mine[h].at
Go(h, place) == pc' = [pc EXCEPT ![h] = place]
Hold(h, what) == mine' = [mine EXCEPT ![h] = what]
Leave(h) == Go(h, "idle") /\ Hold(h, Nothing)
Free(h) == project_lock[At(h)] = Nobody
Lock(h) == Free(h) /\ project_lock' = [project_lock EXCEPT ![At(h)] = h]
Unlock(h) == project_lock' = [project_lock EXCEPT ![At(h)] = Nobody]
(* _emit_event(): the manager's lock, for a moment, and that of the project  *)
(* as it is registered now.                                                  *)
Emits(h) ==
    /\ manager_lock = Nobody
    /\ current # 0 => project_lock[current] \in {Nobody, h}
Becomes(h, S, status) ==
    task' = [task EXCEPT ![At(h)] = [t \in Tasks |-> IF t \in S THEN status ELSE @[t]]]

-----------------------------------------------------------------------------

RegisterProject(auto) ==
    /\ manager_lock = Nobody
    /\ IF current # 0
       THEN /\ automatic' = [automatic EXCEPT ![current] = auto]
            /\ UNCHANGED <<current, last>>
       ELSE /\ last < MaxRegistrations
            /\ last' = last + 1 /\ current' = last + 1
            /\ automatic' = [automatic EXCEPT ![last + 1] = auto]
    /\ UNCHANGED <<observed, findings, task, eligible, manager_lock, project_lock, pc, mine,
                   history_vars>>

UnregisterProject ==
    /\ manager_lock = Nobody
    /\ current # 0 /\ current' = 0
    /\ UNCHANGED <<last, project_vars, manager_lock, project_lock, pc, mine, history_vars>>

(* The project may have been unregistered since it was looked up.            *)
IngestObservation(e, t) ==
    /\ project_lock[e] = Nobody
    /\ t \notin observed[e]
    /\ observed' = [observed EXCEPT ![e] = @ \cup {t}]
    /\ UNCHANGED <<current, last, automatic, findings, task, eligible, manager_lock,
                   project_lock, pc, mine, history_vars>>

(* A cycle is three phases; what it looks up first is for its counts alone.  *)
RunCycle(h) ==
    /\ pc[h] = "idle" /\ current # 0 /\ manager_lock = Nobody
    /\ Go(h, "assess")
    /\ UNCHANGED <<current, last, project_vars, manager_lock, project_lock, mine, history_vars>>

Phases == [assess |-> "assessing", generate |-> "generating", dispatch |-> "locking"]

(* _auto_dispatch_eligible(), with the configuration of this moment.         *)
AutoEligible(e) == IF automatic[e] THEN Tasks \ NeedsApproval ELSE {}

(* Each phase looks the project up anew, and may find another registration   *)
(* than the one before it, or none, which ends the cycle.                    *)
RequireProject(h) ==
    /\ pc[h] \in DOMAIN Phases /\ manager_lock = Nobody
    /\ IF current = 0
       THEN Leave(h)
       ELSE /\ Hold(h, [Nothing EXCEPT !.at = current, !.subject = AutoEligible(current)])
            /\ Go(h, Phases[pc[h]])
    /\ UNCHANGED <<current, last, project_vars, manager_lock, project_lock, history_vars>>

(* Every observation makes or updates a finding, and emits an event while    *)
(* the project is locked.                                                    *)
AssessFindings(h) ==
    /\ pc[h] = "assessing" /\ Lock(h)
    /\ findings' = [findings EXCEPT ![At(h)] = @ \cup observed[At(h)]]
    /\ Go(h, IF observed[At(h)] = {} THEN "assessed" ELSE "assess_emits")
    /\ UNCHANGED <<current, last, automatic, observed, task, eligible, manager_lock, mine,
                   history_vars>>

Assessed(h) ==
    /\ \/ pc[h] = "assess_emits" /\ Emits(h)
       \/ pc[h] = "assessed"
    /\ Unlock(h) /\ Go(h, "generate") /\ Hold(h, Nothing)
    /\ UNCHANGED <<current, last, project_vars, manager_lock, history_vars>>

(* _finding_has_open_task(): a status no code ever leaves counts as open.    *)
Open(e) == {t \in Tasks : task[e][t] \notin {"none", "completed", "cancelled", "failed"}}

(* The findings are read under the lock, the candidates registered under it  *)
(* later.  The most urgent ones come first; which those are is data.         *)
GenerateCandidates(h) ==
    /\ pc[h] = "generating" /\ Free(h)
    /\ LET wanted == findings[At(h)] \ Open(At(h)) IN
       \E S \in SUBSET wanted :
          /\ Cardinality(S) <= MaxTasks
          /\ S = wanted \/ Cardinality(S) = MaxTasks
          /\ Hold(h, [mine[h] EXCEPT !.left = S])
    /\ Go(h, "register")
    /\ UNCHANGED <<current, last, project_vars, manager_lock, project_lock, history_vars>>

RegisterCandidates(h) ==
    LET new == {t \in mine[h].left : task[At(h)][t] = "none"} IN
    /\ pc[h] = "register" /\ Free(h)
    /\ Becomes(h, new, "candidate")
    /\ eligible' = [eligible EXCEPT ![At(h)] = @ \cup (new \cap mine[h].subject)]
    /\ Hold(h, Nothing)
    /\ Go(h, "dispatch")
    /\ UNCHANGED <<current, last, automatic, observed, findings, manager_lock, project_lock,
                   history_vars>>

-----------------------------------------------------------------------------
(* dispatch_safe_tasks(), under the project's lock from here on.             *)

Candidates(e) == {t \in Tasks : task[e][t] \in {"candidate", "awaiting_approval"}}

(* What needs an approval is never eligible, so that the approval matters    *)
(* for the status alone: an approved task is not dispatched either.          *)
StartDispatch(h) ==
    LET waits == {t \in NeedsApproval : task[At(h)][t] = "candidate"} IN
    /\ pc[h] = "locking" /\ Lock(h)
    /\ \E unapproved \in SUBSET waits : Becomes(h, unapproved, "awaiting_approval")
    /\ Hold(h, [mine[h] EXCEPT !.left = (Candidates(At(h)) \cap eligible[At(h)]) \ NeedsApproval])
    /\ Go(h, IF task' = task THEN "dispatching" ELSE "dispatch_emits")
    /\ UNCHANGED <<current, last, automatic, observed, findings, eligible, manager_lock,
                   history_vars>>

DispatchEmits(h) ==
    /\ pc[h] = "dispatch_emits" /\ Emits(h)
    /\ Go(h, "dispatching")
    /\ UNCHANGED <<current, last, project_vars, manager_lock, project_lock, mine, history_vars>>

Allowed(h, t) == mine[h].count < MaxTasks /\ mine[h].spent + Cost[t] <= Budget
Without(h, t) == [mine[h] EXCEPT !.left = @ \ {t}]

(* Deferred by a limit or by the budget, until another cycle.                *)
Defer(h, t) ==
    /\ pc[h] = "dispatching" /\ t \in mine[h].left
    /\ Hold(h, Without(h, t))
    /\ Go(h, "dispatch_emits")
    /\ UNCHANGED <<current, last, project_vars, manager_lock, project_lock, history_vars>>

Submits(h, t) ==
    /\ submissions' = [submissions EXCEPT ![At(h)][t] = @ + 1]
    /\ late' = IF <<At(h), t>> \in rejected THEN late \cup {t} ELSE late
    /\ UNCHANGED rejected

Dispatch(h, t) ==
    /\ pc[h] = "dispatching" /\ t \in mine[h].left /\ Allowed(h, t)
    /\ Submits(h, t)
    /\ Becomes(h, {t}, "submitted")
    /\ Hold(h, [Without(h, t) EXCEPT !.spent = @ + Cost[t], !.count = @ + 1])
    /\ Go(h, "dispatch_emits")
    /\ UNCHANGED <<current, last, automatic, observed, findings, eligible, manager_lock,
                   project_lock>>

(* A plausible bug: what failed is a candidate again.                        *)
TriedAgain == "candidate"
(* The supervisor raises, or takes the request and the answer is lost.       *)
StatusAfterFailure == "blocked"
DispatchFails(h, t) ==
    /\ pc[h] = "dispatching" /\ t \in mine[h].left /\ Allowed(h, t)
    /\ Submits(h, t) \/ UNCHANGED history_vars
    /\ Becomes(h, {t}, StatusAfterFailure)
    /\ Hold(h, Without(h, t))
    /\ UNCHANGED <<current, last, automatic, observed, findings, eligible, manager_lock,
                   project_lock, pc>>

EndDispatch(h) ==
    /\ pc[h] = "dispatching" /\ mine[h].left = {}
    /\ Unlock(h) /\ Leave(h)
    /\ UNCHANGED <<current, last, project_vars, manager_lock, history_vars>>

-----------------------------------------------------------------------------
(* approve_task() and reject_task(): _find_project_by_task() takes the       *)
(* project's lock with the manager's held, the other way round.              *)

Decide(h, t, decision) ==
    /\ pc[h] = "idle" /\ current # 0
    /\ manager_lock = Nobody /\ manager_lock' = h
    /\ Hold(h, [Nothing EXCEPT !.at = current, !.subject = {t}])
    /\ Go(h, decision)
    /\ UNCHANGED <<current, last, project_vars, project_lock, history_vars>>

FindTask(h) ==
    /\ pc[h] \in {"approve", "reject"} /\ manager_lock = h
    /\ Free(h)
    /\ manager_lock' = Nobody
    /\ IF \A t \in mine[h].subject : task[At(h)][t] = "none"
       THEN Leave(h) ELSE UNCHANGED <<pc, mine>>
    /\ UNCHANGED <<current, last, project_vars, project_lock, history_vars>>

ApproveTask(h) ==
    /\ pc[h] = "approve" /\ manager_lock # h /\ Free(h)
    /\ Becomes(h, {t \in mine[h].subject : task[At(h)][t] = "awaiting_approval"}, "candidate")
    /\ Leave(h)
    /\ UNCHANGED <<current, last, automatic, observed, findings, eligible, manager_lock,
                   project_lock, history_vars>>

RejectTask(h) ==
    /\ pc[h] = "reject" /\ manager_lock # h /\ Free(h)
    /\ Becomes(h, mine[h].subject, "cancelled")
    /\ rejected' = rejected \cup {<<At(h), t>> : t \in mine[h].subject}
    /\ Leave(h)
    /\ UNCHANGED <<current, last, automatic, observed, findings, eligible, manager_lock,
                   project_lock, submissions, late>>

Step(h) ==
    \/ RunCycle(h) \/ RequireProject(h) \/ AssessFindings(h) \/ Assessed(h)
    \/ GenerateCandidates(h) \/ RegisterCandidates(h)
    \/ StartDispatch(h) \/ DispatchEmits(h) \/ EndDispatch(h)
    \/ \E t \in Tasks : Defer(h, t) \/ Dispatch(h, t) \/ DispatchFails(h, t)
    \/ \E t \in Tasks, decision \in {"approve", "reject"} : Decide(h, t, decision)
    \/ FindTask(h) \/ ApproveTask(h) \/ RejectTask(h)

Next ==
    \/ \E h \in Threads : Step(h)
    \/ \E auto \in BOOLEAN : RegisterProject(auto)
    \/ UnregisterProject
    \/ \E e \in 1 .. last, t \in Tasks : IngestObservation(e, t)

Spec == Init /\ [][Next]_vars

-----------------------------------------------------------------------------
(* Of one registration of the project a task is submitted to the supervisor  *)
(* once, also when the answer was lost, and never after it was rejected;     *)
(* also when the project is registered anew in the middle of a cycle, which  *)
(* goes on with the new registration.  The exception is that one: it starts  *)
(* with no task, so that one that was submitted or rejected before may be    *)
(* submitted again.                                                          *)
SubmittedOnce ==
    /\ \A e \in Registrations, t \in Tasks : submissions[e][t] <= 1
    /\ late = {}

(* agent/missions/autonomous_site_operations_manager_core.md:96 wants public *)
(* methods to be thread safe, and ..._tests.md:627 no deadlock: no thread    *)
(* waits for a lock of one that waits for its own.                           *)
WantsManager(h) == pc[h] \in {"assess_emits", "dispatch_emits"}
NoLockCycle ==
    \A h, k \in Threads :
        ~(/\ manager_lock = h /\ project_lock[At(h)] = k
          /\ At(k) = At(h) /\ WantsManager(k))

-----------------------------------------------------------------------------
(* The inductive invariant of SubmittedOnce.                                 *)

Statuses == {"none", "candidate", "awaiting_approval", "submitted", "blocked", "cancelled"}
UnderLock == {"assess_emits", "assessed", "dispatch_emits", "dispatching"}
Between == {"idle", "assess", "generate", "dispatch"}
Places == UnderLock \cup Between \cup {"assessing", "generating", "register", "locking",
                                       "approve", "reject"}

SitesTypeOK ==
    /\ current \in Registrations \cup {0} /\ last \in 0 .. MaxRegistrations
    /\ observed \in [Registrations -> SUBSET Tasks]
    /\ findings \in [Registrations -> SUBSET Tasks]
    /\ task \in [Registrations -> [Tasks -> Statuses]]
    /\ project_lock \in [Registrations -> Threads \cup {Nobody}]
    /\ pc \in [Threads -> Places]
    /\ mine \in [Threads -> [at : Registrations \cup {0}, left : SUBSET Tasks, spent : Int,
                             count : Int, subject : SUBSET Tasks]]
    /\ submissions \in [Registrations -> [Tasks -> Nat]]

(* A thread in a phase works on a registration, and dispatches under its lock; *)
(* so what it has left to dispatch stays as it found it.                       *)
DispatchesAlone ==
    \A h \in Threads :
        /\ pc[h] \notin Between => At(h) \in Registrations
        /\ pc[h] \in UnderLock => project_lock[At(h)] = h
        /\ pc[h] \in {"dispatch_emits", "dispatching"} => mine[h].left \subseteq Candidates(At(h))

(* What was submitted or rejected never is a candidate again.                *)
ClosedStaysClosed ==
    \A e \in Registrations, t \in Tasks :
        /\ submissions[e][t] > 0 => submissions[e][t] = 1 /\ t \notin Candidates(e)
                                    /\ task[e][t] # "none"
        /\ <<e, t>> \in rejected => task[e][t] = "cancelled"

Dispatched == SitesTypeOK /\ DispatchesAlone /\ ClosedStaysClosed /\ late = {}
=============================================================================
