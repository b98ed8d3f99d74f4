------------------------ MODULE DevelopmentSupervisor ------------------------
(***************************************************************************)
(* AutonomousDevelopmentSupervisor                                         *)
(* (agent/autonomy/autonomous_development_supervisor.py) for one           *)
(* development request: threads that run and resume it, approve, reject    *)
(* and cancel it, over a store whose calls are atomic.  Status changes     *)
(* compare the status they expect under the run's lock; everything between *)
(* two of them is open to the other threads.  The planner, the executor,   *)
(* the validation engine and Git are injected: they answer anything.       *)
(* Events, reports and counters the callers only store are left out.       *)
(***************************************************************************)
EXTENDS Naturals, Sequences

CONSTANTS
    Callers,        (* threads                                                *)
    Plan,           (* the missions the planner makes, in order               *)
    DependsOn,      (* mission -> the missions it depends on                  *)
    Calculated,     (* risk levels the assessment may come to                 *)
    Requested,      (* risk levels the request may ask for                    *)
    AutoMerge,      (* levels auto_merge_low_risk, .._medium_risk switch on   *)
    AutoDeploy,     (* auto_deploy_enabled                                    *)
    MaxAttempts,    (* maximum_retry_attempts_per_mission                     *)
    MaxRetries      (* maximum_total_retry_attempts                           *)

Levels == {"low", "medium", "high", "critical"}
Unasked == "unasked"
Settled == {"blocked", "failed", "cancelled", "completed"}

VARIABLES
    status,         (* of the run; "none": nothing submitted                  *)
    missions,       (* that are stored with the run                           *)
    stored_risk,
    approvals,      (* decisions that are recorded: approved, rejected        *)
    requested,      (* the level the request asks for                         *)
    pc, mine,       (* of each thread: where it is, what it holds             *)
    merges,         (* history: what each merge rested on                     *)
    sought,         (* history: an approval was asked for                     *)
    warned          (* history: threads that were not past the point where
                       they heed a rejection or a cancellation when one came  *)

store_vars == <<status, missions, stored_risk, approvals, requested>>
history_vars == <<merges, sought, warned>>
vars == <<store_vars, pc, mine, history_vars>>

Nothing ==
    [missions |-> <<>>, todo |-> <<>>, done |-> {}, unfinished |-> {}, attempt |-> 0,
     retries |-> 0, risk |-> "low", assessed |-> "low", resumed |-> FALSE, passed |-> FALSE]

Init ==
    /\ status = "none" /\ missions = <<>> /\ stored_risk = "low"
    /\ approvals = {}
    /\ requested \in Requested
    /\ pc = [c \in Callers |-> "idle"]
    /\ mine = [c \in Callers |-> Nothing]
    /\ merges = {} /\ sought = FALSE /\ warned = {}

Go(c, place) == pc' = [pc EXCEPT ![c] = place]
Hold(c, what) == mine' = [mine EXCEPT ![c] = what]
Goes(c, place) == Go(c, place) /\ UNCHANGED mine
(* The call returns or raises; the run stays as it is.                       *)
Leave(c) == Go(c, "idle") /\ Hold(c, Nothing)

BeforeMerge == {c \in Callers : pc[c] \notin {"merge", "merged", "unmerged"}}
BeforeReadiness == {c \in BeforeMerge : pc[c] \notin {"enter_merge", "hold", "held"}}
Warn(S) == warned' = warned \cup S /\ UNCHANGED <<merges, sought>>

(* _transition(): compare and set, and a second thread that finds its move   *)
(* already made goes along.  Any other status ends the call.                 *)
Reaches(from, to) == status \in {from, to}
Transition(c, from, to) ==
    /\ status' = IF Reaches(from, to) THEN to ELSE status
    /\ UNCHANGED <<missions, stored_risk, approvals, requested>>
Move(c, at, from, to, place) ==
    /\ pc[c] = at
    /\ Transition(c, from, to)
    /\ IF Reaches(from, to) /\ place # "idle" THEN Goes(c, place) ELSE Leave(c)

-----------------------------------------------------------------------------
(* run(): the run is created if there is none, and led to planning.          *)

Create == status' = IF status = "none" THEN "created" ELSE status

Submit ==
    /\ status = "none" /\ Create
    /\ UNCHANGED <<missions, stored_risk, approvals, requested, pc, mine, history_vars>>

Run(c) ==
    /\ pc[c] = "idle"
    /\ Create /\ Goes(c, "created")
    /\ UNCHANGED <<missions, stored_risk, approvals, requested, history_vars>>

Begin(c) ==
    /\ \/ Move(c, "created", "created", "validating", "validating")
       \/ Move(c, "validated", "validating", "planning", "planning")
    /\ UNCHANGED history_vars

(* A path that leaves the repository fails the run, whatever its status is;  *)
(* an unknown project raises and leaves it where it is.                      *)
CheckRequest(c) ==
    /\ pc[c] = "validating"
    /\ \/ status' = "failed" /\ Leave(c) /\ Warn(BeforeMerge)
       \/ UNCHANGED <<status, history_vars>> /\ (Leave(c) \/ Goes(c, "validated"))
    /\ UNCHANGED <<missions, stored_risk, approvals, requested>>

(* The levels compare as the strings they are.                               *)
Alphabetical(level) ==
    CASE level = "critical" -> 1 [] level = "high" -> 2
      [] level = "low" -> 3 [] level = "medium" -> 4
RiskOf(level) ==
    IF requested # Unasked /\ Alphabetical(level) < Alphabetical(requested)
    THEN requested ELSE level

(* _determine_required_approvals(): by what is to change, and by the risk.   *)
NeedsApproval(risk, sensitive) == sensitive \/ risk \in {"high", "critical"}

(* A plan is made, checked and turned into missions, its risk assessed and   *)
(* stored.  Any of the steps may raise or run out of time: the run then      *)
(* stays in planning, where no call takes it up again.                       *)
MakePlan(c) ==
    /\ pc[c] = "planning"
    /\ \/ Leave(c) /\ UNCHANGED stored_risk
       \/ \E level \in Calculated, sensitive \in BOOLEAN :
             LET risk == RiskOf(level) IN
             /\ stored_risk' = risk
             /\ Hold(c, [mine[c] EXCEPT !.missions = Plan, !.risk = risk, !.assessed = level])
             /\ Go(c, IF NeedsApproval(risk, sensitive) THEN "gate" ELSE "prepare")
    /\ UNCHANGED <<status, missions, approvals, requested, history_vars>>

(* What needs an approval waits for it, and the call returns.                *)
AwaitApproval(c) ==
    /\ Move(c, "gate", "planning", "awaiting_approval", "idle")
    /\ sought' = (sought \/ Reaches("planning", "awaiting_approval"))
    /\ UNCHANGED <<merges, warned>>

Prepare(c) ==
    /\ Move(c, "prepare", "planning", "preparing_branch", "branch")
    /\ UNCHANGED history_vars

-----------------------------------------------------------------------------
(* resume(): with an approval at hand the run goes on with what is stored.   *)

Resume(c) ==
    /\ pc[c] = "idle" /\ status = "awaiting_approval"
    /\ "approved" \in approvals
    /\ Hold(c, [Nothing EXCEPT !.missions = missions, !.risk = stored_risk,
                               !.assessed = stored_risk, !.resumed = TRUE])
    /\ Go(c, "resume_branch")
    /\ UNCHANGED <<store_vars, history_vars>>

(* _prepare_branch(): Git is asked for a clean tree, the base and a branch.  *)
PrepareBranch(c) ==
    /\ \/ pc[c] = "branch" /\ Go(c, "generate") /\ UNCHANGED mine
       \/ pc[c] = "resume_branch" /\ Go(c, "resume_generate") /\ UNCHANGED mine
       \/ pc[c] \in {"branch", "resume_branch"} /\ Leave(c)
    /\ UNCHANGED <<store_vars, history_vars>>

(* The move to generating_missions, and _record_missions().                  *)
Generate(c) ==
    LET from == IF pc[c] = "generate" THEN "preparing_branch" ELSE "awaiting_approval" IN
    /\ pc[c] \in {"generate", "resume_generate"}
    /\ status' = IF Reaches(from, "generating_missions") THEN "generating_missions" ELSE status
    /\ IF Reaches(from, "generating_missions")
       THEN /\ missions' = mine[c].missions
            /\ Hold(c, [mine[c] EXCEPT !.todo = mine[c].missions])
            /\ Go(c, "generated")
       ELSE UNCHANGED missions /\ Leave(c)
    /\ UNCHANGED <<stored_risk, approvals, requested, history_vars>>

-----------------------------------------------------------------------------
(* _execute_missions(): one after the other, with bounded retries.  A        *)
(* mission that is blocked or fails does not stop the run.                   *)

StartExecution(c) ==
    /\ Move(c, "generated", "generating_missions", "executing", "execute")
    /\ UNCHANGED history_vars

NextMission(h) == [h EXCEPT !.todo = Tail(@), !.attempt = 0]
Completes(h) == [NextMission(h) EXCEPT !.done = @ \cup {Head(h.todo)}]
LeavesOut(h) == [NextMission(h) EXCEPT !.unfinished = @ \cup {Head(h.todo)}]
MayRetry(h) == h.attempt < MaxAttempts /\ h.retries < MaxRetries

ExecuteMission(c) ==
    LET h == mine[c] IN
    /\ pc[c] = "execute" /\ h.todo # <<>>
    /\ \/ h.attempt = 0 /\ Leave(c)                              (* timeout    *)
       \/ Hold(c, LeavesOut(h)) /\ UNCHANGED pc      (* blocked, or it failed  *)
       \/ /\ DependsOn[Head(h.todo)] \subseteq h.done
          /\ \/ Hold(c, Completes(h))
             \/ /\ MayRetry(h)
                /\ Hold(c, [h EXCEPT !.attempt = @ + 1, !.retries = @ + 1])
          /\ UNCHANGED pc
    /\ UNCHANGED <<store_vars, history_vars>>

EndExecution(c) ==
    /\ mine[c].todo = <<>>
    /\ Move(c, "execute", "executing", "validating_results", "validate")
    /\ UNCHANGED history_vars

-----------------------------------------------------------------------------
(* The whole repository is tested, then the merge policy asked.              *)

FinalValidation(c, passes) ==
    /\ pc[c] = "validate"
    /\ Hold(c, [mine[c] EXCEPT !.passed = passes])
    /\ Go(c, IF passes THEN "ready" ELSE "refuse")
    /\ UNCHANGED <<store_vars, history_vars>>

FailValidation(c) ==
    /\ Move(c, "refuse", "validating_results", "failed", "idle")
    /\ Warn(IF Reaches("validating_results", "failed") THEN BeforeMerge ELSE {})

(* A plausible bug: the policy does not ask for rejections.                  *)
ReadyUnasked(c) == mine[c].risk \in AutoMerge
(* _determine_merge_readiness()                                              *)
MergeReady(c) == mine[c].risk \in AutoMerge /\ "rejected" \notin approvals

DecideMerge(c) ==
    /\ pc[c] = "ready"
    /\ Goes(c, IF MergeReady(c) THEN "enter_merge" ELSE "hold")
    /\ UNCHANGED <<store_vars, history_vars>>

EnterMerge(c) ==
    /\ Move(c, "enter_merge", "validating_results", "merging", "merge")
    /\ UNCHANGED history_vars

(* _attempt_merge()                                                          *)
AttemptMerge(c, merged) ==
    LET h == mine[c] IN
    /\ pc[c] = "merge"
    /\ merged => h.risk \notin {"high", "critical"}
    /\ Goes(c, IF merged THEN "merged" ELSE "unmerged")
    /\ merges' = IF ~merged THEN merges ELSE merges \cup
          {[risk |-> h.risk, assessed |-> h.assessed, passed |-> h.passed,
            resumed |-> h.resumed, complete |-> h.missions = Plan,
            warned |-> c \in warned,
            cleared |-> sought => "approved" \in approvals]}
    /\ UNCHANGED <<store_vars, sought, warned>>

Deploys(c) == AutoDeploy /\ mine[c].risk \in {"low", "medium"}

(* A resumed run that is ready to be merged is not marked for deployment.    *)
Finish(c) ==
    /\ \/ Move(c, "merged", "merging",
               IF Deploys(c) THEN "ready_for_deployment" ELSE "completed", "idle")
       \/ Move(c, "unmerged", "merging", "ready_for_merge", "idle")
       \/ Move(c, "hold", "validating_results", "ready_for_merge",
               IF Deploys(c) /\ ~mine[c].resumed THEN "held" ELSE "idle")
       \/ Move(c, "held", "ready_for_merge", "ready_for_deployment", "idle")
    /\ UNCHANGED history_vars

-----------------------------------------------------------------------------
(* The operations of a reviewer, at any time.                                *)

Approve(decision) ==
    /\ status # "none"
    /\ decision \notin approvals
    /\ approvals' = approvals \cup {decision}
    /\ Warn(IF decision = "rejected" THEN BeforeReadiness ELSE {})
    /\ UNCHANGED <<status, missions, stored_risk, requested, pc, mine>>

(* reject() records the rejection, then blocks the run whatever it has       *)
(* come to.                                                                  *)
Reject(c) ==
    /\ pc[c] = "idle" /\ status # "none"
    /\ approvals' = approvals \cup {"rejected"}
    /\ Goes(c, "block")
    /\ Warn(BeforeReadiness)
    /\ UNCHANGED <<status, missions, stored_risk, requested>>

Block(c) ==
    /\ pc[c] = "block"
    /\ status' = "blocked" /\ Leave(c)
    /\ Warn(BeforeMerge)
    /\ UNCHANGED <<missions, stored_risk, approvals, requested>>

Cancel ==
    /\ status \notin {"none", "completed", "cancelled", "failed"}
    /\ status' = "cancelled"
    /\ Warn(BeforeMerge)
    /\ UNCHANGED <<missions, stored_risk, approvals, requested, pc, mine>>

Step(c) ==
    \/ Run(c) \/ Begin(c) \/ CheckRequest(c) \/ MakePlan(c) \/ AwaitApproval(c) \/ Prepare(c)
    \/ Resume(c) \/ PrepareBranch(c) \/ Generate(c)
    \/ StartExecution(c) \/ ExecuteMission(c) \/ EndExecution(c)
    \/ (\E b \in BOOLEAN : FinalValidation(c, b) \/ AttemptMerge(c, b))
    \/ FailValidation(c) \/ DecideMerge(c) \/ EnterMerge(c) \/ Finish(c)
    \/ Reject(c) \/ Block(c)

Next ==
    \/ \E c \in Callers : Step(c)
    \/ Submit \/ Cancel
    \/ \E decision \in {"approved", "rejected"} : Approve(decision)

Spec == Init /\ [][Next]_vars

-----------------------------------------------------------------------------
(* Only what was validated, is of a level that merges by itself, and was     *)
(* approved where an approval was asked for, is merged; never by a call that *)
(* could still heed a rejection, a cancellation or a failure of the run when *)
(* it came.  Unless it is resumed, a run that merges went through its plan:  *)
(* a resumed one has lost it (line 637), and executes nothing at all.        *)
MergedWasCleared ==
    \A m \in merges :
        /\ m.passed /\ m.risk \in AutoMerge
        /\ m.cleared /\ ~m.warned
        /\ m.complete \/ m.resumed

(* agent/missions/autonomous_development_supervisor_core.md:268: auto-merge  *)
(* is forbidden for high and critical risk; line 983 of the code says that a *)
(* request can raise what is calculated and never reduce it.                 *)
NoHighRiskMerge == \A m \in merges : m.assessed \notin {"high", "critical"}
-----------------------------------------------------------------------------
(* The inductive invariant of MergedWasCleared.                              *)

Planned == DOMAIN DependsOn
Early == {"none", "created", "validating", "planning", "awaiting_approval"}
Statuses ==
    Early \cup Settled \cup
    {"preparing_branch", "generating_missions", "executing", "validating_results", "merging",
     "ready_for_merge", "ready_for_deployment"}
Resuming == {"resume_branch", "resume_generate"}
PastPlanning ==
    {"branch", "generate", "generated", "execute", "validate", "refuse", "ready",
     "enter_merge", "merge", "merged", "unmerged", "hold", "held"}
Places ==
    {"idle", "created", "validating", "validated", "planning", "gate", "prepare", "block"}
    \cup Resuming \cup PastPlanning
Held ==
    [missions : Seq(Planned), todo : Seq(Planned), done : SUBSET Planned,
     unfinished : SUBSET Planned, attempt : Nat, retries : Nat, risk : Levels,
     assessed : Levels, resumed : BOOLEAN, passed : BOOLEAN]

SupervisorTypeOK ==
    /\ status \in Statuses /\ missions \in Seq(Planned) /\ stored_risk \in Levels
    /\ requested \in Levels \cup {Unasked}
    /\ pc \in [Callers -> Places] /\ mine \in [Callers -> Held]

Unapproved == sought /\ "approved" \notin approvals

(* What a thread may count on at the place it has come to.                   *)
Founded(c) ==
    /\ pc[c] \in PastPlanning => status \notin Early /\ ~Unapproved
    /\ pc[c] \in Resuming => "approved" \in approvals /\ mine[c].resumed
    /\ pc[c] \in PastPlanning \cup {"gate", "prepare"} => mine[c].missions = Plan \/ mine[c].resumed
    /\ pc[c] \in {"ready", "enter_merge", "merge"} => mine[c].passed
    /\ pc[c] \in {"enter_merge", "merge"} => mine[c].risk \in AutoMerge
    /\ c \in warned => pc[c] # "merge" /\ (pc[c] = "enter_merge" => status \in Settled)

Cleared ==
    /\ SupervisorTypeOK
    /\ \A c \in Callers : Founded(c)
    /\ Unapproved => status \in {"awaiting_approval"} \cup Settled
    /\ warned # {} => "rejected" \in approvals \/ status \in Settled
    /\ MergedWasCleared
=============================================================================
