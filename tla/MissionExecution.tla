-------------------------- MODULE MissionExecution --------------------------
(***************************************************************************)
(* One execution of a mission, from its claim to the queue call that       *)
(* settles it: the router with its failover between providers              *)
(* (agent/execution/runtime_router.py), the disposable worktree            *)
(* (workspace_manager.py), the branch it publishes                         *)
(* (runtime_branch_publisher.py), the review and automatic merge           *)
(* (runtime/production_mission_controller.py), and the failure evidence    *)
(* (runtime/managed_workspace_mission_controller.py), over the queue of    *)
(* MissionQueue and next to a reviewer who approves what was referred to   *)
(* him on the evidence of that file.                                       *)
(*                                                                         *)
(* What a provider does in its worktree is a choice among the outcomes its *)
(* adapter may return.  Checkpoints and the worker's own places are in     *)
(* BackgroundWorker, the steps of an approval in ManualReviewApproval:     *)
(* both are coarser here.  A revision is a sequence of commits; the n-th   *)
(* branch of mission m adds the commit <<m, n>> to its base.               *)
(***************************************************************************)
EXTENDS Integers, Sequences, FiniteSets

CONSTANTS
    Missions,
    ReadOnly,         (* missions whose task type expects no changes           *)
    Protected,        (* missions whose objective needs an authorization       *)
    Executors,        (* worker processes                                      *)
    Fallbacks,        (* missions a second runtime has the capabilities for    *)
    Outcomes,         (* what an adapter may return                            *)
    RetryLimit,       (* max_retries of every mission                          *)
    Upstream,         (* the author of commits pushed by somebody else         *)
    FaultKinds,       (* what may go wrong, each at most once                  *)
    MaxTrouble        (* bound: faults, commits of others and interventions of *)
                      (* an operator in one behaviour                          *)

(* What the adapters return, as far as the router and the controllers tell   *)
(* it apart: success with or without changes in scope, and why it failed.    *)
ManagedOpenHandsOutcomes ==
    {"changes", "no_changes", "unavailable", "quota", "incompatible", "timeout",
     "denied", "boundary", "exception"}

OpenClawOutcomes ==
    {"changes", "no_changes", "unavailable", "timeout", "boundary", "exception"}

AdapterOutcomes == ManagedOpenHandsOutcomes \cup OpenClawOutcomes

AllFaults ==
    {"crash", "branch", "commit", "push_branch", "cleanup", "dirt", "push_main",
     "reset", "deploy", "persist", "push_approval"}

ASSUME ExecutionAssumption ==
    /\ ReadOnly \subseteq Missions
    /\ Protected \subseteq Missions
    /\ Outcomes \subseteq AdapterOutcomes
    /\ RetryLimit \in Int
    /\ Upstream \notin Missions
    /\ FaultKinds \subseteq AllFaults
    /\ Fallbacks \subseteq Missions
    /\ MaxTrouble \in Nat

Priorities == {0}
RetryLimits == {RetryLimit}
MaxSeq == Cardinality(Missions)

VARIABLES
    missions, next_seq,
    main, origin,     (* HEAD of the canonical checkout, main of the remote    *)
    dirty,            (* whether the canonical checkout is dirty               *)
    branches,         (* the branches of each mission, oldest first            *)
    worktrees,        (* how many disposable worktrees of each mission exist   *)
    evidence,         (* reason in failure-evidence/<id>.json                  *)
    pc, job,          (* of each executor                                      *)
    approval,         (* the approval in progress                              *)
    executions,       (* history: executions of each mission                   *)
    broken,           (* history: publications that left a branch and failed   *)
    asked,            (* history: commits a review referred to a human         *)
    vetted,           (* history: commits a review or a human accepted         *)
    undone,           (* history: unpublished commits reset away by others     *)
    faults, upstream, interventions

Q == INSTANCE MissionQueue

queue_vars == <<missions, next_seq>>
git_vars == <<main, origin, dirty, branches>>
store_vars == <<worktrees, evidence>>
history_vars == <<executions, broken, asked, vetted, undone>>
bound_vars == <<faults, upstream, interventions>>
vars == <<queue_vars, git_vars, store_vars, pc, job, approval, history_vars, bound_vars>>

-----------------------------------------------------------------------------
(* Helper state functions.                                                   *)

Commits(revision) == {revision[i] : i \in DOMAIN revision}

IsPrefix(r, s) == Len(r) <= Len(s) /\ SubSeq(s, 1, Len(r)) = r

NoJob == [mission |-> "none", tried |-> 0, base |-> <<>>, branch |-> 0,
          risk |-> "low", result |-> "none", head |-> <<>>]

NoApproval == [mission |-> "none", before |-> <<>>, after |-> <<>>]

Go(e, place) == pc' = [pc EXCEPT ![e] = place]

Set(e, field, value) == job' = [job EXCEPT ![e][field] = value]

Calm == Cardinality(faults) + upstream + interventions < MaxTrouble

(* Something goes wrong, once of its kind.                                   *)
Fault(kind) ==
    /\ kind \in FaultKinds \ faults
    /\ Calm
    /\ faults' = faults \cup {kind}

Candidates(m) == IF m \in Fallbacks THEN 2 ELSE 1

(* Providers that failed for their own reasons: _can_failover.               *)
CanFailover(result) ==
    result \in {"unavailable", "quota", "incompatible", "exception"}

(* The status the managed controller reports for a result: its own           *)
(* classification after that of the workspace controller.                    *)
StatusOf(result) ==
    CASE result \in {"merged", "read_only"} -> "success"
      [] result \in {"unavailable", "exception", "timeout", "no_workspace",
                     "leftover"} -> "retry"
      [] result \in {"incompatible", "denied"} -> "exhausted"
      [] OTHER -> "blocked"

(* The revision a branch points to: its base until something is committed.   *)
Tip(m, n) ==
    IF branches[m][n].committed
    THEN Append(branches[m][n].base, <<m, n>>)
    ELSE branches[m][n].base

Tips(m) == {Tip(m, n) : n \in DOMAIN branches[m]}

(* _mission_branch: the branch with the latest commit.                       *)
Newest(m) ==
    LET own == {n \in DOMAIN branches[m] : branches[m][n].committed}
    IN  CHOOSE n \in own : \A k \in own : k <= n

(* What somebody else's reset of main takes away for good.                   *)
Lost(from, to, published) == Commits(from) \ (Commits(to) \cup Commits(published))
-----------------------------------------------------------------------------
(* Routing: RuntimeRouter.execute.                                           *)

Finish(e, result) ==
    /\ Set(e, "result", result)
    /\ Go(e, "persisting")

(* The worker claims a mission and calls the controller, which reads its     *)
(* definition and refuses a protected operation.                             *)
Claim(e) ==
    /\ pc[e] = "idle"
    /\ \E m \in Missions :
          /\ Q!Claim(m)
          /\ job' = [job EXCEPT ![e] = [NoJob EXCEPT
                        !.mission = m,
                        !.result = IF m \in Protected THEN "refused" ELSE "none"]]
          /\ Go(e, IF m \in Protected THEN "persisting" ELSE "starting")
          /\ executions' = [executions EXCEPT ![m] = @ + 1]
    /\ UNCHANGED <<git_vars, store_vars, approval, broken, asked, vetted, undone, bound_vars>>

(* Nothing is executed from a dirty canonical checkout.                      *)
CheckClean(e) ==
    /\ pc[e] = "starting"
    /\ IF dirty THEN Finish(e, "dirty") ELSE Go(e, "routing") /\ UNCHANGED job
    /\ UNCHANGED <<queue_vars, git_vars, store_vars, approval, history_vars, bound_vars>>

(* A candidate whose health check fails or raises is skipped.                *)
Skip(e) ==
    /\ pc[e] = "routing"
    /\ job[e].tried < Candidates(job[e].mission)
    /\ Set(e, "tried", job[e].tried + 1)
    /\ UNCHANGED <<queue_vars, git_vars, store_vars, pc, approval, history_vars, bound_vars>>

(* A healthy candidate gets a worktree of its own, detached at main.         *)
CreateWorkspace(e) ==
    /\ pc[e] = "routing"
    /\ job[e].tried < Candidates(job[e].mission)
    /\ job' = [job EXCEPT ![e].tried = @ + 1, ![e].base = main, ![e].branch = 0]
    /\ worktrees' = [worktrees EXCEPT ![job[e].mission] = @ + 1]
    /\ Go(e, "running")
    /\ UNCHANGED <<queue_vars, git_vars, evidence, approval, history_vars, bound_vars>>

WorkspaceFails(e) ==
    /\ pc[e] = "routing"
    /\ job[e].tried < Candidates(job[e].mission)
    /\ Finish(e, "no_workspace")
    /\ UNCHANGED <<queue_vars, git_vars, store_vars, approval, history_vars, bound_vars>>

(* Mutant of GiveUp: the candidates are tried again from the first.          *)
GiveUpNever(e) ==
    /\ pc[e] = "routing"
    /\ job[e].tried = Candidates(job[e].mission)
    /\ Set(e, "tried", 0)
    /\ UNCHANGED <<queue_vars, git_vars, store_vars, pc, approval, history_vars, bound_vars>>

(* All candidates were tried: the last result stands, if there is one.       *)
GiveUp(e) ==
    /\ pc[e] = "routing"
    /\ job[e].tried = Candidates(job[e].mission)
    /\ Finish(e, IF job[e].result = "none" THEN "unavailable" ELSE job[e].result)
    /\ UNCHANGED <<queue_vars, git_vars, store_vars, approval, history_vars, bound_vars>>

(* The adapter returns.                                                      *)
AdapterReturns(e) ==
    /\ pc[e] = "running"
    /\ \E outcome \in Outcomes, risk \in {"low", "high"} :
          /\ outcome # "changes" => risk = "low"
          /\ job' = [job EXCEPT ![e].result = outcome, ![e].risk = risk]
          /\ Go(e, IF outcome = "changes" THEN "publishing" ELSE "cleaning")
    /\ UNCHANGED <<queue_vars, git_vars, store_vars, approval, history_vars, bound_vars>>

-----------------------------------------------------------------------------
(* Publication: RuntimeBranchPublisher.publish.                              *)

Unpublished(e) ==
    /\ Set(e, "result", "exception")
    /\ Go(e, "cleaning")

CreateBranch(e) ==
    LET m == job[e].mission
    IN  /\ pc[e] = "publishing"
        /\ branches' = [branches EXCEPT ![m] = Append(@,
                           [base |-> job[e].base, committed |-> FALSE, risk |-> job[e].risk])]
        /\ Set(e, "branch", Len(branches[m]) + 1)
        /\ Go(e, "committing")
        /\ UNCHANGED <<queue_vars, main, origin, dirty, store_vars, approval,
                       history_vars, bound_vars>>

(* git switch -c fails: the name, unique to the second, is taken.            *)
CreateBranchFails(e) ==
    /\ pc[e] = "publishing"
    /\ Fault("branch")
    /\ Unpublished(e)
    /\ UNCHANGED <<queue_vars, git_vars, store_vars, approval, history_vars,
                   upstream, interventions>>

Commit(e) ==
    /\ pc[e] = "committing"
    /\ branches' = [branches EXCEPT ![job[e].mission][job[e].branch].committed = TRUE]
    /\ Go(e, "sending")
    /\ UNCHANGED <<queue_vars, main, origin, dirty, store_vars, job, approval,
                   history_vars, bound_vars>>

BranchBreaks(e) ==
    /\ Unpublished(e)
    /\ broken' = [broken EXCEPT ![job[e].mission] = @ + 1]

(* What is staged is not what seemed to have changed (main has moved), or    *)
(* the commit fails.  The branch stays.                                      *)
CommitFails(e) ==
    /\ pc[e] = "committing"
    /\ \/ main # job[e].base /\ UNCHANGED faults
       \/ Fault("commit")
    /\ BranchBreaks(e)
    /\ UNCHANGED <<queue_vars, git_vars, store_vars, approval, executions, asked, vetted,
                   undone, upstream, interventions>>

SendBranch(e) ==
    /\ pc[e] = "sending"
    /\ Go(e, "cleaning")
    /\ UNCHANGED <<queue_vars, git_vars, store_vars, job, approval, history_vars, bound_vars>>

(* Whether the remote took it or not, the local branch with its commit stays. *)
SendBranchFails(e) ==
    /\ pc[e] = "sending"
    /\ Fault("push_branch")
    /\ BranchBreaks(e)
    /\ UNCHANGED <<queue_vars, git_vars, store_vars, approval, executions, asked, vetted,
                   undone, upstream, interventions>>

-----------------------------------------------------------------------------
(* The end of one attempt: _execute_one, then back in execute.               *)

RemoveWorkspace(e) ==
    /\ pc[e] = "cleaning"
    /\ worktrees' = [worktrees EXCEPT ![job[e].mission] = @ - 1]
    /\ Go(e, "judging")
    /\ UNCHANGED <<queue_vars, git_vars, evidence, job, approval, history_vars, bound_vars>>

(* A worktree that cannot be removed turns success into a failure to retry.  *)
RemoveFails(e) ==
    /\ pc[e] = "cleaning"
    /\ Fault("cleanup")
    /\ Set(e, "result", IF job[e].result \in {"changes", "no_changes"}
                        THEN "leftover" ELSE job[e].result)
    /\ Go(e, "judging")
    /\ UNCHANGED <<queue_vars, git_vars, store_vars, approval, history_vars,
                   upstream, interventions>>

(* The canonical checkout must still be clean; a success goes on to review,  *)
(* a provider's own failure to the next candidate.                           *)
Judge(e) ==
    /\ pc[e] = "judging"
    /\ \/ dirty /\ Finish(e, "dirty")
       \/ ~dirty /\ job[e].result = "changes" /\ Go(e, "reviewing") /\ UNCHANGED job
       \/ ~dirty /\ job[e].result = "no_changes"
          /\ Finish(e, IF job[e].mission \in ReadOnly THEN "read_only" ELSE "no_changes")
       \/ ~dirty /\ CanFailover(job[e].result) /\ Go(e, "routing") /\ UNCHANGED job
       \/ ~dirty /\ ~CanFailover(job[e].result)
          /\ job[e].result \notin {"changes", "no_changes"}
          /\ Finish(e, job[e].result)
    /\ UNCHANGED <<queue_vars, git_vars, store_vars, approval, history_vars, bound_vars>>

-----------------------------------------------------------------------------
(* Review and automatic merge: _review_and_merge.                            *)

(* The branch with the newest commit is compared with main: if main has not  *)
(* moved the verdict is the change's own, else it may be any.  What is not   *)
(* harmless is referred to a human.                                          *)
Review(e) ==
    LET m == job[e].mission
        n == Newest(m)
    IN  /\ pc[e] = "reviewing"
        /\ \E verdict \in {"low", "high"} :
              /\ main = branches[m][n].base => verdict = branches[m][n].risk
              /\ IF verdict = "low"
                 THEN /\ job' = [job EXCEPT ![e].branch = n]
                      /\ Go(e, "accepted")
                      /\ vetted' = vetted \cup {<<m, n>>}
                      /\ UNCHANGED asked
                 ELSE /\ job' = [job EXCEPT ![e].branch = n,
                                            ![e].result = "manual_review_required"]
                      /\ Go(e, "persisting")
                      /\ asked' = asked \cup {<<m, n>>}
                      /\ UNCHANGED vetted
        /\ UNCHANGED <<queue_vars, git_vars, store_vars, approval, executions, broken,
                       undone, bound_vars>>

ReadHead(e) ==
    /\ pc[e] = "accepted"
    /\ Set(e, "head", main)
    /\ Go(e, "merging")
    /\ UNCHANGED <<queue_vars, git_vars, store_vars, approval, history_vars, bound_vars>>

(* git merge --ff-only: also succeeds when main already contains the tip.    *)
FastForward(e) ==
    LET tip == Tip(job[e].mission, job[e].branch)
    IN  /\ pc[e] = "merging"
        /\ \/ /\ IsPrefix(main, tip) \/ IsPrefix(tip, main)
              /\ main' = IF IsPrefix(main, tip) THEN tip ELSE main
              /\ Go(e, "pushing")
              /\ UNCHANGED job
           \/ /\ dirty \/ ~(IsPrefix(main, tip) \/ IsPrefix(tip, main))
              /\ Finish(e, "fast_forward_merge_failed")
              /\ UNCHANGED main
        /\ UNCHANGED <<queue_vars, origin, dirty, branches, store_vars, approval,
                       history_vars, bound_vars>>

(* git push origin main publishes whatever main is by now.                   *)
PushMain(e) ==
    /\ pc[e] = "pushing"
    /\ IF IsPrefix(origin, main)
       THEN origin' = main /\ Go(e, "deploying")
       ELSE Go(e, "undoing") /\ UNCHANGED origin
    /\ UNCHANGED <<queue_vars, main, dirty, branches, store_vars, job, approval,
                   history_vars, bound_vars>>

PushMainFails(e) ==
    /\ pc[e] = "pushing"
    /\ Fault("push_main")
    /\ origin' \in {origin} \cup {r \in {main} : IsPrefix(origin, r)}
    /\ Go(e, "undoing")
    /\ UNCHANGED <<queue_vars, main, dirty, branches, store_vars, job, approval,
                   history_vars, upstream, interventions>>

(* Mutant of Undo: nothing is taken back.                                    *)
UndoNothing(e) ==
    /\ pc[e] = "undoing"
    /\ Finish(e, "main_push_failed")
    /\ UNCHANGED <<queue_vars, git_vars, store_vars, approval, history_vars, bound_vars>>

(* git reset --hard to the revision read before the merge.                   *)
Undo(e) ==
    /\ pc[e] = "undoing"
    /\ main' = job[e].head
    /\ dirty' = FALSE
    /\ undone' = undone \cup (Lost(main, job[e].head, origin)
                              \ {<<job[e].mission, job[e].branch>>})
    /\ Finish(e, "main_push_failed")
    /\ UNCHANGED <<queue_vars, origin, branches, store_vars, approval,
                   executions, broken, asked, vetted, bound_vars>>

UndoFails(e) ==
    /\ pc[e] = "undoing"
    /\ Fault("reset")
    /\ Finish(e, "main_push_failed")
    /\ UNCHANGED <<queue_vars, git_vars, store_vars, approval, history_vars,
                   upstream, interventions>>

(* _deploy_review_result: a project deployment that fails blocks the mission *)
(* although its changes are published.                                       *)
Deploy(e) ==
    /\ pc[e] = "deploying"
    /\ \/ Finish(e, "merged") /\ UNCHANGED faults
       \/ Fault("deploy") /\ Finish(e, "project_deployment_failed")
    /\ UNCHANGED <<queue_vars, git_vars, store_vars, approval, history_vars,
                   upstream, interventions>>

-----------------------------------------------------------------------------
(* Failure evidence and the queue call.                                      *)

(* Whatever is no success leaves its reason; a write that fails is noted in  *)
(* the result and otherwise ignored.                                         *)
Persist(e) ==
    /\ pc[e] = "persisting"
    /\ IF StatusOf(job[e].result) = "success"
       THEN UNCHANGED <<evidence, faults>>
       ELSE \/ /\ evidence' = [evidence EXCEPT ![job[e].mission] = job[e].result]
               /\ UNCHANGED faults
            \/ /\ Fault("persist")
               /\ UNCHANGED evidence
    /\ Go(e, "settling")
    /\ UNCHANGED <<queue_vars, git_vars, worktrees, job, approval, history_vars,
                   upstream, interventions>>

Settle(e) ==
    /\ pc[e] = "settling"
    /\ LET m == job[e].mission
           status == StatusOf(job[e].result)
       IN  \/ /\ \/ status = "success" /\ Q!Complete(m)
                 \/ status \in {"retry", "exhausted"} /\ Q!Fail(m)
                 \/ status = "blocked" /\ Q!Block(m)
              /\ Go(e, "idle")
           \/ /\ ~Q!InState(m, IF status = "blocked" THEN {"pending", "retrying", "running"}
                                                      ELSE {"running"})
              /\ Go(e, "down")
              /\ UNCHANGED queue_vars
    /\ job' = [job EXCEPT ![e] = NoJob]
    /\ UNCHANGED <<git_vars, store_vars, approval, history_vars, bound_vars>>

(* The process dies.                                                         *)
Crash(e) ==
    /\ pc[e] \notin {"idle", "down"}
    /\ Fault("crash")
    /\ Go(e, "down")
    /\ job' = [job EXCEPT ![e] = NoJob]
    /\ UNCHANGED <<queue_vars, git_vars, store_vars, approval, history_vars,
                   upstream, interventions>>

(* The service manager starts the worker again, which recovers.              *)
Restart(e) ==
    /\ pc[e] = "down"
    /\ Go(e, "idle")
    /\ IF \E m \in DOMAIN missions : Q!Running(m) THEN Q!RecoverStale ELSE UNCHANGED queue_vars
    /\ UNCHANGED <<git_vars, store_vars, job, approval, history_vars, bound_vars>>

-----------------------------------------------------------------------------
(* The reviewer, the panel, and the rest of the world.                       *)

(* Mutant of Approvable: why the mission is blocked is not looked at.        *)
ApprovableBlocked(m) ==
    /\ Q!InState(m, {"blocked"})
    /\ Cardinality(Tips(m)) = 1
    /\ ~dirty
    /\ main = origin

(* approve() asks for a blocked mission whose evidence says manual review,   *)
(* branches that all point to one revision, and a checkout in step.          *)
Approvable(m) ==
    /\ Q!InState(m, {"blocked"})
    /\ evidence[m] = "manual_review_required"
    /\ Cardinality(Tips(m)) = 1
    /\ ~dirty
    /\ main = origin

(* The merge: fast-forward where possible, else a merge commit.              *)
Approve(m) ==
    LET n == Newest(m)
    IN  /\ approval = NoApproval
        /\ Approvable(m)
        /\ vetted' = vetted \cup {<<m, n>>}
        /\ IF <<m, n>> \in Commits(main)
           THEN /\ Q!ApproveManualReview(m)
                /\ UNCHANGED <<main, approval>>
           ELSE /\ main' = IF IsPrefix(main, Tip(m, n)) THEN Tip(m, n)
                                                        ELSE Append(main, <<m, n>>)
                /\ approval' = [mission |-> m, before |-> main, after |-> main']
                /\ UNCHANGED queue_vars
        /\ UNCHANGED <<origin, dirty, branches, store_vars, pc, job,
                       executions, broken, asked, undone, bound_vars>>

(* Push and verify, then settle the mission or take the merge back.          *)
TakeBack ==
    /\ main' = approval.before
    /\ undone' = undone \cup (Lost(main, approval.before, origin')
                              \ Commits(approval.after))
    /\ UNCHANGED queue_vars

PublishApproval ==
    /\ approval # NoApproval
    /\ origin' = IF IsPrefix(origin, main) THEN main ELSE origin
    /\ IF IsPrefix(origin, main) /\ main = approval.after
       THEN /\ IF Q!InState(approval.mission, {"blocked"})
               THEN Q!ApproveManualReview(approval.mission)
               ELSE UNCHANGED queue_vars
            /\ UNCHANGED <<main, undone>>
       ELSE TakeBack
    /\ approval' = NoApproval
    /\ UNCHANGED <<dirty, branches, store_vars, pc, job,
                   executions, broken, asked, vetted, bound_vars>>

ApprovalPushFails ==
    /\ approval # NoApproval
    /\ Fault("push_approval")
    /\ origin' \in {origin} \cup {r \in {main} : IsPrefix(origin, r)}
    /\ TakeBack
    /\ approval' = NoApproval
    /\ UNCHANGED <<dirty, branches, store_vars, pc, job,
                   executions, broken, asked, vetted, upstream, interventions>>

Intervene(m) ==
    /\ Calm
    /\ Q!Cancel(m) \/ Q!Resume(m)
    /\ interventions' = interventions + 1
    /\ UNCHANGED <<git_vars, store_vars, pc, job, approval, history_vars, faults, upstream>>

PushUpstream ==
    /\ Calm
    /\ origin' = Append(origin, <<Upstream, upstream + 1>>)
    /\ upstream' = upstream + 1
    /\ UNCHANGED <<queue_vars, main, dirty, branches, store_vars, pc, job, approval,
                   history_vars, faults, interventions>>

(* deploy_verified_main.sh brings the checkout up to date.                   *)
Pull ==
    /\ ~dirty
    /\ main # origin
    /\ IsPrefix(main, origin)
    /\ main' = origin
    /\ UNCHANGED <<queue_vars, origin, dirty, branches, store_vars, pc, job, approval,
                   history_vars, bound_vars>>

(* Somebody leaves a file in the canonical checkout, and removes it again.   *)
Soil ==
    /\ ~dirty
    /\ Fault("dirt")
    /\ dirty' = TRUE
    /\ UNCHANGED <<queue_vars, main, origin, branches, store_vars, pc, job, approval,
                   history_vars, upstream, interventions>>

Tidy ==
    /\ dirty
    /\ dirty' = FALSE
    /\ UNCHANGED <<queue_vars, main, origin, branches, store_vars, pc, job, approval,
                   history_vars, bound_vars>>

-----------------------------------------------------------------------------
(* Every mission is queued, nothing was executed yet.                        *)
Init ==
    /\ LET rank == CHOOSE f \in [Missions -> 1..Cardinality(Missions)] :
                       \A m, n \in Missions : f[m] = f[n] => m = n
       IN  missions = [m \in Missions |->
                          [priority |-> 0, dependencies |-> {}, state |-> "pending",
                           created_seq |-> rank[m], attempts_done |-> 0,
                           max_retries |-> RetryLimit]]
    /\ next_seq = Cardinality(Missions) + 1
    /\ main = <<>> /\ origin = <<>> /\ dirty = FALSE
    /\ branches = [m \in Missions |-> <<>>]
    /\ worktrees = [m \in Missions |-> 0]
    /\ evidence = [m \in Missions |-> "none"]
    /\ pc = [e \in Executors |-> "idle"]
    /\ job = [e \in Executors |-> NoJob]
    /\ approval = NoApproval
    /\ executions = [m \in Missions |-> 0]
    /\ broken = [m \in Missions |-> 0]
    /\ asked = {} /\ vetted = {} /\ undone = {}
    /\ faults = {} /\ upstream = 0 /\ interventions = 0

Step(e) ==
    \/ Claim(e) \/ CheckClean(e) \/ Skip(e) \/ CreateWorkspace(e) \/ GiveUp(e)
    \/ AdapterReturns(e) \/ CreateBranch(e) \/ Commit(e) \/ SendBranch(e)
    \/ RemoveWorkspace(e) \/ Judge(e) \/ Review(e) \/ ReadHead(e) \/ FastForward(e)
    \/ PushMain(e) \/ Undo(e) \/ Deploy(e) \/ Persist(e) \/ Settle(e) \/ Restart(e)

Failure(e) ==
    \/ WorkspaceFails(e) \/ CreateBranchFails(e) \/ CommitFails(e) \/ SendBranchFails(e)
    \/ RemoveFails(e) \/ PushMainFails(e) \/ UndoFails(e) \/ Crash(e)

Next ==
    \/ \E e \in Executors : Step(e) \/ Failure(e)
    \/ \E m \in Missions : Approve(m) \/ Intervene(m)
    \/ PublishApproval \/ ApprovalPushFails
    \/ PushUpstream \/ Pull \/ Soil \/ Tidy

Spec == Init /\ [][Next]_vars

(* A live worker runs on, since every external execution has a timeout; it   *)
(* is restarted; an approval that started runs to its end.                   *)
FairSpec ==
    /\ Spec
    /\ \A e \in Executors : WF_vars(Step(e))
    /\ WF_vars(PublishApproval)

-----------------------------------------------------------------------------
(* Safety.                                                                   *)

(* Nothing reaches origin's main that neither an automatic review nor a      *)
(* human accepted, whatever is pushed on whose behalf: a push publishes all  *)
(* of main, also another's merge that is not published yet.                  *)
OnlyVettedPublished ==
    \A c \in Commits(origin) : c[1] = Upstream \/ c \in vetted

(* A human only ever approves a commit that a review referred to a human.    *)
(* Evidence may be out of date, and a mission may have branches no review    *)
(* has seen; that approve() refuses several branches keeps them apart.       *)
ApprovedWasAsked ==
    approval # NoApproval =>
        \E c \in asked : c[1] = approval.mission /\ c \in Commits(approval.after)

(* A completed mission has a commit of its own on origin, unless it expects  *)
(* no changes, or somebody else's reset took its merge out of main before    *)
(* its push: then git push finds nothing to do and the mission completes.    *)
CompletedIsMerged ==
    \A m \in Missions \ ReadOnly :
        Q!InState(m, {"completed"}) =>
            \E c \in Commits(origin) \cup undone : c[1] = m

(* No decision is bypassed: only what a review or a human accepted is        *)
(* published, and a human accepts only what was referred to one.             *)
DecisionsHold == OnlyVettedPublished /\ ApprovedWasAsked

InUse(m) == {e \in Executors : job[e].mission = m /\
                pc[e] \in {"running", "publishing", "committing", "sending", "cleaning"}}

(* What executions leave behind is bounded by what went wrong: a mission has *)
(* one branch, and so stays approvable, after a single execution whose       *)
(* publications went well, and at most one more for each further execution   *)
(* or failed publication; no worktree outlives its execution, except by a    *)
(* crash or a removal that failed, and then one at most for each.            *)
LeftoversExplained ==
    \A m \in Missions :
        /\ Len(branches[m]) <= executions[m] + broken[m]
        /\ worktrees[m] <= Cardinality(InUse(m)) + Cardinality(faults \cap {"crash", "cleanup"})

AtRest ==
    /\ \A e \in Executors : pc[e] = "idle"
    /\ approval = NoApproval

(* At rest the checkout holds nothing unpublished, unless a process died, a  *)
(* reset failed, or an automatic and a human merge both failed to be pushed  *)
(* (a commit pushed by others is enough for that): each of the two alone is  *)
(* taken back, also when they overlap.                                       *)
AtRestSynced ==
    /\ AtRest
    /\ faults \cap {"crash", "reset"} = {}
    /\ ~({"push_main", "push_approval"} \subseteq faults)
    /\ upstream = 0
    => IsPrefix(main, origin)

(* The checkout, origin, the branches and the worktrees agree with the queue *)
(* up to what the faults that happened account for.                          *)
NothingLeftOver == CompletedIsMerged /\ LeftoversExplained /\ AtRestSynced

-----------------------------------------------------------------------------
(* Liveness.                                                                 *)

(* Every mission is settled: failover ends since no provider is tried twice, *)
(* retries end with the budget, and a crash is followed by a recovery.       *)
EveryMissionSettles ==
    \A m \in Missions :
        []<>Q!InState(m, {"completed", "failed", "blocked", "cancelled"})
=============================================================================
