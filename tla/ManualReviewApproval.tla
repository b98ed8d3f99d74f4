------------------------ MODULE ManualReviewApproval ------------------------
(***************************************************************************)
(* Human decisions about missions blocked for manual review: approve() and *)
(* reject() of agent/runtime/manual_review_approval.py, reconcile_one() of *)
(* agent/maintenance/reconcile_manual_review_approvals.py, and the pull    *)
(* and rollback of agent/bootstrap/deploy_verified_main.sh on the same     *)
(* canonical checkout.                                                     *)
(*                                                                         *)
(* The API serves every request in a thread of its own and nothing locks   *)
(* the checkout, so calls interleave at every git command, file write and  *)
(* queue operation.  A revision is the sequence of commits integrated      *)
(* since the branches were cut; a mission stands for its branch's commit.  *)
(* Checks that only refuse (ambiguous branch, diff check, forbidden path)  *)
(* and the WordPress deployment, whose failure is only recorded, are left  *)
(* out.                                                                    *)
(***************************************************************************)
EXTENDS Integers, Sequences, FiniteSets

CONSTANTS
    Missions,
    Upstream,         (* a commit pushed to origin by somebody else            *)
    Deciders,         (* request threads and reconciler processes              *)
    Calls,            (* what they may be asked: approve, reject, reconcile    *)
    Conflicting,      (* missions that merge only while main has not moved     *)
    Equivalent,       (* missions whose content main has without their commit  *)
    MaxUpstream,      (* bound: commits pushed by somebody else                *)
    MaxPushFailures,  (* bound: pushes that fail or time out                   *)
    MaxDeaths,        (* bound: calls that end halfway                         *)
    MaxRollbacks,     (* bound: deployments of main that are rolled back       *)
    MaxInterventions  (* bound: cancel and resume calls from the panel         *)

ASSUME ApprovalAssumption ==
    /\ Upstream \notin Missions
    /\ Calls \subseteq {"approve", "reject", "reconcile"}
    /\ Conflicting \subseteq Missions
    /\ Equivalent \subseteq Missions

Priorities == {0}
RetryLimits == {0}
MaxSeq == Cardinality(Missions)

VARIABLES
    missions, next_seq,
    main,           (* HEAD of the canonical checkout                          *)
    unmerged,       (* whether a conflicting merge sits in the checkout        *)
    origin,         (* main of the remote                                      *)
    pc, job,        (* of each decider                                         *)
    record,         (* approvals/<id>.json                                     *)
    history,        (* the lines of decision-history.jsonl                     *)
    deploying,      (* BEFORE of a running deployment of main, or <<NoRun>>    *)
    crossed,        (* history: whether a call began while another was running *)
    upstream, push_failures, deaths, rollbacks, interventions

Q == INSTANCE MissionQueue

queue_vars == <<missions, next_seq>>
git_vars == <<main, unmerged, origin>>
call_vars == <<pc, job>>
audit_vars == <<record, history>>
bound_vars == <<upstream, push_failures, deaths, rollbacks, interventions>>
vars == <<queue_vars, git_vars, call_vars, audit_vars, deploying, crossed, bound_vars>>

NoRun == "none"
NoJob == [call |-> "none", mission |-> "none", before |-> <<>>, after |-> <<>>]
NoRecord == [decision |-> "none", main_after |-> <<>>]

Decisions == {"approved", "rejected", "reconciled"}
Commits(revision) == {revision[i] : i \in DOMAIN revision}

IsPrefix(r, s) == Len(r) <= Len(s) /\ SubSeq(s, 1, Len(r)) = r

Go(d, place) == pc' = [pc EXCEPT ![d] = place]

(* The call ends, by return or by exception.                                 *)
End(d) ==
    /\ Go(d, "idle")
    /\ job' = [job EXCEPT ![d] = NoJob]

AtRest == \A d \in Deciders : pc[d] = "idle"

-----------------------------------------------------------------------------
(* Shared by the three calls.                                                *)

(* _validate_manual_review and the early returns: approve and reject go on   *)
(* only from blocked, reconcile_one from cancelled as well.                  *)
Admits(call, m) ==
    Q!InState(m, IF call = "reconcile" THEN {"blocked", "cancelled"} ELSE {"blocked"})

Validate(d) ==
    /\ pc[d] = "idle"
    /\ \E call \in Calls, m \in Missions :
          /\ Admits(call, m)
          /\ job' = [job EXCEPT ![d] = [NoJob EXCEPT !.call = call, !.mission = m]]
    /\ Go(d, "validated")
    /\ crossed' = (crossed \/ ~AtRest)
    /\ UNCHANGED <<queue_vars, git_vars, audit_vars, deploying, bound_vars>>

(* Mutant of Fit: main may be ahead of origin.                               *)
FitUnsynced(call) == ~unmerged

(* The checkout must be clean and, unless the mission is rejected, in step   *)
(* with origin, fetched just before.                                         *)
Fit(call) == ~unmerged /\ (call = "reject" \/ main = origin)

Inspect(d) ==
    /\ pc[d] = "validated"
    /\ IF Fit(job[d].call)
       THEN /\ job' = [job EXCEPT ![d].before = main, ![d].after = main]
            /\ Go(d, IF job[d].call = "reject" THEN "decided" ELSE "inspected")
       ELSE End(d)
    /\ UNCHANGED <<queue_vars, git_vars, audit_vars, deploying, crossed, bound_vars>>

(* Mutant of Survey: approve refuses a commit that is merged already.        *)
SurveyRefusesMerged(d) ==
    /\ pc[d] = "inspected"
    /\ IF job[d].mission \in Commits(main)
       THEN End(d)
       ELSE Go(d, "merge") /\ UNCHANGED job
    /\ UNCHANGED <<queue_vars, git_vars, audit_vars, deploying, crossed, bound_vars>>

(* Is the commit an ancestor of main already?  approve then skips the merge, *)
(* reconcile_one accepts (equal content is as good) or gives up.             *)
Survey(d) ==
    /\ pc[d] = "inspected"
    /\ LET m == job[d].mission
       IN  \/ /\ m \in Commits(main) \/ (job[d].call = "reconcile" /\ m \in Equivalent)
              /\ job' = [job EXCEPT ![d].after =
                            IF job[d].call = "approve" THEN main ELSE @]
              /\ Go(d, "decided")
           \/ /\ m \notin Commits(main)
              /\ job[d].call = "approve"
              /\ Go(d, "merge")
              /\ UNCHANGED job
           \/ /\ m \notin Commits(main) \cup Equivalent
              /\ job[d].call = "reconcile"
              /\ End(d)
    /\ UNCHANGED <<queue_vars, git_vars, audit_vars, deploying, crossed, bound_vars>>

(* _write_decision_record: replace the mission's record, then append a line  *)
(* to the history.                                                           *)
DecisionOf(call) ==
    CASE call = "approve" -> "approved"
      [] call = "reject"  -> "rejected"
      [] OTHER            -> "reconciled"

(* Mutant of Record: the history is not appended to.                         *)
RecordOnly(d) ==
    /\ pc[d] = "decided"
    /\ record' = [record EXCEPT ![job[d].mission] =
                     [decision   |-> DecisionOf(job[d].call),
                      main_after |-> job[d].after]]
    /\ Go(d, "audited")
    /\ UNCHANGED <<queue_vars, git_vars, job, history, deploying, crossed, bound_vars>>

Record(d) ==
    /\ pc[d] = "decided"
    /\ record' = [record EXCEPT ![job[d].mission] =
                     [decision   |-> DecisionOf(job[d].call),
                      main_after |-> job[d].after]]
    /\ Go(d, "recorded")
    /\ UNCHANGED <<queue_vars, git_vars, job, history, deploying, crossed, bound_vars>>

AppendHistory(d) ==
    /\ pc[d] = "recorded"
    /\ history' = history \cup {<<job[d].mission, DecisionOf(job[d].call), job[d].after>>}
    /\ Go(d, "audited")
    /\ UNCHANGED <<queue_vars, git_vars, job, record, deploying, crossed, bound_vars>>

(* The queue call: it moves a blocked mission, is a no-op where the mission  *)
(* already is, and raises for any other state.                               *)
Settle(d) ==
    /\ pc[d] = "audited"
    /\ LET m == job[d].mission
       IN  IF ~Q!InState(m, {"blocked"}) THEN UNCHANGED queue_vars
           ELSE IF job[d].call = "reject" THEN Q!RejectManualReview(m)
           ELSE Q!ApproveManualReview(m)
    /\ End(d)
    /\ UNCHANGED <<git_vars, audit_vars, deploying, crossed, bound_vars>>

-----------------------------------------------------------------------------
(* The integration of approve().                                             *)

(* A branch was cut from <<>>: it can be fast-forwarded to while main still  *)
(* is there, or is the branch itself.                                        *)
FastForward(m) == main \in {<<>>, <<m>>}

Merged(m) == IF m \in Commits(main) THEN main ELSE Append(main, m)

Merge(d) ==
    /\ pc[d] = "merge"
    /\ LET m == job[d].mission
       IN  \/ /\ ~unmerged
              /\ FastForward(m) \/ m \notin Conflicting
              /\ main' = Merged(m)
              /\ job' = [job EXCEPT ![d].after = Merged(m)]
              /\ Go(d, "push")
              /\ UNCHANGED unmerged
           \/ /\ unmerged \/ m \in Conflicting
              /\ ~FastForward(m)
              /\ unmerged' = TRUE
              /\ Go(d, "reset")
              /\ UNCHANGED <<main, job>>
           \/ /\ unmerged /\ FastForward(m)     (* --ff-only fails and raises *)
              /\ End(d)
              /\ UNCHANGED <<main, unmerged>>
    /\ UNCHANGED <<queue_vars, origin, audit_vars, deploying, crossed, bound_vars>>

(* git push publishes whatever the local main is by now.                     *)
Push(d) ==
    /\ pc[d] = "push"
    /\ IF IsPrefix(origin, main)
       THEN origin' = main /\ Go(d, "verify")
       ELSE Go(d, "reset") /\ UNCHANGED origin
    /\ UNCHANGED <<queue_vars, main, unmerged, job, audit_vars, deploying, crossed, bound_vars>>

(* The connection fails, or the command times out after origin took it.      *)
PushFails(d) ==
    /\ pc[d] = "push"
    /\ push_failures < MaxPushFailures
    /\ push_failures' = push_failures + 1
    /\ origin' \in {origin} \cup {r \in {main} : IsPrefix(origin, r)}
    /\ Go(d, "reset")
    /\ UNCHANGED <<queue_vars, main, unmerged, job, audit_vars, deploying, crossed,
                   upstream, deaths, rollbacks, interventions>>

(* Fetch, and compare both ends with the revision the merge produced.        *)
Verify(d) ==
    /\ pc[d] = "verify"
    /\ Go(d, IF main = job[d].after /\ origin = job[d].after THEN "decided" ELSE "reset")
    /\ UNCHANGED <<queue_vars, git_vars, job, audit_vars, deploying, crossed, bound_vars>>

(* Mutant of Reset: the merge is left in the checkout.                       *)
ResetForgotten(d) ==
    /\ pc[d] = "reset"
    /\ unmerged' = FALSE
    /\ End(d)
    /\ UNCHANGED <<queue_vars, main, origin, audit_vars, deploying, crossed, bound_vars>>

(* git merge --abort where there is one, git reset --hard before, raise.     *)
Reset(d) ==
    /\ pc[d] = "reset"
    /\ main' = job[d].before
    /\ unmerged' = FALSE
    /\ End(d)
    /\ UNCHANGED <<queue_vars, origin, audit_vars, deploying, crossed, bound_vars>>

-----------------------------------------------------------------------------
(* The environment.                                                          *)

(* The process dies, or a file or git operation raises out of the call.      *)
Die(d) ==
    /\ deaths < MaxDeaths
    /\ pc[d] # "idle"
    /\ End(d)
    /\ deaths' = deaths + 1
    /\ UNCHANGED <<queue_vars, git_vars, audit_vars, deploying, crossed,
                   upstream, push_failures, rollbacks, interventions>>

PushUpstream ==
    /\ upstream < MaxUpstream
    /\ origin' = Append(origin, Upstream)
    /\ upstream' = upstream + 1
    /\ UNCHANGED <<queue_vars, main, unmerged, call_vars, audit_vars, deploying, crossed,
                   push_failures, deaths, rollbacks, interventions>>

(* deploy_verified_main.sh, which somebody starts: git pull --ff-only in a   *)
(* clean checkout, then minutes of checks; a failed one resets main to where *)
(* it was.  It refuses, and this step is not taken, until a workflow outside *)
(* has moved the backup branch to where origin's main is.                    *)
Pull ==
    /\ deploying = <<NoRun>>
    /\ ~unmerged
    /\ main # origin
    /\ IsPrefix(main, origin) \/ IsPrefix(origin, main)
    /\ deploying' = main
    /\ main' = IF IsPrefix(main, origin) THEN origin ELSE main
    /\ UNCHANGED <<queue_vars, unmerged, origin, call_vars, audit_vars, crossed, bound_vars>>

EndDeployment ==
    /\ deploying # <<NoRun>>
    /\ deploying' = <<NoRun>>
    /\ UNCHANGED <<queue_vars, git_vars, call_vars, audit_vars, crossed, bound_vars>>

RollBack ==
    /\ deploying # <<NoRun>>
    /\ rollbacks < MaxRollbacks
    /\ rollbacks' = rollbacks + 1
    /\ main' = deploying
    /\ unmerged' = FALSE
    /\ deploying' = <<NoRun>>
    /\ UNCHANGED <<queue_vars, origin, call_vars, audit_vars, crossed,
                   upstream, push_failures, deaths, interventions>>

(* The private admin API cancels or resumes the mission.                     *)
Intervene(m) ==
    /\ interventions < MaxInterventions
    /\ Q!Cancel(m) \/ Q!Resume(m)
    /\ interventions' = interventions + 1
    /\ UNCHANGED <<git_vars, call_vars, audit_vars, deploying, crossed,
                   upstream, push_failures, deaths, rollbacks>>

-----------------------------------------------------------------------------
(* Every mission was executed and blocked for manual review, its branch cut  *)
(* from the revision main and origin still are.                              *)
Init ==
    /\ LET rank == CHOOSE f \in [Missions -> 1..Cardinality(Missions)] :
                       \A m, n \in Missions : f[m] = f[n] => m = n
       IN  missions = [m \in Missions |->
                          [priority |-> 0, dependencies |-> {}, state |-> "blocked",
                           created_seq |-> rank[m], attempts_done |-> 0,
                           max_retries |-> 0]]
    /\ next_seq = Cardinality(Missions) + 1
    /\ main = <<>>
    /\ unmerged = FALSE
    /\ origin = <<>>
    /\ pc = [d \in Deciders |-> "idle"]
    /\ job = [d \in Deciders |-> NoJob]
    /\ record = [m \in Missions |-> NoRecord]
    /\ history = {}
    /\ deploying = <<NoRun>>
    /\ crossed = FALSE
    /\ upstream = 0
    /\ push_failures = 0
    /\ deaths = 0
    /\ rollbacks = 0
    /\ interventions = 0

Step(d) ==
    \/ Validate(d)
    \/ Inspect(d)
    \/ Survey(d)
    \/ Merge(d)
    \/ Push(d)
    \/ Verify(d)
    \/ Reset(d)
    \/ Record(d)
    \/ AppendHistory(d)
    \/ Settle(d)

Next ==
    \/ \E d \in Deciders : Step(d) \/ PushFails(d) \/ Die(d)
    \/ PushUpstream \/ Pull \/ EndDeployment \/ RollBack
    \/ \E m \in Missions : Intervene(m)

Spec == Init /\ [][Next]_vars

(* A call that began runs on, and reviewers decide again while a mission is  *)
(* still blocked.  That anybody deploys main is not assumed: no unit does.   *)
Fairness == WF_vars(\E d \in Deciders : Step(d))

FairSpec == Spec /\ Fairness

-----------------------------------------------------------------------------
(* Safety.                                                                   *)

Satisfied(m) == m \in Commits(origin) \/ (m \in Equivalent /\ "reconcile" \in Calls)

(* What README.md:162 asks for before a mission is completed: that its       *)
(* commit was pushed and is on origin's main.                                *)
ApprovedIsPublished ==
    \A m \in Missions :
        \/ Q!InState(m, {"completed"})
        \/ record[m].decision \in {"approved", "reconciled"}
        => Satisfied(m)

(* A mission the service completed, or recorded as approved, is on origin's  *)
(* main, through failing pushes, foreign pushes, pulls and calls that end    *)
(* halfway, until two decisions overlap or a deployment is rolled back: that *)
(* may bring back a merge an approval has undone, between the check of the   *)
(* checkout and the look whether the commit is merged.                       *)
CompletedIsPublished == rollbacks = 0 /\ ~crossed => ApprovedIsPublished

(* No decision takes effect before it is durable: a mission leaves blocked   *)
(* for completed or cancelled only with a line in the history that says so,  *)
(* whatever races and whatever ends halfway.                                 *)
SettledIsAudited ==
    \A m \in Missions :
        /\ Q!InState(m, {"completed"}) =>
               \E line \in history : line[1] = m /\ line[2] \in {"approved", "reconciled"}
        /\ Q!InState(m, {"cancelled"}) /\ interventions = 0 =>
               \E line \in history : line[1] = m /\ line[2] = "rejected"

(* When no decision is being taken, the checkout holds nothing that was not  *)
(* published: each failing or losing approval undoes its merge, whatever     *)
(* others merged, pushed or reset in between, unless a call ended halfway    *)
(* or a deployment was rolled back.                                          *)
AtRestPublished ==
    AtRest /\ deaths = 0 /\ rollbacks = 0 => IsPrefix(main, origin) /\ ~unmerged

-----------------------------------------------------------------------------
(* Why they hold: the inductive invariants.                                  *)

Places ==
    {"idle", "validated", "inspected", "merge", "push", "verify", "reset",
     "decided", "recorded", "audited"}
Revisions == Seq(Missions \cup {Upstream, NoRun})
Jobs ==
    [call : Calls \cup {"none"}, mission : Missions \cup {"none"},
     before : Revisions, after : Revisions]

ApprovalTypeOK ==
    /\ {main, origin, deploying} \subseteq Revisions
    /\ pc \in [Deciders -> Places] /\ job \in [Deciders -> Jobs]
    /\ \A d \in Deciders :
          pc[d] # "idle" => job[d].call \in Calls /\ job[d].mission \in Missions
    /\ DOMAIN record = Missions
    /\ \A m \in DOMAIN missions : "state" \in DOMAIN missions[m]
    /\ rollbacks \in Nat /\ deaths \in Nat /\ crossed \in BOOLEAN

(* An approval that passed the check of the checkout has nothing in it that  *)
(* origin lacks until it merges; the commit it merged is in what it compares *)
(* origin with; and what it goes on to record is there.                      *)
OnItsWay(d) ==
    LET m == job[d].mission
    IN  /\ pc[d] \in {"inspected", "merge"} => Commits(main) \subseteq Commits(origin)
        /\ pc[d] \in {"push", "verify"} => m \in Commits(job[d].after)
        /\ pc[d] \in {"decided", "recorded", "audited"} /\ job[d].call # "reject" => Satisfied(m)

(* Until two decisions overlap, one decider is at work.                       *)
OneAtATime ==
    ~crossed => \A d, e \in Deciders : pc[d] # "idle" /\ pc[e] # "idle" => d = e

Published ==
    /\ ApprovalTypeOK
    /\ CompletedIsPublished
    /\ OneAtATime
    /\ rollbacks = 0 /\ ~crossed => \A d \in Deciders : OnItsWay(d)

(* What is in the checkout and not on origin is the merge of an approval that *)
(* has yet to push it or to take it back, to a revision that is on origin.    *)
Accounted ==
    /\ ~IsPrefix(main, origin) => \E d \in Deciders : pc[d] \in {"push", "reset"}
    /\ unmerged => \E d \in Deciders : pc[d] = "reset"
    /\ \A d \in Deciders :
          pc[d] \in {"inspected", "merge", "push", "verify", "reset"} =>
             IsPrefix(job[d].before, origin)

Undone == ApprovalTypeOK /\ (deaths = 0 /\ rollbacks = 0 => Accounted)

-----------------------------------------------------------------------------
(* Liveness.                                                                 *)

(* No two calls overlap, none ends halfway, nobody cancels, and what is      *)
(* approved merges.                                                          *)
OnlyApproved ==
    /\ ~crossed /\ deaths = 0 /\ interventions = 0
    /\ \A d \in Deciders : /\ job[d].call \in {"none", "approve"}
                           /\ job[d].mission \notin Conflicting

(* A reviewer who keeps approving missions that merge gets every one of them *)
(* completed, although pushes fail or time out after they took effect and    *)
(* others push: what a failed approval left on origin is found merged by the *)
(* next one.  Unless the checkout stays out of step with origin, which only  *)
(* a deployment ends: then every approval is refused.                        *)
ApprovalConverges ==
    []OnlyApproved =>
        \/ \A m \in Missions \ Conflicting : <>Q!InState(m, {"completed"})
        \/ <>[](main # origin)
=============================================================================
