----------------------- MODULE MissionExecutionProofs -----------------------
(***************************************************************************)
(* Three results about executions.                                         *)
(*   - No decision is bypassed, for any number of missions and workers:    *)
(*     only what a review or a human accepted reaches origin, and a human  *)
(*     accepts only what was referred to one (DecisionInv).                *)
(*   - Branches and worktrees are accounted for, for any number of workers *)
(*     (LeftoversInv).                                                     *)
(*   - With one worker at a time what is completed is merged, and at rest  *)
(*     the checkout is in step with origin, up to what the faults excuse   *)
(*     (MergedInv, SyncedInv).                                             *)
(***************************************************************************)
EXTENDS MissionExecution, SequenceTheorems, FiniteSetTheorems,
        WellFoundedInduction, TLAPS

CommitIds == (Missions \cup {Upstream}) \X Nat

Revisions == Seq(CommitIds)

Risks == {"low", "high"}

Results ==
    AdapterOutcomes \cup
    {"none", "refused", "dirty", "no_workspace", "leftover", "read_only", "merged",
     "fast_forward_merge_failed", "main_push_failed", "project_deployment_failed",
     "manual_review_required"}

Places ==
    {"idle", "down", "starting", "routing", "running", "publishing", "committing",
     "sending", "cleaning", "judging", "reviewing", "accepted", "merging", "pushing",
     "undoing", "deploying", "persisting", "settling"}

Branches == [base : Revisions, committed : BOOLEAN, risk : Risks]

Jobs == [mission : Missions \cup {"none"}, tried : Nat, base : Revisions, branch : Nat,
         risk : Risks, result : Results, head : Revisions]

Approvals == [mission : Missions \cup {"none"}, before : Revisions, after : Revisions]

ExecutionTypeOK ==
    /\ main \in Revisions /\ origin \in Revisions
    /\ branches \in [Missions -> Seq(Branches)]
    /\ evidence \in [Missions -> Results]
    /\ pc \in [Executors -> Places]
    /\ job \in [Executors -> Jobs]
    /\ approval \in Approvals
    /\ upstream \in Nat

(* The branch has a commit of its own.                                       *)
HasCommit(m, n) == n \in DOMAIN branches[m] /\ branches[m][n].committed

(* All commits of a revision are among the accepted, or somebody else's.     *)
Sound(r, accepted) == \A i \in DOMAIN r : r[i][1] = Upstream \/ r[i] \in accepted

AllSound ==
    /\ Sound(main, vetted) /\ Sound(origin, vetted)
    /\ Sound(approval.before, vetted) /\ Sound(approval.after, vetted)
    /\ \A m \in Missions : \A n \in DOMAIN branches[m] : Sound(branches[m][n].base, vetted)
    /\ \A e \in Executors : Sound(job[e].base, vetted) /\ Sound(job[e].head, vetted)

(* What an executor's place says of its job.                                 *)
Fits(j, place) ==
    LET m == j.mission
        n == j.branch
    IN  /\ place \notin {"idle", "down"} => m \in Missions
        /\ place = "committing" => n \in DOMAIN branches[m]
        /\ \/ place \in {"sending", "reviewing"}
           \/ place \in {"cleaning", "judging"} /\ j.result = "changes"
           => HasCommit(m, n)
        /\ place \in {"accepted", "merging"} => HasCommit(m, n) /\ <<m, n>> \in vetted
        /\ j.result = "manual_review_required" =>
               /\ place \in {"persisting", "settling"}
               /\ HasCommit(m, n) /\ <<m, n>> \in asked

PlaceOK(e) == Fits(job[e], pc[e])

(* Evidence that asks for a human was written after a review that did.       *)
EvidenceOK ==
    \A m \in Missions :
        evidence[m] = "manual_review_required" =>
            \E n \in Nat : HasCommit(m, n) /\ <<m, n>> \in asked

DecisionInv ==
    /\ ExecutionTypeOK
    /\ AllSound
    /\ \A e \in Executors : PlaceOK(e)
    /\ EvidenceOK
    /\ ApprovedWasAsked

-----------------------------------------------------------------------------
(* Facts about numbers and revisions.                                        *)

(* A bounded set of natural numbers has a largest one.                       *)
LEMMA LargestExists ==
    ASSUME NEW S \in SUBSET Nat, S # {}, NEW k \in Nat, \A n \in S : n <= k
    PROVE  \E n \in S : \A j \in S : j <= n
<1> DEFINE T == {n .. k : n \in S}
<1>1. T \subseteq FiniteSubsetsOf(Nat) /\ T # {}
  <2>1. \A n \in S : IsFiniteSet(n .. k) /\ n .. k \subseteq Nat
    BY FS_Interval
  <2> QED
    BY <2>1 DEF FiniteSubsetsOf
<1>2. PICK x \in T : \A y \in T : ~(<<y, x>> \in StrictSubsetOrdering(Nat))
  BY <1>1, FS_StrictSubsetOrderingWellFounded, WFMin
<1>3. PICK n \in S : x = n .. k
  OBVIOUS
<1>4. \A j \in S : j <= n
  <2> TAKE j \in S
  <2>1. j .. k \in T /\ j .. k \subseteq Nat /\ n .. k \subseteq Nat
    OBVIOUS
  <2>2. ~(j .. k \subseteq n .. k /\ j .. k # n .. k)
    BY <1>2, <1>3, <2>1 DEF StrictSubsetOrdering
  <2>3. SUFFICES ASSUME j > n PROVE FALSE
    OBVIOUS
  <2>4. n \in n .. k /\ n \notin j .. k /\ j .. k \subseteq n .. k
    BY <2>3
  <2> QED
    BY <2>2, <2>4
<1> QED
  BY <1>4

(* The branch a review and an approval take has a commit, if one has.        *)
LEMMA NewestHasCommit ==
    ASSUME ExecutionTypeOK, NEW m \in Missions, NEW n, HasCommit(m, n)
    PROVE  HasCommit(m, Newest(m)) /\ Newest(m) \in Nat
<1> DEFINE own == {k \in DOMAIN branches[m] : branches[m][k].committed}
<1>1. branches[m] \in Seq(Branches)
  BY DEF ExecutionTypeOK
<1>2. own \in SUBSET Nat /\ own # {} /\ Len(branches[m]) \in Nat
      /\ \A k \in own : k <= Len(branches[m])
  BY <1>1 DEF HasCommit
<1>3. \E k \in own : \A j \in own : j <= k
  <2> HIDE DEF own
  <2> QED
    BY <1>2, LargestExists
<1>4. Newest(m) \in own
  BY <1>3 DEF Newest
<1> QED
  BY <1>2, <1>4 DEF HasCommit

LEMMA TipFacts ==
    ASSUME ExecutionTypeOK, NEW m \in Missions, NEW n, HasCommit(m, n)
    PROVE  /\ n \in Nat /\ branches[m][n].base \in Revisions /\ <<m, n>> \in CommitIds
           /\ Tip(m, n) = Append(branches[m][n].base, <<m, n>>)
           /\ Tip(m, n) \in Revisions
<1>1. branches[m] \in Seq(Branches) /\ n \in 1 .. Len(branches[m])
  BY DEF ExecutionTypeOK, HasCommit
<1>2. branches[m][n] \in Branches /\ n \in Nat
  BY <1>1
<1>3. branches[m][n].base \in Revisions /\ <<m, n>> \in CommitIds
  BY <1>2 DEF Branches, CommitIds
<1> QED
  BY <1>2, <1>3, AppendProperties DEF Tip, HasCommit, Revisions

LEMMA SoundFacts ==
    /\ \A V : Sound(<<>>, V)
    /\ \A r, V, W : Sound(r, V) /\ V \subseteq W => Sound(r, W)
    /\ \A r \in Revisions, c \in CommitIds : \A V :
          Sound(r, V) /\ (c[1] = Upstream \/ c \in V) => Sound(Append(r, c), V)
<1>1. ASSUME NEW r \in Revisions, NEW c \in CommitIds, NEW V, Sound(r, V),
             c[1] = Upstream \/ c \in V
      PROVE  Sound(Append(r, c), V)
  BY <1>1, AppendProperties DEF Sound, Revisions
<1> QED
  BY <1>1 DEF Sound

-----------------------------------------------------------------------------
(* What a step leaves standing.                                              *)

(* Branches, commits, verdicts and questions are only ever added.            *)
Grows ==
    /\ vetted \subseteq vetted' /\ asked \subseteq asked'
    /\ \A m \in Missions :
          /\ DOMAIN branches[m] \subseteq DOMAIN branches'[m]
          /\ \A n \in DOMAIN branches[m] :
                branches[m][n].committed => branches'[m][n].committed

LEMMA OthersKept ==
    ASSUME NEW u \in Executors, PlaceOK(u), job[u] \in Jobs, Grows,
           pc'[u] = pc[u], job'[u] = job[u]
    PROVE  PlaceOK(u)'
<1>1. \A m \in Missions : \A n : HasCommit(m, n) => HasCommit(m, n)'
  BY DEF HasCommit, Grows
<1>2. CASE pc[u] \in {"idle", "down"}
  BY <1>2 DEF PlaceOK, Fits
<1>3. CASE pc[u] \notin {"idle", "down"}
  BY <1>1, <1>3 DEF PlaceOK, Fits, Grows
<1> QED
  BY <1>2, <1>3

LEMMA EvidenceKept == EvidenceOK /\ Grows /\ UNCHANGED evidence => EvidenceOK'
<1>1. Grows => \A m \in Missions : \A n : HasCommit(m, n) => HasCommit(m, n)'
  BY DEF HasCommit, Grows
<1> QED
  BY <1>1 DEF EvidenceOK, Grows

LEMMA ApprovalKept ==
    ApprovedWasAsked /\ asked \subseteq asked' /\ UNCHANGED approval => ApprovedWasAsked'
BY DEF ApprovedWasAsked, Commits

(* A step of an executor that changes nothing but its place and job.         *)
Alone == UNCHANGED <<main, origin, branches, evidence, approval, asked, vetted, upstream>>

LEMMA OwnMove ==
    ASSUME DecisionInv, Alone, NEW e \in Executors, NEW j \in Jobs, NEW place \in Places,
           pc' = [pc EXCEPT ![e] = place], job' = [job EXCEPT ![e] = j],
           Sound(j.base, vetted), Sound(j.head, vetted), Fits(j, place)
    PROVE  DecisionInv'
<1> USE DEF Alone
<1>1. Grows
  BY DEF Grows
<1>2. /\ pc \in [Executors -> Places] /\ job \in [Executors -> Jobs]
      /\ pc' \in [Executors -> Places] /\ job' \in [Executors -> Jobs]
      /\ pc'[e] = place /\ job'[e] = j
      /\ \A u \in Executors \ {e} : pc'[u] = pc[u] /\ job'[u] = job[u]
  BY DEF DecisionInv, ExecutionTypeOK
<1>3. ExecutionTypeOK'
  BY <1>2 DEF DecisionInv, ExecutionTypeOK
<1>4. AllSound'
  <2>1. AllSound
    BY DEF DecisionInv
  <2>2. \A u \in Executors : Sound(job'[u].base, vetted) /\ Sound(job'[u].head, vetted)
    BY <1>2, <2>1 DEF AllSound
  <2> QED
    BY <2>1, <2>2 DEF AllSound
<1>5. PlaceOK(e)'
  BY <1>2 DEF PlaceOK, Fits, HasCommit
<1>6. \A u \in Executors \ {e} : PlaceOK(u)'
  BY <1>1, <1>2, OthersKept DEF DecisionInv
<1>7. EvidenceOK' /\ ApprovedWasAsked'
  BY <1>1, EvidenceKept, ApprovalKept DEF DecisionInv, Grows
<1> QED
  BY <1>3, <1>4, <1>5, <1>6, <1>7 DEF DecisionInv

(* Its job stays as it is.                                                   *)
LEMMA OwnGo ==
    ASSUME DecisionInv, Alone, NEW e \in Executors, NEW place \in Places,
           Go(e, place), UNCHANGED job, Fits(job[e], place)
    PROVE  DecisionInv'
<1>1. job[e] \in Jobs /\ job' = [job EXCEPT ![e] = job[e]]
      /\ Sound(job[e].base, vetted) /\ Sound(job[e].head, vetted)
  BY DEF DecisionInv, ExecutionTypeOK, AllSound
<1> QED
  BY <1>1, OwnMove DEF Go

(* The result changes with the place, to one that asks for no human.         *)
LEMMA OwnResult ==
    ASSUME DecisionInv, Alone, NEW e \in Executors, NEW place \in Places,
           NEW r \in Results \ {"manual_review_required"},
           pc[e] \notin {"idle", "down"}, Go(e, place), Set(e, "result", r),
           Fits([job[e] EXCEPT !.result = r], place)
    PROVE  DecisionInv'
<1> DEFINE j == [job[e] EXCEPT !.result = r]
<1>1. job[e] \in Jobs
  BY DEF DecisionInv, ExecutionTypeOK
<1>2. j \in Jobs /\ j.base = job[e].base /\ j.head = job[e].head
  BY <1>1 DEF Jobs
<1>3. Sound(job[e].base, vetted) /\ Sound(job[e].head, vetted)
  BY DEF DecisionInv, AllSound
<1>4. job' = [job EXCEPT ![e] = j]
  BY DEF Set
<1> HIDE DEF j
<1> QED
  BY <1>2, <1>3, <1>4, OwnMove DEF Go, j

LEMMA OwnFinish ==
    ASSUME DecisionInv, Alone, NEW e \in Executors, pc[e] \notin {"idle", "down"},
           NEW r \in Results \ {"manual_review_required"}, Finish(e, r)
    PROVE  DecisionInv'
<1>1. job[e] \in Jobs /\ Fits(job[e], pc[e])
  BY DEF DecisionInv, ExecutionTypeOK, PlaceOK
<1>2. Fits([job[e] EXCEPT !.result = r], "persisting")
  BY <1>1 DEF Fits, Jobs
<1>3. "persisting" \in Places
  BY DEF Places
<1> QED
  BY <1>2, <1>3, OwnResult DEF Finish

LEMMA NoJobFacts ==
    /\ NoJob \in Jobs /\ NoJob.base = <<>> /\ NoJob.head = <<>>
    /\ NoJob.mission = "none" /\ NoJob.result = "none"
<1>1. <<>> \in Revisions
  BY DEF Revisions
<1>2. \A r \in Revisions :
         [mission |-> "none", tried |-> 0, base |-> r, branch |-> 0,
          risk |-> "low", result |-> "none", head |-> r] \in Jobs
  BY DEF Jobs, Risks, Results
<1> QED
  BY <1>1, <1>2 DEF NoJob

(* The job is given up.                                                      *)
LEMMA OwnEnd ==
    ASSUME DecisionInv, Alone, NEW e \in Executors, NEW place \in {"idle", "down"},
           Go(e, place), job' = [job EXCEPT ![e] = NoJob]
    PROVE  DecisionInv'
<1>3. NoJob \in Jobs /\ Sound(NoJob.base, vetted) /\ Sound(NoJob.head, vetted)
  BY NoJobFacts, SoundFacts
<1>4. Fits(NoJob, place) /\ place \in Places
  BY DEF Fits, NoJob, Places
<1> QED
  BY <1>3, <1>4, OwnMove DEF Go

LEMMA DecisionInit == Init => DecisionInv
<1> SUFFICES ASSUME Init PROVE DecisionInv
  OBVIOUS
<1>1. <<>> \in Revisions
  BY DEF Revisions
<1>2. ExecutionTypeOK
  <2>1. <<>> \in Seq(Branches)
    OBVIOUS
  <2>2. NoJob \in Jobs /\ NoApproval \in Approvals
    <3>1. \A r \in Revisions : [mission |-> "none", before |-> r, after |-> r] \in Approvals
      BY DEF Approvals
    <3>2. \A r \in Revisions :
             [mission |-> "none", tried |-> 0, base |-> r, branch |-> 0,
              risk |-> "low", result |-> "none", head |-> r] \in Jobs
      BY DEF Jobs, Risks, Results
    <3> QED
      BY <1>1, <3>1, <3>2 DEF NoJob, NoApproval
  <2>3. branches \in [Missions -> Seq(Branches)] /\ evidence \in [Missions -> Results]
    BY <2>1 DEF Init, Results
  <2>4. /\ main \in Revisions /\ origin \in Revisions /\ pc \in [Executors -> Places]
        /\ job \in [Executors -> Jobs] /\ approval \in Approvals /\ upstream \in Nat
    BY <1>1, <2>2 DEF Init, Places
  <2> QED
    BY <2>3, <2>4 DEF ExecutionTypeOK
<1>3. AllSound
  BY DEF Init, AllSound, Sound, NoJob, NoApproval
<1>4. \A e \in Executors : PlaceOK(e)
  BY DEF Init, PlaceOK, Fits, NoJob
<1>5. EvidenceOK /\ ApprovedWasAsked
  BY DEF Init, EvidenceOK, ApprovedWasAsked
<1> QED
  BY <1>2, <1>3, <1>4, <1>5 DEF DecisionInv

-----------------------------------------------------------------------------
(* The steps of an executor, up to its review.                               *)

LEMMA RoutingSteps ==
    ASSUME DecisionInv, NEW e \in Executors,
           \/ Claim(e) \/ CheckClean(e) \/ Skip(e) \/ CreateWorkspace(e)
           \/ WorkspaceFails(e) \/ GiveUp(e) \/ AdapterReturns(e)
    PROVE  DecisionInv'
<1> USE DEF queue_vars, git_vars, store_vars, history_vars, bound_vars
<1>1. job[e] \in Jobs /\ Fits(job[e], pc[e])
      /\ main \in Revisions /\ <<>> \in Revisions
  BY DEF DecisionInv, ExecutionTypeOK, PlaceOK, Revisions
<1>2. /\ Sound(job[e].base, vetted) /\ Sound(job[e].head, vetted)
      /\ Sound(main, vetted) /\ Sound(<<>>, vetted)
  BY SoundFacts DEF DecisionInv, AllSound
<1>3. {"starting", "routing", "running", "publishing", "cleaning", "persisting"} \subseteq Places
  BY DEF Places
<1>4. CASE Claim(e)
  <2>1. PICK m \in Missions :
           /\ job' = [job EXCEPT ![e] = [NoJob EXCEPT
                        !.mission = m,
                        !.result = IF m \in Protected THEN "refused" ELSE "none"]]
           /\ Go(e, IF m \in Protected THEN "persisting" ELSE "starting")
    BY <1>4 DEF Claim
  <2> DEFINE r == IF m \in Protected THEN "refused" ELSE "none"
             j == [NoJob EXCEPT !.mission = m, !.result = r]
             place == IF m \in Protected THEN "persisting" ELSE "starting"
  <2>2. r \in Results
    BY DEF Results
  <2>3. \A x \in Jobs :
           LET y == [x EXCEPT !.mission = m, !.result = r]
           IN  /\ y \in Jobs /\ y.base = x.base /\ y.head = x.head
               /\ y.mission = m /\ y.result = r
    BY <2>2 DEF Jobs
  <2>4. j \in Jobs /\ j.base = <<>> /\ j.head = <<>> /\ j.mission = m /\ j.result = r
    BY <2>3, NoJobFacts
  <2>5. Fits(j, place) /\ place \in Places
    BY <1>3, <2>4 DEF Fits
  <2>6. Alone
    BY <1>4 DEF Claim, Alone
  <2>7. job' = [job EXCEPT ![e] = j] /\ pc' = [pc EXCEPT ![e] = place]
    BY <2>1 DEF Go
  <2> HIDE DEF j, place
  <2> QED
    BY <1>2, <2>4, <2>5, <2>6, <2>7, OwnMove
<1>5. CASE CheckClean(e)
  <2>1. Alone /\ pc[e] = "starting"
    BY <1>5 DEF CheckClean, Alone
  <2>2. CASE Finish(e, "dirty")
    BY <2>1, <2>2, OwnFinish DEF Results
  <2>3. CASE Go(e, "routing") /\ UNCHANGED job
    <3>1. Fits(job[e], "routing")
      BY <1>1, <2>1 DEF Fits
    <3> QED
      BY <1>3, <2>1, <2>3, <3>1, OwnGo
  <2> QED
    BY <1>5, <2>2, <2>3 DEF CheckClean
<1>6. CASE Skip(e)
  <2> DEFINE j == [job[e] EXCEPT !.tried = @ + 1]
  <2>1. Alone /\ pc[e] = "routing" /\ UNCHANGED pc /\ job' = [job EXCEPT ![e] = j]
    BY <1>6 DEF Skip, Alone, Set
  <2>2. j \in Jobs /\ j.base = job[e].base /\ j.head = job[e].head
    BY <1>1 DEF Jobs
  <2>3. Fits(j, "routing")
    BY <1>1, <2>1 DEF Fits, Jobs
  <2>4. pc' = [pc EXCEPT ![e] = "routing"]
    <3>1. pc = [pc EXCEPT ![e] = pc[e]]
      BY DEF DecisionInv, ExecutionTypeOK
    <3> QED
      BY <2>1, <3>1
  <2> HIDE DEF j
  <2> QED
    BY <1>2, <1>3, <2>1, <2>2, <2>3, <2>4, OwnMove
<1>7. CASE CreateWorkspace(e)
  <2> DEFINE j == [job[e] EXCEPT !.tried = @ + 1, !.base = main, !.branch = 0]
  <2>1. Alone /\ pc[e] = "routing" /\ pc' = [pc EXCEPT ![e] = "running"]
        /\ job' = [job EXCEPT ![e] = j]
    BY <1>7 DEF CreateWorkspace, Alone, Go
  <2>2. \A t \in Nat :
           LET y == [job[e] EXCEPT !.tried = t, !.base = main, !.branch = 0]
           IN  /\ y \in Jobs /\ y.base = main /\ y.head = job[e].head
               /\ y.mission = job[e].mission /\ y.result = job[e].result
    BY <1>1 DEF Jobs
  <2>4. job[e].tried \in Nat /\ job[e].tried + 1 \in Nat
    BY <1>1 DEF Jobs
  <2>5. /\ j \in Jobs /\ j.base = main /\ j.head = job[e].head
        /\ j.mission = job[e].mission /\ j.result = job[e].result
    BY <2>2, <2>4
  <2>3. Fits(j, "running")
    BY <1>1, <2>1, <2>5 DEF Fits
  <2> HIDE DEF j
  <2> QED
    BY <1>2, <1>3, <2>1, <2>3, <2>5, OwnMove
<1>8. CASE WorkspaceFails(e)
  BY <1>8, OwnFinish DEF WorkspaceFails, Alone, Results
<1>9. CASE GiveUp(e)
  <2>1. Alone /\ pc[e] = "routing"
        /\ Finish(e, IF job[e].result = "none" THEN "unavailable" ELSE job[e].result)
    BY <1>9 DEF GiveUp, Alone
  <2>2. (IF job[e].result = "none" THEN "unavailable" ELSE job[e].result)
        \in Results \ {"manual_review_required"}
    BY <1>1, <2>1 DEF Fits, Jobs, Results, AdapterOutcomes, ManagedOpenHandsOutcomes
  <2> QED
    BY <2>1, <2>2, OwnFinish
<1>10. CASE AdapterReturns(e)
  <2>1. Alone /\ pc[e] = "running"
    BY <1>10 DEF AdapterReturns, Alone
  <2>2. PICK outcome \in Outcomes, risk \in Risks :
           /\ job' = [job EXCEPT ![e].result = outcome, ![e].risk = risk]
           /\ Go(e, IF outcome = "changes" THEN "publishing" ELSE "cleaning")
    BY <1>10 DEF AdapterReturns, Risks
  <2> DEFINE j == [job[e] EXCEPT !.result = outcome, !.risk = risk]
             place == IF outcome = "changes" THEN "publishing" ELSE "cleaning"
  <2>3. outcome \in Results \ {"manual_review_required"}
    BY ExecutionAssumption
    DEF Results, AdapterOutcomes, ManagedOpenHandsOutcomes, OpenClawOutcomes
  <2>4. j \in Jobs /\ j.base = job[e].base /\ j.head = job[e].head
        /\ j.result = outcome /\ j.mission = job[e].mission
    BY <1>1, <2>3 DEF Jobs
  <2>5. Fits(j, place) /\ place \in Places
    BY <1>1, <1>3, <2>1, <2>3, <2>4 DEF Fits
  <2>6. job' = [job EXCEPT ![e] = j] /\ pc' = [pc EXCEPT ![e] = place]
    BY <2>2 DEF Go
  <2> HIDE DEF j, place
  <2> QED
    BY <1>2, <2>1, <2>4, <2>5, <2>6, OwnMove
<1> QED
  BY <1>4, <1>5, <1>6, <1>7, <1>8, <1>9, <1>10

LEMMA AttemptSteps ==
    ASSUME DecisionInv, NEW e \in Executors,
           \/ CreateBranchFails(e) \/ CommitFails(e) \/ SendBranch(e) \/ SendBranchFails(e)
           \/ RemoveWorkspace(e) \/ RemoveFails(e) \/ Judge(e) \/ ReadHead(e)
           \/ UndoFails(e) \/ Deploy(e) \/ Settle(e) \/ Crash(e) \/ Restart(e)
    PROVE  DecisionInv'
<1> USE DEF queue_vars, git_vars, store_vars, history_vars, bound_vars
<1>1. job[e] \in Jobs /\ Fits(job[e], pc[e]) /\ main \in Revisions
  BY DEF DecisionInv, ExecutionTypeOK, PlaceOK
<1>2. /\ Sound(job[e].base, vetted) /\ Sound(job[e].head, vetted)
      /\ Sound(main, vetted)
  BY DEF DecisionInv, AllSound
<1>3. {"cleaning", "judging", "routing", "reviewing", "merging", "idle"} \subseteq Places
  BY DEF Places
<1>4. CASE CreateBranchFails(e) \/ CommitFails(e) \/ SendBranchFails(e)
  <2>1. /\ Alone /\ pc[e] \in {"publishing", "committing", "sending"}
        /\ Set(e, "result", "exception") /\ Go(e, "cleaning")
    BY <1>4 DEF CreateBranchFails, CommitFails, SendBranchFails, Alone, Unpublished,
                BranchBreaks
  <2>2. Fits([job[e] EXCEPT !.result = "exception"], "cleaning")
    BY <1>1, <2>1 DEF Fits, Jobs
  <2>3. "exception" \in Results \ {"manual_review_required"}
    BY DEF Results, AdapterOutcomes, ManagedOpenHandsOutcomes
  <2> QED
    BY <1>3, <2>1, <2>2, <2>3, OwnResult
<1>5. CASE SendBranch(e)
  <2>1. Alone /\ pc[e] = "sending" /\ Go(e, "cleaning") /\ UNCHANGED job
    BY <1>5 DEF SendBranch, Alone
  <2>2. Fits(job[e], "cleaning")
    BY <1>1, <2>1 DEF Fits
  <2> QED
    BY <1>3, <2>1, <2>2, OwnGo
<1>6. CASE RemoveWorkspace(e)
  <2>1. Alone /\ pc[e] = "cleaning" /\ Go(e, "judging") /\ UNCHANGED job
    BY <1>6 DEF RemoveWorkspace, Alone
  <2>2. Fits(job[e], "judging")
    BY <1>1, <2>1 DEF Fits
  <2> QED
    BY <1>3, <2>1, <2>2, OwnGo
<1>7. CASE RemoveFails(e)
  <2> DEFINE r == IF job[e].result \in {"changes", "no_changes"}
                  THEN "leftover" ELSE job[e].result
  <2>1. Alone /\ pc[e] = "cleaning" /\ Set(e, "result", r) /\ Go(e, "judging")
    BY <1>7 DEF RemoveFails, Alone
  <2>2. r \in Results \ {"manual_review_required"} /\ r # "changes"
    BY <1>1, <2>1 DEF Fits, Jobs, Results
  <2>3. Fits([job[e] EXCEPT !.result = r], "judging")
    BY <1>1, <2>1, <2>2 DEF Fits, Jobs
  <2> HIDE DEF r
  <2> QED
    BY <1>3, <2>1, <2>2, <2>3, OwnResult
<1>8. CASE Judge(e)
  <2>1. Alone /\ pc[e] = "judging"
    BY <1>8 DEF Judge, Alone
  <2>2. CASE Go(e, "reviewing") /\ UNCHANGED job /\ job[e].result = "changes"
    <3>1. Fits(job[e], "reviewing")
      BY <1>1, <2>1, <2>2 DEF Fits
    <3> QED
      BY <1>3, <2>1, <2>2, <3>1, OwnGo
  <2>3. CASE Go(e, "routing") /\ UNCHANGED job
    <3>1. Fits(job[e], "routing")
      BY <1>1, <2>1 DEF Fits
    <3> QED
      BY <1>3, <2>1, <2>3, <3>1, OwnGo
  <2>4. CASE \E r \in {"dirty", "read_only", "no_changes", job[e].result} : Finish(e, r)
    <3>1. {"dirty", "read_only", "no_changes", job[e].result}
              \subseteq Results \ {"manual_review_required"}
      BY <1>1, <2>1 DEF Fits, Jobs, Results, AdapterOutcomes, ManagedOpenHandsOutcomes
    <3> QED
      BY <2>1, <2>4, <3>1, OwnFinish
  <2> QED
    BY <1>8, <2>2, <2>3, <2>4 DEF Judge
<1>9. CASE ReadHead(e)
  <2> DEFINE j == [job[e] EXCEPT !.head = main]
  <2>1. Alone /\ pc[e] = "accepted" /\ pc' = [pc EXCEPT ![e] = "merging"]
        /\ job' = [job EXCEPT ![e] = j]
    BY <1>9 DEF ReadHead, Alone, Go, Set
  <2>2. j \in Jobs /\ j.base = job[e].base /\ j.head = main
    BY <1>1 DEF Jobs
  <2>3. Fits(j, "merging")
    BY <1>1, <2>1 DEF Fits, Jobs
  <2> HIDE DEF j
  <2> QED
    BY <1>2, <1>3, <2>1, <2>2, <2>3, OwnMove
<1>10. CASE UndoFails(e) \/ Deploy(e)
  <2>1. /\ Alone /\ pc[e] \in {"undoing", "deploying"}
        /\ \E r \in {"main_push_failed", "merged", "project_deployment_failed"} : Finish(e, r)
    BY <1>10 DEF UndoFails, Deploy, Alone
  <2> QED
    BY <2>1, OwnFinish DEF Results
<1>11. CASE Settle(e) \/ Crash(e)
  <2>1. /\ Alone /\ job' = [job EXCEPT ![e] = NoJob]
        /\ Go(e, "idle") \/ Go(e, "down")
    BY <1>11 DEF Settle, Crash, Alone
  <2> QED
    BY <2>1, OwnEnd
<1>12. CASE Restart(e)
  <2>1. Alone /\ pc[e] = "down" /\ Go(e, "idle") /\ UNCHANGED job
    BY <1>12 DEF Restart, Alone
  <2>2. Fits(job[e], "idle")
    BY <1>1, <2>1 DEF Fits
  <2> QED
    BY <1>3, <2>1, <2>2, OwnGo
<1> QED
  BY <1>4, <1>5, <1>6, <1>7, <1>8, <1>9, <1>10, <1>11, <1>12

-----------------------------------------------------------------------------
(* Merging, pushing and taking back.                                         *)

(* A step that moves main or origin to a sound revision, and the executor    *)
(* with it to a place nothing is asked of.                                   *)
LEMMA RevisionMove ==
    ASSUME DecisionInv, NEW e \in Executors, pc[e] \in {"merging", "pushing", "undoing"},
           UNCHANGED <<branches, evidence, approval, asked, vetted, upstream>>,
           main' \in Revisions, origin' \in Revisions,
           Sound(main', vetted), Sound(origin', vetted),
           NEW place \in {"pushing", "deploying", "undoing", "persisting"}, Go(e, place),
           \/ UNCHANGED job
           \/ \E r \in Results \ {"manual_review_required"} : Set(e, "result", r)
    PROVE  DecisionInv'
<1>1. /\ pc \in [Executors -> Places] /\ job \in [Executors -> Jobs]
      /\ Fits(job[e], pc[e])
  BY DEF DecisionInv, ExecutionTypeOK, PlaceOK
<1>2. place \in Places
  BY DEF Places
<1>3. PICK j \in Jobs :
         /\ job' = [job EXCEPT ![e] = j]
         /\ j.mission = job[e].mission /\ j.base = job[e].base /\ j.head = job[e].head
         /\ j.result # "manual_review_required"
  <2>1. CASE UNCHANGED job
    <3>1. job[e].result # "manual_review_required" /\ job' = [job EXCEPT ![e] = job[e]]
      BY <1>1, <2>1 DEF Fits
    <3> QED
      BY <1>1, <3>1
  <2>2. CASE \E r \in Results \ {"manual_review_required"} : Set(e, "result", r)
    <3>1. PICK r \in Results \ {"manual_review_required"} : Set(e, "result", r)
      BY <2>2
    <3>2. LET j == [job[e] EXCEPT !.result = r]
          IN  /\ j \in Jobs /\ j.mission = job[e].mission /\ j.base = job[e].base
              /\ j.head = job[e].head /\ j.result = r
      BY <1>1 DEF Jobs
    <3> QED
      BY <3>1, <3>2 DEF Set
  <2> QED
    BY <2>1, <2>2
<1>4. /\ pc' \in [Executors -> Places] /\ job' \in [Executors -> Jobs]
      /\ pc'[e] = place /\ job'[e] = j
      /\ \A u \in Executors \ {e} : pc'[u] = pc[u] /\ job'[u] = job[u]
  BY <1>1, <1>2, <1>3 DEF Go
<1>5. Grows
  BY DEF Grows
<1>6. ExecutionTypeOK'
  BY <1>4 DEF DecisionInv, ExecutionTypeOK
<1>7. AllSound'
  <2>1. AllSound
    BY DEF DecisionInv
  <2>2. \A u \in Executors : job'[u].base = job[u].base /\ job'[u].head = job[u].head
    BY <1>3, <1>4
  <2> QED
    BY <2>1, <2>2 DEF AllSound
<1>8. PlaceOK(e)'
  BY <1>1, <1>3, <1>4 DEF PlaceOK, Fits
<1>9. \A u \in Executors \ {e} : PlaceOK(u)'
  BY <1>1, <1>4, <1>5, OthersKept DEF DecisionInv
<1>10. EvidenceOK' /\ ApprovedWasAsked'
  BY <1>5, EvidenceKept, ApprovalKept DEF DecisionInv, Grows
<1> QED
  BY <1>6, <1>7, <1>8, <1>9, <1>10 DEF DecisionInv

(* The tip of a branch whose commit is accepted is sound.                    *)
LEMMA TipSound ==
    ASSUME DecisionInv, NEW m \in Missions, NEW n, HasCommit(m, n), NEW accepted,
           vetted \subseteq accepted, <<m, n>> \in accepted
    PROVE  Tip(m, n) \in Revisions /\ Sound(Tip(m, n), accepted)
<1>1. /\ branches[m][n].base \in Revisions /\ <<m, n>> \in CommitIds
      /\ Tip(m, n) = Append(branches[m][n].base, <<m, n>>) /\ Tip(m, n) \in Revisions
  BY TipFacts DEF DecisionInv
<1>2. Sound(branches[m][n].base, accepted)
  BY SoundFacts DEF DecisionInv, AllSound, HasCommit
<1> QED
  BY <1>1, <1>2, SoundFacts

LEMMA MergeSteps ==
    ASSUME DecisionInv, NEW e \in Executors,
           FastForward(e) \/ PushMain(e) \/ PushMainFails(e) \/ Undo(e)
    PROVE  DecisionInv'
<1>1. /\ job[e] \in Jobs /\ Fits(job[e], pc[e]) /\ job[e].head \in Revisions
      /\ main \in Revisions /\ origin \in Revisions
  BY DEF DecisionInv, ExecutionTypeOK, PlaceOK, Jobs
<1>2. Sound(main, vetted) /\ Sound(origin, vetted) /\ Sound(job[e].head, vetted)
  BY DEF DecisionInv, AllSound
<1>3. "main_push_failed" \in Results \ {"manual_review_required"}
      /\ "fast_forward_merge_failed" \in Results \ {"manual_review_required"}
  BY DEF Results
<1>4. CASE FastForward(e)
  <2> DEFINE tip == Tip(job[e].mission, job[e].branch)
  <2>1. /\ pc[e] = "merging"
        /\ UNCHANGED <<origin, branches, evidence, approval, asked, vetted, upstream>>
        /\ main' \in {main, tip}
        /\ \/ Go(e, "pushing") /\ UNCHANGED job
           \/ Go(e, "persisting") /\ Set(e, "result", "fast_forward_merge_failed")
    BY <1>4 DEF FastForward, Finish, store_vars, history_vars, bound_vars
  <2>2. tip \in Revisions /\ Sound(tip, vetted)
    BY <1>1, <2>1, TipSound DEF Fits
  <2> HIDE DEF tip
  <2> QED
    BY <1>1, <1>2, <1>3, <2>1, <2>2, RevisionMove
<1>5. CASE PushMain(e) \/ PushMainFails(e)
  <2>1. /\ pc[e] = "pushing"
        /\ UNCHANGED <<main, branches, evidence, approval, asked, vetted, upstream, job>>
        /\ origin' \in {origin, main}
        /\ Go(e, "deploying") \/ Go(e, "undoing")
    BY <1>5 DEF PushMain, PushMainFails, store_vars, history_vars, bound_vars
  <2> QED
    BY <1>1, <1>2, <2>1, RevisionMove
<1>6. CASE Undo(e)
  <2>1. /\ pc[e] = "undoing" /\ main' = job[e].head
        /\ UNCHANGED <<origin, branches, evidence, approval, asked, vetted, upstream>>
        /\ Go(e, "persisting") /\ Set(e, "result", "main_push_failed")
    BY <1>6 DEF Undo, Finish, store_vars, bound_vars
  <2> QED
    BY <1>1, <1>2, <1>3, <2>1, RevisionMove
<1> QED
  BY <1>4, <1>5, <1>6

-----------------------------------------------------------------------------
(* Branches, the review, and the evidence.                                   *)

(* What these steps have in common: main, origin and the approval stay, the  *)
(* executor's base and head too.                                             *)
LEMMA GrowingMove ==
    ASSUME DecisionInv, Grows, NEW e \in Executors, NEW j \in Jobs, NEW place \in Places,
           UNCHANGED <<main, origin, approval, upstream>>,
           pc' = [pc EXCEPT ![e] = place], job' = [job EXCEPT ![e] = j],
           j.base = job[e].base, j.head = job[e].head,
           branches' \in [Missions -> Seq(Branches)],
           \A m \in Missions : \A n \in DOMAIN branches'[m] :
               \/ n \in DOMAIN branches[m] /\ branches'[m][n].base = branches[m][n].base
               \/ branches'[m][n].base = job[e].base,
           evidence' \in [Missions -> Results], EvidenceOK', PlaceOK(e)'
    PROVE  DecisionInv'
<1>1. /\ pc \in [Executors -> Places] /\ job \in [Executors -> Jobs]
      /\ pc' \in [Executors -> Places] /\ job' \in [Executors -> Jobs]
      /\ pc'[e] = place /\ job'[e] = j
      /\ \A u \in Executors \ {e} : pc'[u] = pc[u] /\ job'[u] = job[u]
  BY DEF DecisionInv, ExecutionTypeOK
<1>2. ExecutionTypeOK'
  BY <1>1 DEF DecisionInv, ExecutionTypeOK
<1>3. AllSound'
  <2>1. AllSound /\ \A r : Sound(r, vetted) => Sound(r, vetted')
    BY SoundFacts DEF DecisionInv, Grows
  <2>2. /\ Sound(main', vetted') /\ Sound(origin', vetted')
        /\ Sound(approval'.before, vetted') /\ Sound(approval'.after, vetted')
    BY <2>1 DEF AllSound
  <2>3. \A u \in Executors : Sound(job'[u].base, vetted') /\ Sound(job'[u].head, vetted')
    BY <1>1, <2>1 DEF AllSound
  <2>4. \A m \in Missions : \A n \in DOMAIN branches'[m] : Sound(branches'[m][n].base, vetted')
    BY <2>1 DEF AllSound
  <2> QED
    BY <2>2, <2>3, <2>4 DEF AllSound
<1>4. \A u \in Executors \ {e} : PlaceOK(u)'
  BY <1>1, OthersKept DEF DecisionInv
<1>5. ApprovedWasAsked'
  BY ApprovalKept DEF DecisionInv, Grows
<1> QED
  BY <1>2, <1>3, <1>4, <1>5 DEF DecisionInv

LEMMA CreateBranchStep ==
    ASSUME DecisionInv, NEW e \in Executors, CreateBranch(e) PROVE DecisionInv'
<1> DEFINE m == job[e].mission
           b == [base |-> job[e].base, committed |-> FALSE, risk |-> job[e].risk]
           j == [job[e] EXCEPT !.branch = Len(branches[m]) + 1]
<1>1. /\ pc[e] = "publishing" /\ job[e] \in Jobs /\ Fits(job[e], pc[e])
      /\ branches \in [Missions -> Seq(Branches)]
  BY DEF CreateBranch, DecisionInv, ExecutionTypeOK, PlaceOK
<1>2. m \in Missions /\ job[e].result # "manual_review_required"
  BY <1>1 DEF Fits
<1>3. b \in Branches
  BY <1>1 DEF Jobs, Branches
<1>4. /\ branches' = [branches EXCEPT ![m] = Append(@, b)]
      /\ pc' = [pc EXCEPT ![e] = "committing"] /\ job' = [job EXCEPT ![e] = j]
      /\ UNCHANGED <<main, origin, approval, upstream, evidence, asked, vetted>>
  BY DEF CreateBranch, Go, Set, store_vars, history_vars, bound_vars
<1>5. \A s \in Seq(Branches) :
         /\ Append(s, b) \in Seq(Branches) /\ DOMAIN s = 1 .. Len(s) /\ Len(s) \in Nat
         /\ DOMAIN Append(s, b) = 1 .. Len(s) + 1
         /\ \A n \in DOMAIN s : Append(s, b)[n] = s[n]
         /\ Append(s, b)[Len(s) + 1] = b
  BY <1>3, AppendProperties
<1>6. /\ branches' \in [Missions -> Seq(Branches)]
      /\ branches'[m] = Append(branches[m], b)
      /\ \A n \in Missions \ {m} : branches'[n] = branches[n]
  BY <1>1, <1>2, <1>4, <1>5
<1>7. Grows
  <2>1. \A n \in DOMAIN branches[m] :
           n \in DOMAIN branches'[m] /\ branches'[m][n] = branches[m][n]
    BY <1>1, <1>2, <1>5, <1>6
  <2> QED
    BY <1>4, <1>6, <2>1 DEF Grows
<1>8. \A k \in Missions : \A n \in DOMAIN branches'[k] :
         \/ n \in DOMAIN branches[k] /\ branches'[k][n].base = branches[k][n].base
         \/ branches'[k][n].base = job[e].base
  <2>1. \A n \in DOMAIN branches'[m] : n \in DOMAIN branches[m] \/ n = Len(branches[m]) + 1
    BY <1>1, <1>2, <1>5, <1>6
  <2>2. \A n \in DOMAIN branches'[m] :
           \/ n \in DOMAIN branches[m] /\ branches'[m][n] = branches[m][n]
           \/ branches'[m][n] = b
    BY <1>1, <1>2, <1>5, <1>6, <2>1
  <2>3. b.base = job[e].base
    OBVIOUS
  <2> HIDE DEF b
  <2> QED
    BY <1>6, <2>2, <2>3
<1>9. Len(branches[m]) + 1 \in Nat /\ Len(branches[m]) + 1 \in DOMAIN branches'[m]
  BY <1>1, <1>2, <1>5, <1>6
<1>10. \A n \in Nat : LET y == [job[e] EXCEPT !.branch = n]
                      IN  /\ y \in Jobs /\ y.base = job[e].base /\ y.head = job[e].head
                          /\ y.mission = m /\ y.result = job[e].result /\ y.branch = n
  BY <1>1 DEF Jobs
<1>11. /\ j \in Jobs /\ j.base = job[e].base /\ j.head = job[e].head
       /\ j.mission = m /\ j.result = job[e].result /\ j.branch = Len(branches[m]) + 1
  BY <1>9, <1>10
<1>12. PlaceOK(e)' /\ "committing" \in Places
  <2>1. job'[e] = j /\ pc'[e] = "committing"
    BY <1>4 DEF DecisionInv, ExecutionTypeOK
  <2>2. /\ job'[e].mission = m /\ job'[e].branch = Len(branches[m]) + 1
        /\ job'[e].result = job[e].result
    BY <1>11, <2>1
  <2> HIDE DEF j, m
  <2> QED
    BY <1>2, <1>9, <2>1, <2>2 DEF PlaceOK, Fits, Places
<1>13. evidence' \in [Missions -> Results] /\ EvidenceOK'
  BY <1>4, <1>7, EvidenceKept DEF DecisionInv, ExecutionTypeOK
<1> HIDE DEF j, m, b
<1> QED
  BY <1>4, <1>6, <1>7, <1>8, <1>11, <1>12, <1>13, GrowingMove

LEMMA CommitStep ==
    ASSUME DecisionInv, NEW e \in Executors, Commit(e) PROVE DecisionInv'
<1> DEFINE m == job[e].mission
           i == job[e].branch
           b == [branches[m][i] EXCEPT !.committed = TRUE]
<1>1. /\ pc[e] = "committing" /\ job[e] \in Jobs /\ Fits(job[e], pc[e])
      /\ branches \in [Missions -> Seq(Branches)] /\ job \in [Executors -> Jobs]
  BY DEF Commit, DecisionInv, ExecutionTypeOK, PlaceOK
<1>2. m \in Missions /\ job[e].result # "manual_review_required" /\ i \in DOMAIN branches[m]
  BY <1>1 DEF Fits
<1>3. branches[m] \in Seq(Branches) /\ i \in 1 .. Len(branches[m])
  BY <1>1, <1>2
<1>4. b \in Branches /\ b.base = branches[m][i].base /\ b.committed
  <2>1. branches[m][i] \in Branches
    BY <1>3
  <2> QED
    BY <2>1 DEF Branches
<1>5. /\ branches' = [branches EXCEPT ![m] = [branches[m] EXCEPT ![i] = b]]
      /\ pc' = [pc EXCEPT ![e] = "sending"] /\ job' = [job EXCEPT ![e] = job[e]]
      /\ UNCHANGED <<main, origin, approval, upstream, evidence, asked, vetted>>
  BY <1>1 DEF Commit, Go, store_vars, history_vars, bound_vars
<1> HIDE DEF b
<1>6. /\ [branches[m] EXCEPT ![i] = b] \in Seq(Branches)
      /\ DOMAIN [branches[m] EXCEPT ![i] = b] = DOMAIN branches[m]
      /\ \A n \in DOMAIN branches[m] :
            [branches[m] EXCEPT ![i] = b][n] = IF n = i THEN b ELSE branches[m][n]
  BY <1>3, <1>4, ExceptSeq
<1>7. /\ branches' \in [Missions -> Seq(Branches)]
      /\ branches'[m] = [branches[m] EXCEPT ![i] = b]
      /\ \A n \in Missions \ {m} : branches'[n] = branches[n]
  BY <1>1, <1>2, <1>5, <1>6
<1>8. /\ DOMAIN branches'[m] = DOMAIN branches[m]
      /\ \A n \in DOMAIN branches[m] :
            branches'[m][n] = IF n = i THEN b ELSE branches[m][n]
  BY <1>6, <1>7
<1>9. Grows
  BY <1>4, <1>5, <1>7, <1>8 DEF Grows
<1>10. \A k \in Missions : \A n \in DOMAIN branches'[k] :
          n \in DOMAIN branches[k] /\ branches'[k][n].base = branches[k][n].base
  BY <1>4, <1>7, <1>8
<1>11. HasCommit(m, i)'
  <2>1. i \in DOMAIN branches'[m] /\ branches'[m][i].committed
    BY <1>2, <1>4, <1>8
  <2> QED
    BY <1>5, <2>1 DEF HasCommit
<1>12. PlaceOK(e)' /\ "sending" \in Places
  <2>1. job'[e] = job[e] /\ pc'[e] = "sending"
    BY <1>1, <1>5 DEF DecisionInv, ExecutionTypeOK
  <2> QED
    BY <1>2, <1>5, <1>11, <2>1 DEF PlaceOK, Fits, Places, HasCommit
<1>13. evidence' \in [Missions -> Results] /\ EvidenceOK'
  BY <1>5, <1>9, EvidenceKept DEF DecisionInv, ExecutionTypeOK
<1>14. PICK j \in Jobs, place \in Places :
         /\ j = job[e] /\ place = "sending" /\ job[e] = j
         /\ pc' = [pc EXCEPT ![e] = place] /\ job' = [job EXCEPT ![e] = j]
  BY <1>1, <1>5, <1>12 DEF DecisionInv, ExecutionTypeOK
<1>15. j.base = job[e].base /\ j.head = job[e].head
  BY <1>14
<1>16. UNCHANGED <<main, origin, approval, upstream>>
  BY <1>5
<1>17. \A k \in Missions : \A n \in DOMAIN branches'[k] :
           \/ n \in DOMAIN branches[k] /\ branches'[k][n].base = branches[k][n].base
           \/ branches'[k][n].base = job[e].base
  BY <1>10
<1> QED
  BY <1>7, <1>9, <1>12, <1>13, <1>14, <1>15, <1>16, <1>17, GrowingMove

(* The review takes a branch that has a commit, and notes its verdict.       *)
LEMMA ReviewStep ==
    ASSUME DecisionInv, NEW e \in Executors, Review(e) PROVE DecisionInv'
<1> DEFINE m == job[e].mission
           n == Newest(m)
           low == [job[e] EXCEPT !.branch = n]
           high == [job[e] EXCEPT !.branch = n, !.result = "manual_review_required"]
<1>1. /\ pc[e] = "reviewing" /\ job[e] \in Jobs /\ Fits(job[e], pc[e])
      /\ pc \in [Executors -> Places] /\ job \in [Executors -> Jobs]
      /\ branches \in [Missions -> Seq(Branches)] /\ evidence \in [Missions -> Results]
  BY DEF Review, DecisionInv, ExecutionTypeOK, PlaceOK
<1>2. m \in Missions /\ HasCommit(m, job[e].branch)
      /\ job[e].result # "manual_review_required"
  BY <1>1 DEF Fits
<1>3. HasCommit(m, n) /\ n \in Nat
  BY <1>2, NewestHasCommit DEF DecisionInv
<1>4. /\ UNCHANGED <<main, origin, approval, upstream, branches, evidence>>
      /\ \/ /\ job' = [job EXCEPT ![e] = low] /\ pc' = [pc EXCEPT ![e] = "accepted"]
            /\ vetted' = vetted \cup {<<m, n>>} /\ asked' = asked
         \/ /\ job' = [job EXCEPT ![e] = high] /\ pc' = [pc EXCEPT ![e] = "persisting"]
            /\ asked' = asked \cup {<<m, n>>} /\ vetted' = vetted
  BY DEF Review, Go, git_vars, store_vars, bound_vars
<1>5. Grows
  BY <1>4 DEF Grows
<1>6. EvidenceOK'
  BY <1>4, <1>5, EvidenceKept DEF DecisionInv
<1>7. \A k \in Nat :
         /\ LET y == [job[e] EXCEPT !.branch = k]
            IN  /\ y \in Jobs /\ y.base = job[e].base /\ y.head = job[e].head
                /\ y.mission = m /\ y.result = job[e].result /\ y.branch = k
         /\ LET y == [job[e] EXCEPT !.branch = k, !.result = "manual_review_required"]
            IN  /\ y \in Jobs /\ y.base = job[e].base /\ y.head = job[e].head
                /\ y.mission = m /\ y.branch = k
  BY <1>1 DEF Jobs, Results
<1>8. /\ low \in Jobs /\ low.base = job[e].base /\ low.head = job[e].head
      /\ low.mission = m /\ low.result = job[e].result /\ low.branch = n
      /\ high \in Jobs /\ high.base = job[e].base /\ high.head = job[e].head
      /\ high.mission = m /\ high.branch = n
  BY <1>3, <1>7
<1>9. {"accepted", "persisting"} \subseteq Places
  BY DEF Places
<1> HIDE DEF low, high, m, n
<1>10. CASE job' = [job EXCEPT ![e] = low] /\ pc' = [pc EXCEPT ![e] = "accepted"]
            /\ vetted' = vetted \cup {<<m, n>>}
  <2>1. job'[e] = low /\ pc'[e] = "accepted"
    BY <1>1, <1>10
  <2>2. PlaceOK(e)'
    BY <1>2, <1>3, <1>4, <1>8, <1>10, <2>1 DEF PlaceOK, Fits, HasCommit
  <2> QED
    BY <1>1, <1>4, <1>5, <1>6, <1>8, <1>9, <1>10, <2>2, GrowingMove
<1>11. CASE job' = [job EXCEPT ![e] = high] /\ pc' = [pc EXCEPT ![e] = "persisting"]
            /\ asked' = asked \cup {<<m, n>>}
  <2>1. job'[e] = high /\ pc'[e] = "persisting"
    BY <1>1, <1>11
  <2>2. PlaceOK(e)'
    BY <1>2, <1>3, <1>4, <1>8, <1>11, <2>1 DEF PlaceOK, Fits, HasCommit
  <2> QED
    BY <1>1, <1>4, <1>5, <1>6, <1>8, <1>9, <1>11, <2>2, GrowingMove
<1> QED
  BY <1>4, <1>10, <1>11

(* Evidence that asks for a human is written by the executor whose review    *)
(* did.                                                                      *)
LEMMA PersistStep ==
    ASSUME DecisionInv, NEW e \in Executors, Persist(e) PROVE DecisionInv'
<1> DEFINE m == job[e].mission
<1>1. /\ pc[e] = "persisting" /\ job[e] \in Jobs /\ Fits(job[e], pc[e])
      /\ pc \in [Executors -> Places] /\ job \in [Executors -> Jobs]
      /\ branches \in [Missions -> Seq(Branches)] /\ evidence \in [Missions -> Results]
  BY DEF Persist, DecisionInv, ExecutionTypeOK, PlaceOK
<1>2. /\ m \in Missions /\ job[e].result \in Results /\ job[e].branch \in Nat
      /\ job[e].result = "manual_review_required" =>
             HasCommit(m, job[e].branch) /\ <<m, job[e].branch>> \in asked
  BY <1>1 DEF Fits, Jobs
<1>3. /\ UNCHANGED <<main, origin, approval, upstream, branches, asked, vetted, job>>
      /\ pc' = [pc EXCEPT ![e] = "settling"]
      /\ evidence' = evidence \/ evidence' = [evidence EXCEPT ![m] = job[e].result]
  BY DEF Persist, Go, git_vars, history_vars
<1>4. Grows
  BY <1>3 DEF Grows
<1>5. evidence' \in [Missions -> Results]
  BY <1>1, <1>2, <1>3
<1>6. EvidenceOK'
  BY <1>1, <1>2, <1>3 DEF DecisionInv, EvidenceOK, HasCommit
<1>7. job' = [job EXCEPT ![e] = job[e]] /\ "settling" \in Places
  BY <1>1, <1>3 DEF Places
<1>8. PlaceOK(e)'
  <2>1. job'[e] = job[e] /\ pc'[e] = "settling"
    BY <1>1, <1>3
  <2> QED
    BY <1>2, <1>3, <2>1 DEF PlaceOK, Fits, HasCommit
<1> QED
  BY <1>1, <1>3, <1>4, <1>5, <1>6, <1>7, <1>8, GrowingMove

-----------------------------------------------------------------------------
(* The reviewer and the rest of the world.                                   *)

LEMMA WorldMove ==
    ASSUME DecisionInv, UNCHANGED <<branches, evidence, pc, job, asked>>,
           vetted \subseteq vetted', upstream' \in Nat,
           main' \in Revisions, origin' \in Revisions, approval' \in Approvals,
           Sound(main', vetted'), Sound(origin', vetted'),
           Sound(approval'.before, vetted'), Sound(approval'.after, vetted'),
           ApprovedWasAsked'
    PROVE  DecisionInv'
<1>1. Grows
  BY DEF Grows
<1>2. ExecutionTypeOK'
  BY DEF DecisionInv, ExecutionTypeOK
<1>3. AllSound'
  <2>1. AllSound /\ \A r : Sound(r, vetted) => Sound(r, vetted')
    BY SoundFacts DEF DecisionInv
  <2> QED
    BY <2>1 DEF AllSound
<1>4. \A u \in Executors : PlaceOK(u)'
  BY <1>1, OthersKept DEF DecisionInv, ExecutionTypeOK
<1>5. EvidenceOK'
  BY <1>1, EvidenceKept DEF DecisionInv
<1> QED
  BY <1>2, <1>3, <1>4, <1>5 DEF DecisionInv

(* All branches of a mission that may be approved point to one revision, so  *)
(* its newest commit is the one a review asked about.                        *)
LEMMA ApprovableWasAsked ==
    ASSUME DecisionInv, NEW m \in Missions, Approvable(m)
    PROVE  HasCommit(m, Newest(m)) /\ Newest(m) \in Nat /\ <<m, Newest(m)>> \in asked
<1>1. PICK n \in Nat : HasCommit(m, n) /\ <<m, n>> \in asked
  BY DEF Approvable, DecisionInv, EvidenceOK
<1>2. HasCommit(m, Newest(m)) /\ Newest(m) \in Nat
  BY <1>1, NewestHasCommit DEF DecisionInv
<1>3. Tip(m, n) = Tip(m, Newest(m))
  <2>1. IsFiniteSet(Tips(m))
    <3>1. branches[m] \in Seq(Branches)
      BY DEF DecisionInv, ExecutionTypeOK
    <3>2. IsFiniteSet(DOMAIN branches[m])
      BY <3>1, FS_Interval
    <3> DEFINE f == [k \in DOMAIN branches[m] |-> Tip(m, k)]
    <3>3. f \in Surjection(DOMAIN branches[m], Tips(m))
      BY DEF Tips, Surjection
    <3> QED
      BY <3>2, <3>3, FS_Surjection
  <2>2. \E t : Tips(m) = {t}
    BY <2>1, FS_Singleton DEF Approvable
  <2> QED
    BY <1>1, <1>2, <2>2 DEF Tips, HasCommit
<1>4. n = Newest(m)
  <2> DEFINE k == Newest(m)
             r == branches[m][n].base
             s == branches[m][k].base
  <2>1. /\ r \in Revisions /\ s \in Revisions
        /\ <<m, n>> \in CommitIds /\ <<m, k>> \in CommitIds
        /\ Append(r, <<m, n>>) = Append(s, <<m, k>>)
    BY <1>1, <1>2, <1>3, TipFacts DEF DecisionInv
  <2>2. \A t \in Revisions, c \in CommitIds :
           Len(Append(t, c)) = Len(t) + 1 /\ Append(t, c)[Len(t) + 1] = c /\ Len(t) \in Nat
    BY AppendProperties DEF Revisions
  <2> HIDE DEF r, s, k
  <2>3. Len(r) = Len(s)
    BY <2>1, <2>2
  <2>4. <<m, n>> = <<m, k>>
    BY <2>1, <2>2, <2>3
  <2> QED
    BY <2>4 DEF k
<1> QED
  BY <1>1, <1>2, <1>4

LEMMA AppendedIsCommit ==
    ASSUME NEW r \in Revisions, NEW c \in CommitIds
    PROVE  c \in Commits(Append(r, c))
<1> DEFINE s == Append(r, c)
           k == Len(r) + 1
<1>1. s \in Seq(CommitIds) /\ Len(s) = k /\ s[k] = c /\ k \in 1 .. k
  BY AppendProperties DEF Revisions
<1>2. k \in DOMAIN s
  BY <1>1
<1> HIDE DEF s, k
<1>3. c \in Commits(s)
  BY <1>1, <1>2 DEF Commits
<1> QED
  BY <1>3 DEF s

LEMMA ApproveStep == ASSUME DecisionInv, NEW m \in Missions, Approve(m) PROVE DecisionInv'
<1> DEFINE c == <<m, Newest(m)>>
           tip == Tip(m, Newest(m))
<1>1. /\ HasCommit(m, Newest(m)) /\ Newest(m) \in Nat /\ c \in asked
  BY ApprovableWasAsked DEF Approve
<1>2. /\ c \in CommitIds /\ tip \in Revisions
      /\ branches[m][Newest(m)].base \in Revisions
      /\ tip = Append(branches[m][Newest(m)].base, c)
  BY <1>1, TipFacts DEF DecisionInv
<1>3. /\ UNCHANGED <<branches, evidence, pc, job, asked, upstream, origin>>
      /\ vetted' = vetted \cup {c}
      /\ \/ UNCHANGED <<main, approval>>
         \/ /\ main' \in {tip, Append(main, c)}
            /\ approval' = [mission |-> m, before |-> main, after |-> main']
  BY DEF Approve, store_vars, bound_vars
<1>4. /\ main \in Revisions /\ origin \in Revisions /\ approval \in Approvals
      /\ upstream \in Nat /\ AllSound /\ ApprovedWasAsked
  BY DEF DecisionInv, ExecutionTypeOK
<1>5. Sound(tip, vetted')
  BY <1>1, <1>3, TipSound
<1>6. /\ Sound(main, vetted') /\ Sound(origin, vetted')
      /\ Sound(approval.before, vetted') /\ Sound(approval.after, vetted')
  BY <1>3, <1>4, SoundFacts DEF AllSound
<1>7. Append(main, c) \in Revisions /\ Sound(Append(main, c), vetted')
  <2>1. Append(main, c) \in Revisions
    BY <1>2, <1>4, AppendProperties DEF Revisions
  <2> QED
    BY <1>2, <1>3, <1>4, <1>6, <2>1, SoundFacts
<1>8. \A r \in Revisions : c \in Commits(Append(r, c))
  BY <1>2, AppendedIsCommit
<1>9. c[1] = m
  OBVIOUS
<1> HIDE DEF c, tip
<1>10. CASE UNCHANGED <<main, approval>>
  <2>1. ApprovedWasAsked'
    BY <1>3, <1>4, <1>10, ApprovalKept
  <2> QED
    BY <1>3, <1>4, <1>6, <1>10, <2>1, WorldMove
<1>11. CASE /\ main' \in {tip, Append(main, c)}
            /\ approval' = [mission |-> m, before |-> main, after |-> main']
  <2>1. main' \in Revisions /\ Sound(main', vetted')
    BY <1>2, <1>5, <1>7, <1>11
  <2>2. approval' \in Approvals /\ approval'.before = main /\ approval'.after = main'
        /\ approval'.mission = m
    BY <1>4, <1>11, <2>1 DEF Approvals
  <2>3. c \in Commits(main')
    BY <1>2, <1>4, <1>8, <1>11
  <2>4. ApprovedWasAsked'
    BY <1>1, <1>3, <1>9, <2>2, <2>3 DEF ApprovedWasAsked, Commits
  <2> QED
    BY <1>3, <1>4, <1>6, <2>1, <2>2, <2>4, WorldMove
<1> QED
  BY <1>3, <1>10, <1>11

LEMMA WorldSteps ==
    ASSUME DecisionInv,
           \/ PublishApproval \/ ApprovalPushFails \/ PushUpstream \/ Pull \/ Soil \/ Tidy
           \/ \E m \in Missions : Intervene(m)
    PROVE  DecisionInv'
<1> USE DEF store_vars, history_vars, bound_vars, git_vars
<1>1. /\ main \in Revisions /\ origin \in Revisions /\ approval \in Approvals
      /\ upstream \in Nat /\ ApprovedWasAsked
      /\ approval.before \in Revisions /\ approval.after \in Revisions
  BY DEF DecisionInv, ExecutionTypeOK, Approvals
<1>2. /\ Sound(main, vetted) /\ Sound(origin, vetted)
      /\ Sound(approval.before, vetted) /\ Sound(approval.after, vetted)
  BY DEF DecisionInv, AllSound
<1>3. CASE PublishApproval \/ ApprovalPushFails
  <2>1. /\ UNCHANGED <<branches, evidence, pc, job, asked, vetted, upstream>>
        /\ origin' \in {origin, main} /\ main' \in {main, approval.before}
        /\ approval' = NoApproval
    BY <1>3 DEF PublishApproval, ApprovalPushFails, TakeBack
  <2>2. NoApproval \in Approvals /\ NoApproval.before = <<>> /\ NoApproval.after = <<>>
    <3>1. <<>> \in Revisions
      BY DEF Revisions
    <3>2. \A r \in Revisions : [mission |-> "none", before |-> r, after |-> r] \in Approvals
      BY DEF Approvals
    <3> QED
      BY <3>1, <3>2 DEF NoApproval
  <2>3. Sound(approval'.before, vetted) /\ Sound(approval'.after, vetted)
    BY <2>1, <2>2, SoundFacts
  <2>4. ApprovedWasAsked'
    BY <2>1 DEF ApprovedWasAsked, NoApproval
  <2> QED
    BY <1>1, <1>2, <2>1, <2>2, <2>3, <2>4, WorldMove
<1>4. CASE PushUpstream
  <2> DEFINE c == <<Upstream, upstream + 1>>
  <2>1. /\ UNCHANGED <<main, branches, evidence, pc, job, asked, vetted, approval>>
        /\ origin' = Append(origin, c) /\ upstream' = upstream + 1
    BY <1>4 DEF PushUpstream
  <2>2. c \in CommitIds /\ c[1] = Upstream /\ upstream + 1 \in Nat
    BY <1>1 DEF CommitIds
  <2> HIDE DEF c
  <2>3. origin' \in Revisions /\ Sound(origin', vetted)
    <3>1. Append(origin, c) \in Revisions
      BY <1>1, <2>2, AppendProperties DEF Revisions
    <3> QED
      BY <1>1, <1>2, <2>1, <2>2, <3>1, SoundFacts
  <2>4. ApprovedWasAsked'
    BY <1>1, <2>1, ApprovalKept
  <2> QED
    BY <1>1, <1>2, <2>1, <2>2, <2>3, <2>4, WorldMove
<1>5. CASE Pull \/ Soil \/ Tidy \/ \E m \in Missions : Intervene(m)
  <2>1. /\ UNCHANGED <<origin, branches, evidence, pc, job, asked, vetted, approval, upstream>>
        /\ main' \in {main, origin}
    BY <1>5 DEF Pull, Soil, Tidy, Intervene
  <2>2. ApprovedWasAsked'
    BY <1>1, <2>1, ApprovalKept
  <2> QED
    BY <1>1, <1>2, <2>1, <2>2, WorldMove
<1> QED
  BY <1>3, <1>4, <1>5

LEMMA DecisionNext == DecisionInv /\ [Next]_vars => DecisionInv'
<1> SUFFICES ASSUME DecisionInv, [Next]_vars PROVE DecisionInv'
  OBVIOUS
<1>1. ASSUME NEW e \in Executors, Step(e) \/ Failure(e) PROVE DecisionInv'
  <2>1. CASE \/ Claim(e) \/ CheckClean(e) \/ Skip(e) \/ CreateWorkspace(e)
             \/ WorkspaceFails(e) \/ GiveUp(e) \/ AdapterReturns(e)
    BY <2>1, RoutingSteps
  <2>2. CASE \/ CreateBranchFails(e) \/ CommitFails(e) \/ SendBranch(e) \/ SendBranchFails(e)
             \/ RemoveWorkspace(e) \/ RemoveFails(e) \/ Judge(e) \/ ReadHead(e)
             \/ UndoFails(e) \/ Deploy(e) \/ Settle(e) \/ Crash(e) \/ Restart(e)
    BY <2>2, AttemptSteps
  <2>3. CASE FastForward(e) \/ PushMain(e) \/ PushMainFails(e) \/ Undo(e)
    BY <2>3, MergeSteps
  <2>4. CASE CreateBranch(e) \/ Commit(e) \/ Review(e) \/ Persist(e)
    BY <2>4, CreateBranchStep, CommitStep, ReviewStep, PersistStep
  <2> QED
    BY <1>1, <2>1, <2>2, <2>3, <2>4 DEF Step, Failure
<1>2. ASSUME NEW m \in Missions, Approve(m) PROVE DecisionInv'
  BY <1>2, ApproveStep
<1>3. CASE \/ PublishApproval \/ ApprovalPushFails \/ PushUpstream \/ Pull \/ Soil \/ Tidy
           \/ \E m \in Missions : Intervene(m)
  BY <1>3, WorldSteps
<1>4. CASE UNCHANGED vars
  <2>1. UNCHANGED <<branches, evidence, pc, job, asked, vetted, upstream, main, origin, approval>>
    BY <1>4 DEF vars, git_vars, store_vars, history_vars, bound_vars
  <2> QED
    BY <2>1, ApprovalKept, WorldMove DEF DecisionInv, ExecutionTypeOK, AllSound
<1> QED
  BY <1>1, <1>2, <1>3, <1>4 DEF Next

(* Whatever executors, reviewers, operators and faults do, only vetted       *)
(* commits reach origin, and only what a review asked about is approved.     *)
THEOREM DecisionsAlwaysHold == Spec => []DecisionsHold
<1>1. DecisionInv => DecisionsHold
  <2> SUFFICES ASSUME DecisionInv PROVE DecisionsHold
    OBVIOUS
  <2>1. Sound(origin, vetted) /\ ApprovedWasAsked
    BY DEF DecisionInv, AllSound
  <2>2. OnlyVettedPublished
    BY <2>1 DEF OnlyVettedPublished, Sound, Commits
  <2> QED
    BY <2>1, <2>2 DEF DecisionsHold
<1> QED
  BY DecisionInit, DecisionNext, <1>1, PTL DEF Spec

-----------------------------------------------------------------------------
(* What executions leave behind.                                             *)

(* Who has this job and is at this place may still create a branch for m.    *)
Tries(j, place, m) ==
    /\ j.mission = m
    /\ \/ place \in {"starting", "routing", "running", "publishing"}
       \/ place \in {"cleaning", "judging"} /\ CanFailover(j.result)

(* Who has this job and is at this place has a worktree of m.                *)
Uses(j, place, m) ==
    /\ j.mission = m
    /\ place \in {"running", "publishing", "committing", "sending", "cleaning"}

Credit(e, m) == IF Tries(job[e], pc[e], m) THEN 1 ELSE 0

Held(e, m) == IF Uses(job[e], pc[e], m) THEN 1 ELSE 0

Trying(m) == {e \in Executors : Tries(job[e], pc[e], m)}

Mishaps == faults \cap {"crash", "cleanup"}

HasChanges(e) ==
    pc[e] \in {"publishing", "committing", "sending"} => job[e].result = "changes"

(* An execution may create one branch, and another one only after a          *)
(* publication that left one behind and failed.                              *)
LeftoversInv ==
    /\ executions \in [Missions -> Nat] /\ broken \in [Missions -> Nat]
    /\ worktrees \in [Missions -> Int]
    /\ \A e \in Executors : HasChanges(e)
    /\ \A m \in Missions :
          Len(branches[m]) + Cardinality(Trying(m)) <= executions[m] + broken[m]
    /\ \A m \in Missions :
          worktrees[m] <= Cardinality(InUse(m)) + Cardinality(Mishaps)

(* No other executor moves.                                                  *)
Only(e) == \A u \in Executors \ {e} : pc'[u] = pc[u] /\ job'[u] = job[u]

LEMMA OnlyOne ==
    ASSUME DecisionInv, NEW e \in Executors, Step(e) \/ Failure(e)
    PROVE  Only(e)
<1>1. pc \in [Executors -> Places] /\ job \in [Executors -> Jobs]
  BY DEF DecisionInv, ExecutionTypeOK
<1>2. \A x : Go(e, x) => \A u \in Executors \ {e} : pc'[u] = pc[u]
  BY <1>1 DEF Go
<1>3. \A f, x : Set(e, f, x) => \A u \in Executors \ {e} : job'[u] = job[u]
  BY <1>1 DEF Set
<1>4. \A x : job' = [job EXCEPT ![e] = x] => \A u \in Executors \ {e} : job'[u] = job[u]
  BY <1>1
<1>5. \A x : Finish(e, x) => Only(e)
  BY <1>2, <1>3 DEF Finish, Only
<1>6. CASE Claim(e) \/ CheckClean(e) \/ Skip(e) \/ WorkspaceFails(e) \/ GiveUp(e)
  BY <1>2, <1>3, <1>4, <1>5, <1>6 DEF Claim, CheckClean, Skip, WorkspaceFails, GiveUp, Only
<1>7. CASE CreateWorkspace(e) \/ AdapterReturns(e) \/ Review(e)
  BY <1>1, <1>2, <1>7 DEF CreateWorkspace, AdapterReturns, Review, Only
<1>8. CASE CreateBranch(e) \/ CreateBranchFails(e) \/ Commit(e) \/ CommitFails(e)
           \/ SendBranch(e) \/ SendBranchFails(e) \/ RemoveWorkspace(e) \/ RemoveFails(e)
  BY <1>2, <1>3, <1>8
  DEF CreateBranch, CreateBranchFails, Commit, CommitFails, SendBranch, SendBranchFails,
      RemoveWorkspace, RemoveFails, Unpublished, BranchBreaks, Only
<1>9. CASE Judge(e) \/ ReadHead(e) \/ FastForward(e) \/ PushMain(e) \/ PushMainFails(e)
           \/ Undo(e) \/ UndoFails(e) \/ Deploy(e)
  BY <1>2, <1>3, <1>5, <1>9
  DEF Judge, ReadHead, FastForward, PushMain, PushMainFails, Undo, UndoFails, Deploy, Only
<1>10. CASE Persist(e) \/ Settle(e) \/ Crash(e) \/ Restart(e)
  BY <1>2, <1>4, <1>10 DEF Persist, Settle, Crash, Restart, Only
<1> QED
  BY <1>6, <1>7, <1>8, <1>9, <1>10 DEF Step, Failure

(* What one executor more or less is worth.                                  *)
LEMMA CountOne ==
    ASSUME IsFiniteSet(Executors), NEW e \in Executors,
           NEW A \in SUBSET Executors, NEW B \in SUBSET Executors,
           \A u \in Executors \ {e} : u \in A <=> u \in B
    PROVE  /\ Cardinality(A) \in Nat /\ Cardinality(B) \in Nat
           /\ Cardinality(B) + (IF e \in A THEN 1 ELSE 0) = Cardinality(A) + (IF e \in B THEN 1 ELSE 0)
<1>1. IsFiniteSet(A) /\ IsFiniteSet(B)
  BY FS_Subset
<1>2. Cardinality(A) \in Nat /\ Cardinality(B) \in Nat
  BY <1>1, FS_CardinalityType
<1>3. A \ {e} = B \ {e}
  OBVIOUS
<1>4. Cardinality(A \ {e}) = IF e \in A THEN Cardinality(A) - 1 ELSE Cardinality(A)
  BY <1>1, FS_RemoveElement
<1>5. Cardinality(B \ {e}) = IF e \in B THEN Cardinality(B) - 1 ELSE Cardinality(B)
  BY <1>1, FS_RemoveElement
<1> QED
  BY <1>2, <1>3, <1>4, <1>5

(* A mishap counts once.                                                     *)
LEMMA MishapCounts ==
    /\ Cardinality(Mishaps) \in Nat /\ Cardinality(Mishaps)' \in Nat
    /\ faults \subseteq faults' => Cardinality(Mishaps) <= Cardinality(Mishaps)'
    /\ \A kind \in {"crash", "cleanup"} :
          Fault(kind) => Cardinality(Mishaps)' = Cardinality(Mishaps) + 1
<1>1. IsFiniteSet({"crash", "cleanup"})
  <2>1. IsFiniteSet({"crash"} \cup {"cleanup"})
    BY FS_Singleton, FS_AddElement
  <2>2. {"crash"} \cup {"cleanup"} = {"crash", "cleanup"}
    OBVIOUS
  <2> QED
    BY <2>1, <2>2
<1>2. IsFiniteSet(Mishaps) /\ IsFiniteSet(Mishaps')
  <2>1. Mishaps \in SUBSET {"crash", "cleanup"} /\ Mishaps' \in SUBSET {"crash", "cleanup"}
    BY DEF Mishaps
  <2> QED
    BY <1>1, <2>1, FS_Subset
<1>3. Cardinality(Mishaps) \in Nat /\ Cardinality(Mishaps') \in Nat
  BY <1>2, FS_CardinalityType
<1>4. faults \subseteq faults' => Cardinality(Mishaps) <= Cardinality(Mishaps')
  <2>1. faults \subseteq faults' => Mishaps \in SUBSET Mishaps'
    BY DEF Mishaps
  <2> QED
    BY <1>2, <2>1, FS_Subset
<1>5. ASSUME NEW kind \in {"crash", "cleanup"}, Fault(kind)
      PROVE  Cardinality(Mishaps') = Cardinality(Mishaps) + 1
  <2>1. Mishaps' = Mishaps \cup {kind} /\ kind \notin Mishaps
    BY <1>5 DEF Fault, Mishaps
  <2> QED
    BY <1>2, <2>1, FS_AddElement
<1> QED
  BY <1>3, <1>4, <1>5

(* The executors that try a mission, counted before and after a step of one. *)
LEMMA TryingCounts ==
    ASSUME IsFiniteSet(Executors), NEW e \in Executors, Only(e), NEW m \in Missions
    PROVE  /\ Cardinality(Trying(m)) \in Nat /\ Cardinality(Trying(m)') \in Nat
           /\ Cardinality(Trying(m)') + Credit(e, m) = Cardinality(Trying(m)) + Credit(e, m)'
<1>1. PICK A \in SUBSET Executors, B \in SUBSET Executors : A = Trying(m) /\ B = Trying(m)'
  BY DEF Trying
<1>2. \A u \in Executors \ {e} : u \in A <=> u \in B
  BY <1>1 DEF Trying, Only
<1>3. /\ Credit(e, m) = (IF e \in A THEN 1 ELSE 0)
      /\ Credit(e, m)' = (IF e \in B THEN 1 ELSE 0)
  BY <1>1 DEF Trying, Credit
<1>4. /\ Cardinality(A) \in Nat /\ Cardinality(B) \in Nat
      /\ Cardinality(B) + (IF e \in A THEN 1 ELSE 0)
             = Cardinality(A) + (IF e \in B THEN 1 ELSE 0)
  BY <1>2, CountOne
<1> QED
  BY <1>1, <1>3, <1>4

(* The same for the executors that use a mission's worktree.                 *)
LEMMA InUseCounts ==
    ASSUME IsFiniteSet(Executors), NEW e \in Executors, Only(e), NEW m \in Missions
    PROVE  /\ Cardinality(InUse(m)) \in Nat /\ Cardinality(InUse(m)') \in Nat
           /\ Cardinality(InUse(m)') + Held(e, m) = Cardinality(InUse(m)) + Held(e, m)'
<1>1. PICK A \in SUBSET Executors, B \in SUBSET Executors : A = InUse(m) /\ B = InUse(m)'
  BY DEF InUse
<1>2. \A u \in Executors \ {e} : u \in A <=> u \in B
  BY <1>1 DEF InUse, Uses, Only
<1>3. /\ Held(e, m) = (IF e \in A THEN 1 ELSE 0)
      /\ Held(e, m)' = (IF e \in B THEN 1 ELSE 0)
  BY <1>1 DEF InUse, Uses, Held
<1>4. /\ Cardinality(A) \in Nat /\ Cardinality(B) \in Nat
      /\ Cardinality(B) + (IF e \in A THEN 1 ELSE 0)
             = Cardinality(A) + (IF e \in B THEN 1 ELSE 0)
  BY <1>2, CountOne
<1> QED
  BY <1>1, <1>3, <1>4

(* The two accounts of a step of one executor: branches it creates against   *)
(* executions and failed publications, worktrees against its own use of one  *)
(* and mishaps.                                                              *)
LEMMA LeftoversMove ==
    ASSUME IsFiniteSet(Executors), LeftoversInv, NEW e \in Executors, Only(e),
           executions' \in [Missions -> Nat], broken' \in [Missions -> Nat],
           worktrees' \in [Missions -> Int], HasChanges(e)',
           \A m \in Missions : Len(branches[m]) \in Nat /\ Len(branches[m])' \in Nat,
           \A m \in Missions :
               Len(branches[m])' + Credit(e, m)' + executions[m] + broken[m]
                   <= Len(branches[m]) + Credit(e, m)
                          + executions'[m] + broken'[m],
           \A m \in Missions :
               worktrees'[m] + Held(e, m) + Cardinality(Mishaps)
                   <= worktrees[m] + Held(e, m)' + Cardinality(Mishaps')
    PROVE  LeftoversInv'
<1>1. /\ executions \in [Missions -> Nat] /\ broken \in [Missions -> Nat]
      /\ worktrees \in [Missions -> Int]
      /\ \A u \in Executors : HasChanges(u)
  BY DEF LeftoversInv
<1>2. \A u \in Executors : HasChanges(u)'
  <2> SUFFICES ASSUME NEW u \in Executors \ {e} PROVE HasChanges(u)'
    OBVIOUS
  <2> QED
    BY <1>1 DEF Only, HasChanges
<1>3. ASSUME NEW m \in Missions
      PROVE  Len(branches[m])' + Cardinality(Trying(m)') <= executions'[m] + broken'[m]
  <2>2. /\ Cardinality(Trying(m)) \in Nat /\ Cardinality(Trying(m)') \in Nat
        /\ Cardinality(Trying(m)') + Credit(e, m) = Cardinality(Trying(m)) + Credit(e, m)'
    BY TryingCounts
  <2>3. Credit(e, m) \in Nat /\ Credit(e, m)' \in Nat
    BY DEF Credit
  <2>4. Len(branches[m]) + Cardinality(Trying(m)) <= executions[m] + broken[m]
    BY DEF LeftoversInv
  <2>5. /\ executions[m] \in Nat /\ broken[m] \in Nat
        /\ executions'[m] \in Nat /\ broken'[m] \in Nat
        /\ Len(branches[m]) \in Nat /\ Len(branches[m])' \in Nat
    BY <1>1
  <2>6. Len(branches[m])' + Credit(e, m)' + executions[m] + broken[m]
            <= Len(branches[m]) + Credit(e, m) + executions'[m] + broken'[m]
    OBVIOUS
  <2>7. PICK b \in Nat, bb \in Nat, t \in Nat, tt \in Nat, x \in Nat, xx \in Nat,
             c \in Nat, cc \in Nat, k \in Nat, kk \in Nat :
          /\ b = Len(branches[m]) /\ bb = Len(branches[m])'
          /\ t = Cardinality(Trying(m)) /\ tt = Cardinality(Trying(m)')
          /\ x = executions[m] /\ xx = executions'[m]
          /\ c = Credit(e, m) /\ cc = Credit(e, m)'
          /\ k = broken[m] /\ kk = broken'[m]
    BY <2>2, <2>3, <2>5
  <2>8. b + t <= x + k /\ tt + c = t + cc /\ bb + cc + x + k <= b + c + xx + kk
    BY <2>2, <2>4, <2>6, <2>7
  <2>9. bb + tt <= xx + kk
    BY <2>8
  <2> QED
    BY <2>7, <2>9
<1>4. ASSUME NEW m \in Missions
      PROVE  worktrees'[m] <= Cardinality(InUse(m)') + Cardinality(Mishaps')
  <2>2. /\ Cardinality(InUse(m)) \in Nat /\ Cardinality(InUse(m)') \in Nat
        /\ Cardinality(InUse(m)') + Held(e, m) = Cardinality(InUse(m)) + Held(e, m)'
    BY InUseCounts
  <2>3. Held(e, m) \in Nat /\ Held(e, m)' \in Nat
    BY DEF Held
  <2>4. worktrees[m] <= Cardinality(InUse(m)) + Cardinality(Mishaps)
    BY DEF LeftoversInv
  <2>5. worktrees[m] \in Int /\ worktrees'[m] \in Int
        /\ Cardinality(Mishaps) \in Nat /\ Cardinality(Mishaps') \in Nat
    BY <1>1, MishapCounts
  <2>6. worktrees'[m] + Held(e, m) + Cardinality(Mishaps)
            <= worktrees[m] + Held(e, m)' + Cardinality(Mishaps')
    OBVIOUS
  <2>7. PICK w \in Int, ww \in Int, u \in Nat, uu \in Nat, h \in Nat, hh \in Nat,
             k \in Nat, kk \in Nat :
          /\ w = worktrees[m] /\ ww = worktrees'[m]
          /\ u = Cardinality(InUse(m)) /\ uu = Cardinality(InUse(m)')
          /\ h = Held(e, m) /\ hh = Held(e, m)'
          /\ k = Cardinality(Mishaps) /\ kk = Cardinality(Mishaps')
    BY <2>2, <2>3, <2>5
  <2>8. w <= u + k /\ uu + h = u + hh /\ ww + h + k <= w + hh + kk
    BY <2>2, <2>4, <2>6, <2>7
  <2>9. ww <= uu + kk
    BY <2>8
  <2> QED
    BY <2>7, <2>9
<1> QED
  BY <1>2, <1>3, <1>4 DEF LeftoversInv

(* It leaves nothing more behind than before.                                *)
LEMMA LeavesNothing ==
    ASSUME IsFiniteSet(Executors), DecisionInv, LeftoversInv, NEW e \in Executors, Only(e),
           UNCHANGED <<executions, broken, worktrees>>, faults \subseteq faults',
           \A m \in Missions : Len(branches[m])' = Len(branches[m]),
           \A m \in Missions : Tries(job[e], pc[e], m)' => Tries(job[e], pc[e], m),
           \A m \in Missions : Uses(job[e], pc[e], m) => Uses(job[e], pc[e], m)',
           HasChanges(e)'
    PROVE  LeftoversInv'
<1>1. /\ executions \in [Missions -> Nat] /\ broken \in [Missions -> Nat]
      /\ worktrees \in [Missions -> Int]
  BY DEF LeftoversInv
<1>2. \A m \in Missions : Len(branches[m]) \in Nat
  BY DEF DecisionInv, ExecutionTypeOK
<1>3. /\ Cardinality(Mishaps) \in Nat /\ Cardinality(Mishaps') \in Nat
      /\ Cardinality(Mishaps) <= Cardinality(Mishaps')
  BY MishapCounts
<1>4. \A m \in Missions :
          /\ Credit(e, m) \in Nat /\ Credit(e, m)' \in Nat
          /\ Credit(e, m)' <= Credit(e, m)
  BY DEF Credit, Held
<1>5. \A m \in Missions :
          /\ Held(e, m) \in Nat /\ Held(e, m)' \in Nat
          /\ Held(e, m) <= Held(e, m)'
  BY DEF Credit, Held
<1>6. \A m \in Missions :
          executions[m] \in Nat /\ broken[m] \in Nat /\ worktrees[m] \in Int
  BY <1>1
<1>7. \A m \in Missions :
          Len(branches[m])' + Credit(e, m)' + executions[m] + broken[m]
              <= Len(branches[m]) + Credit(e, m) + executions'[m] + broken'[m]
  <2> TAKE m \in Missions
  <2>1. PICK b \in Nat, c \in Nat, cc \in Nat, x \in Nat, k \in Nat :
          /\ b = Len(branches[m]) /\ c = Credit(e, m) /\ cc = Credit(e, m)'
          /\ x = executions[m] /\ k = broken[m]
    BY <1>2, <1>4, <1>6
  <2>a. cc <= c
    BY <1>4, <2>1
  <2>2. b + cc + x + k <= b + c + x + k
    BY <2>a
  <2>3. executions'[m] = x /\ broken'[m] = k /\ Len(branches[m])' = b
    BY <2>1
  <2> QED
    BY <2>1, <2>2, <2>3
<1>8. \A m \in Missions :
          worktrees'[m] + Held(e, m) + Cardinality(Mishaps)
              <= worktrees[m] + Held(e, m)' + Cardinality(Mishaps')
  <2> TAKE m \in Missions
  <2>1. PICK w \in Int, h \in Nat, hh \in Nat, k \in Nat, kk \in Nat :
          /\ w = worktrees[m] /\ h = Held(e, m) /\ hh = Held(e, m)'
          /\ k = Cardinality(Mishaps) /\ kk = Cardinality(Mishaps)'
    BY <1>3, <1>5, <1>6
  <2>a. h <= hh /\ k <= kk
    BY <1>3, <1>5, <2>1
  <2>2. w + h + k <= w + hh + kk
    BY <2>a
  <2>3. worktrees'[m] = w
    BY <2>1
  <2> QED
    BY <2>1, <2>2, <2>3
<1> QED
  BY <1>1, <1>2, <1>7, <1>8, LeftoversMove

(* The steps that neither create nor lose anything.                          *)
LEMMA QuietLeftovers ==
    ASSUME IsFiniteSet(Executors), DecisionInv, LeftoversInv, NEW e \in Executors,
           \/ CheckClean(e) \/ Skip(e) \/ WorkspaceFails(e) \/ GiveUp(e) \/ AdapterReturns(e)
           \/ CreateBranchFails(e) \/ SendBranch(e) \/ Judge(e) \/ Review(e) \/ ReadHead(e)
           \/ FastForward(e) \/ PushMain(e) \/ PushMainFails(e) \/ Undo(e) \/ UndoFails(e)
           \/ Deploy(e) \/ Persist(e) \/ Settle(e) \/ Restart(e)
    PROVE  LeftoversInv'
<1> USE DEF git_vars, store_vars, history_vars, bound_vars
<1>1. /\ pc \in [Executors -> Places] /\ job \in [Executors -> Jobs] /\ job[e] \in Jobs
      /\ pc[e] \notin {"idle", "down"} => job[e].mission \in Missions
  BY DEF DecisionInv, ExecutionTypeOK, PlaceOK, Fits
<1>2. Only(e)
  BY OnlyOne DEF Step, Failure
<1>3. HasChanges(e)
  BY DEF LeftoversInv
<1>g. \A x : Go(e, x) => pc'[e] = x
  BY <1>1 DEF Go
<1>s. \A r : Set(e, "result", r) =>
                 job'[e].mission = job[e].mission /\ job'[e].result = r
  BY <1>1 DEF Set, Jobs
<1>f. \A r : Finish(e, r) => pc'[e] = "persisting"
  BY <1>g DEF Finish
<1>4. CASE \/ CheckClean(e) \/ Skip(e) \/ WorkspaceFails(e) \/ GiveUp(e)
  <2>1. /\ UNCHANGED <<executions, broken, worktrees, faults, branches>>
        /\ pc[e] \in {"starting", "routing"} /\ pc'[e] \in {"routing", "persisting"}
    BY <1>4, <1>f, <1>g DEF CheckClean, Skip, WorkspaceFails, GiveUp
  <2>2. pc'[e] = "routing" => job'[e].mission = job[e].mission
    BY <1>1, <1>4, <1>f DEF CheckClean, Skip, WorkspaceFails, GiveUp, Set, Jobs
  <2>3. /\ \A m \in Missions : Tries(job[e], pc[e], m)' => Tries(job[e], pc[e], m)
        /\ \A m \in Missions : Uses(job[e], pc[e], m) => Uses(job[e], pc[e], m)'
    BY <2>1, <2>2 DEF Tries, Uses
  <2>4. HasChanges(e)'
    BY <2>1 DEF HasChanges
  <2> QED
    BY <1>2, <2>1, <2>3, <2>4, LeavesNothing
<1>5. CASE AdapterReturns(e) \/ CreateBranchFails(e)
  <2>a. /\ UNCHANGED <<executions, broken, worktrees, branches>> /\ faults \subseteq faults'
        /\ pc[e] \in {"running", "publishing"}
    BY <1>5 DEF AdapterReturns, CreateBranchFails, Fault
  <2>b. ASSUME AdapterReturns(e)
        PROVE  /\ pc'[e] \in {"publishing", "cleaning"} /\ job'[e].mission = job[e].mission
               /\ pc'[e] = "publishing" => job'[e].result = "changes"
    <3>1. PICK outcome \in Outcomes, risk \in {"low", "high"} :
              /\ job' = [job EXCEPT ![e].result = outcome, ![e].risk = risk]
              /\ Go(e, IF outcome = "changes" THEN "publishing" ELSE "cleaning")
      BY <2>b DEF AdapterReturns
    <3>2. pc'[e] = IF outcome = "changes" THEN "publishing" ELSE "cleaning"
      BY <1>g, <3>1
    <3>3. job'[e].mission = job[e].mission /\ job'[e].result = outcome
      BY <1>1, <3>1 DEF Jobs
    <3> QED
      BY <3>2, <3>3
  <2>c. ASSUME CreateBranchFails(e)
        PROVE  /\ pc'[e] \in {"publishing", "cleaning"} /\ job'[e].mission = job[e].mission
               /\ pc'[e] = "publishing" => job'[e].result = "changes"
    BY <1>g, <1>s, <2>c DEF CreateBranchFails, Unpublished
  <2>1. /\ UNCHANGED <<executions, broken, worktrees, branches>> /\ faults \subseteq faults'
        /\ pc[e] \in {"running", "publishing"} /\ pc'[e] \in {"publishing", "cleaning"}
        /\ job'[e].mission = job[e].mission
        /\ pc'[e] = "publishing" => job'[e].result = "changes"
    BY <1>5, <2>a, <2>b, <2>c
  <2>2. /\ \A m \in Missions : Tries(job[e], pc[e], m)' => Tries(job[e], pc[e], m)
        /\ \A m \in Missions : Uses(job[e], pc[e], m) => Uses(job[e], pc[e], m)'
    BY <2>1 DEF Tries, Uses
  <2>3. HasChanges(e)'
    BY <2>1 DEF HasChanges
  <2> QED
    BY <1>2, <2>1, <2>2, <2>3, LeavesNothing
<1>6. CASE SendBranch(e)
  <2>1. /\ UNCHANGED <<executions, broken, worktrees, faults, branches, job>>
        /\ pc[e] = "sending" /\ pc'[e] = "cleaning"
    BY <1>6, <1>g DEF SendBranch
  <2>2. /\ \A m \in Missions : ~Tries(job[e], pc[e], m)'
        /\ \A m \in Missions : Uses(job[e], pc[e], m) => Uses(job[e], pc[e], m)'
    BY <1>3, <2>1 DEF Tries, Uses, HasChanges, CanFailover
  <2>3. HasChanges(e)'
    BY <2>1 DEF HasChanges
  <2> QED
    BY <1>2, <2>1, <2>2, <2>3, LeavesNothing
<1>7. CASE Judge(e)
  <2>1. /\ UNCHANGED <<executions, broken, worktrees, faults, branches>>
        /\ pc[e] = "judging"
        /\ \/ pc'[e] \in {"persisting", "reviewing"}
           \/ pc'[e] = "routing" /\ CanFailover(job[e].result) /\ job' = job
    BY <1>7, <1>f, <1>g DEF Judge
  <2>2. /\ \A m \in Missions : Tries(job[e], pc[e], m)' => Tries(job[e], pc[e], m)
        /\ \A m \in Missions : Uses(job[e], pc[e], m) => Uses(job[e], pc[e], m)'
    BY <2>1 DEF Tries, Uses
  <2>3. HasChanges(e)'
    BY <2>1 DEF HasChanges
  <2> QED
    BY <1>2, <2>1, <2>2, <2>3, LeavesNothing
<1>8. CASE \/ Review(e) \/ ReadHead(e) \/ FastForward(e) \/ PushMain(e) \/ PushMainFails(e)
           \/ Undo(e) \/ UndoFails(e) \/ Deploy(e) \/ Persist(e) \/ Settle(e) \/ Restart(e)
  <2>1. /\ UNCHANGED <<executions, broken, worktrees, branches>> /\ faults \subseteq faults'
        /\ pc[e] \in {"reviewing", "accepted", "merging", "pushing", "undoing", "deploying",
                      "persisting", "settling", "down"}
        /\ pc'[e] \in {"accepted", "merging", "pushing", "undoing", "deploying",
                       "persisting", "settling", "idle", "down"}
    <3>1. CASE \/ Review(e) \/ ReadHead(e) \/ FastForward(e) \/ PushMain(e)
               \/ PushMainFails(e)
      BY <1>f, <1>g, <3>1
      DEF Review, ReadHead, FastForward, PushMain, PushMainFails, Fault
    <3>2. CASE \/ Undo(e) \/ UndoFails(e) \/ Deploy(e) \/ Persist(e) \/ Settle(e)
               \/ Restart(e)
      BY <1>f, <1>g, <3>2 DEF Undo, UndoFails, Deploy, Persist, Settle, Restart, Fault
    <3> QED
      BY <1>8, <3>1, <3>2
  <2>2. /\ \A m \in Missions : ~Tries(job[e], pc[e], m)'
        /\ \A m \in Missions : ~Uses(job[e], pc[e], m)
    BY <2>1 DEF Tries, Uses
  <2>3. HasChanges(e)'
    BY <2>1 DEF HasChanges
  <2> QED
    BY <1>2, <2>1, <2>2, <2>3, LeavesNothing
<1> QED
  BY <1>4, <1>5, <1>6, <1>7, <1>8

(* A new execution.                                                          *)
LEMMA ClaimLeftovers ==
    ASSUME IsFiniteSet(Executors), DecisionInv, LeftoversInv, NEW e \in Executors, Claim(e)
    PROVE  LeftoversInv'
<1> USE DEF git_vars, store_vars, bound_vars
<1>1. /\ pc \in [Executors -> Places] /\ job \in [Executors -> Jobs]
      /\ executions \in [Missions -> Nat] /\ broken \in [Missions -> Nat]
      /\ worktrees \in [Missions -> Int]
      /\ \A m \in Missions : Len(branches[m]) \in Nat
  BY DEF DecisionInv, ExecutionTypeOK, LeftoversInv
<1>2. Only(e)
  BY OnlyOne DEF Step
<1>3. PICK k \in Missions :
         /\ executions' = [executions EXCEPT ![k] = @ + 1]
         /\ job' = [job EXCEPT ![e] = [NoJob EXCEPT
                        !.mission = k,
                        !.result = IF k \in Protected THEN "refused" ELSE "none"]]
         /\ Go(e, IF k \in Protected THEN "persisting" ELSE "starting")
  BY DEF Claim
<1>4. /\ UNCHANGED <<broken, worktrees, faults, branches>> /\ pc[e] = "idle"
      /\ pc'[e] \in {"starting", "persisting"} /\ job'[e].mission = k
  BY <1>1, <1>3 DEF Claim, Go, NoJob
<1>5. executions' \in [Missions -> Nat]
      /\ \A m \in Missions : executions'[m] = executions[m] + (IF m = k THEN 1 ELSE 0)
  BY <1>1, <1>3 DEF Credit, Held
<1>6. \A m \in Missions :
          /\ Credit(e, m) = 0
          /\ Credit(e, m)' \in Nat
          /\ Credit(e, m)' <= (IF m = k THEN 1 ELSE 0) /\ (IF m = k THEN 1 ELSE 0) \in Nat
          /\ Held(e, m) = 0 /\ Held(e, m)' = 0
  BY <1>4 DEF Tries, Uses, Credit, Held
<1>7. HasChanges(e)'
  BY <1>4 DEF HasChanges
<1>8. \A m \in Missions :
          Len(branches[m])' + Credit(e, m)' + executions[m] + broken[m]
              <= Len(branches[m]) + Credit(e, m) + executions'[m] + broken'[m]
  <2> TAKE m \in Missions
  <2>1. /\ executions[m] \in Nat /\ broken[m] \in Nat /\ Len(branches[m]) \in Nat
        /\ broken'[m] = broken[m] /\ Len(branches[m])' = Len(branches[m])
    BY <1>1, <1>4
  <2>2. PICK x \in Nat : x = IF m = k THEN 1 ELSE 0
    OBVIOUS
  <2>3. /\ executions'[m] = executions[m] + x
        /\ Credit(e, m) = 0 /\ Credit(e, m)' \in Nat /\ Credit(e, m)' <= x
    BY <1>5, <1>6, <2>2
  <2> QED
    BY <2>1, <2>2, <2>3
<1>9. \A m \in Missions :
          worktrees'[m] + Held(e, m) + Cardinality(Mishaps)
              <= worktrees[m] + Held(e, m)' + Cardinality(Mishaps')
  <2> TAKE m \in Missions
  <2>1. worktrees[m] \in Int /\ Cardinality(Mishaps) \in Nat /\ Mishaps' = Mishaps
    BY <1>1, <1>4, MishapCounts DEF Mishaps
  <2> QED
    BY <1>4, <1>6, <2>1
<1> QED
  BY <1>1, <1>2, <1>4, <1>5, <1>7, <1>8, <1>9, LeftoversMove

(* A worktree comes and goes; a mishap leaves it.                            *)
LEMMA WorktreeLeftovers ==
    ASSUME IsFiniteSet(Executors), DecisionInv, LeftoversInv, NEW e \in Executors,
           CreateWorkspace(e) \/ RemoveWorkspace(e) \/ RemoveFails(e) \/ Crash(e)
    PROVE  LeftoversInv'
<1> USE DEF git_vars, store_vars, history_vars, bound_vars
<1>1. /\ pc \in [Executors -> Places] /\ job \in [Executors -> Jobs] /\ job[e] \in Jobs
      /\ executions \in [Missions -> Nat] /\ broken \in [Missions -> Nat]
      /\ worktrees \in [Missions -> Int]
      /\ \A m \in Missions : Len(branches[m]) \in Nat
      /\ pc[e] \notin {"idle", "down"} => job[e].mission \in Missions
  <2>1. /\ pc \in [Executors -> Places] /\ job \in [Executors -> Jobs]
        /\ branches \in [Missions -> Seq(Branches)]
    BY DEF DecisionInv, ExecutionTypeOK
  <2>2. pc[e] \notin {"idle", "down"} => job[e].mission \in Missions
    BY DEF DecisionInv, PlaceOK, Fits
  <2>3. /\ executions \in [Missions -> Nat] /\ broken \in [Missions -> Nat]
        /\ worktrees \in [Missions -> Int]
    BY DEF LeftoversInv
  <2> QED
    BY <2>1, <2>2, <2>3
<1>2. Only(e)
  BY OnlyOne DEF Step, Failure
<1>3. UNCHANGED <<executions, broken, branches>> /\ pc[e] \notin {"idle", "down"}
  BY DEF CreateWorkspace, RemoveWorkspace, RemoveFails, Crash
<1> DEFINE k == job[e].mission
<1>4. \E d \in {0, 1, -1} :
         /\ \A m \in Missions : worktrees'[m] = worktrees[m] + (IF m = k THEN d ELSE 0)
         /\ worktrees' \in [Missions -> Int] /\ HasChanges(e)'
         /\ \A m \in Missions : Tries(job[e], pc[e], m)' => Tries(job[e], pc[e], m)
         /\ Cardinality(Mishaps') \in Nat /\ Cardinality(Mishaps) \in Nat
         /\ \A m \in Missions :
               (IF m = k THEN d ELSE 0) + Held(e, m) + Cardinality(Mishaps)
                   <= Held(e, m)' + Cardinality(Mishaps')
  <2>m. Cardinality(Mishaps') \in Nat /\ Cardinality(Mishaps) \in Nat
    BY MishapCounts
  <2>1. CASE CreateWorkspace(e)
    <3>1. /\ worktrees' = [worktrees EXCEPT ![k] = @ + 1] /\ faults' = faults
          /\ pc[e] = "routing" /\ pc'[e] = "running" /\ job'[e].mission = k
      BY <1>1, <2>1 DEF CreateWorkspace, Go, Jobs
    <3>2. /\ \A m \in Missions : Held(e, m) = 0
          /\ \A m \in Missions : Held(e, m)' = (IF m = k THEN 1 ELSE 0)
          /\ \A m \in Missions : Tries(job[e], pc[e], m)' => Tries(job[e], pc[e], m)
      BY <3>1 DEF Uses, Tries, Credit, Held
    <3>3. HasChanges(e)' /\ Mishaps' = Mishaps
      BY <3>1 DEF HasChanges, Mishaps
    <3>4. worktrees' \in [Missions -> Int]
          /\ \A m \in Missions : worktrees'[m] = worktrees[m] + (IF m = k THEN 1 ELSE 0)
      BY <1>1, <3>1
    <3>5. \A m \in Missions :
             (IF m = k THEN 1 ELSE 0) + Held(e, m) + Cardinality(Mishaps)
                   <= Held(e, m)' + Cardinality(Mishaps')
      BY <2>m, <3>2, <3>3
    <3> QED
      BY <2>m, <3>2, <3>3, <3>4, <3>5
  <2>2. CASE RemoveWorkspace(e)
    <3>1. /\ worktrees' = [worktrees EXCEPT ![k] = @ - 1] /\ faults' = faults
          /\ pc[e] = "cleaning" /\ pc'[e] = "judging" /\ job' = job
      BY <1>1, <2>2 DEF RemoveWorkspace, Go
    <3>2. /\ \A m \in Missions : Held(e, m) = (IF m = k THEN 1 ELSE 0)
          /\ \A m \in Missions : Held(e, m)' = 0
          /\ \A m \in Missions : Tries(job[e], pc[e], m)' => Tries(job[e], pc[e], m)
      BY <3>1 DEF Uses, Tries, Credit, Held
    <3>3. HasChanges(e)' /\ Mishaps' = Mishaps
      BY <3>1 DEF HasChanges, Mishaps
    <3>4. worktrees' \in [Missions -> Int]
          /\ \A m \in Missions : worktrees'[m] = worktrees[m] + (IF m = k THEN -1 ELSE 0)
      BY <1>1, <3>1
    <3>5. \A m \in Missions :
             (IF m = k THEN -1 ELSE 0) + Held(e, m) + Cardinality(Mishaps)
                   <= Held(e, m)' + Cardinality(Mishaps')
      BY <2>m, <3>2, <3>3
    <3> QED
      BY <2>m, <3>2, <3>3, <3>4, <3>5
  <2>3. CASE RemoveFails(e) \/ Crash(e)
    <3>1. /\ worktrees' = worktrees
          /\ Fault("cleanup") \/ Fault("crash")
          /\ pc'[e] \in {"judging", "down"}
      BY <1>1, <2>3 DEF RemoveFails, Crash, Go
    <3>t. pc'[e] = "judging" =>
             /\ pc[e] = "cleaning" /\ job'[e].mission = k
             /\ CanFailover(job'[e].result) => CanFailover(job[e].result)
      <4>1. CASE RemoveFails(e)
        <5> DEFINE r == IF job[e].result \in {"changes", "no_changes"}
                        THEN "leftover" ELSE job[e].result
        <5>1. CanFailover(r) => CanFailover(job[e].result)
          BY DEF CanFailover
        <5>2. pc[e] = "cleaning" /\ job' = [job EXCEPT ![e]["result"] = r]
          BY <4>1 DEF RemoveFails, Set
        <5> HIDE DEF r
        <5>3. job'[e].mission = k /\ job'[e].result = r
          BY <1>1, <5>2 DEF Jobs
        <5> QED
          BY <5>1, <5>2, <5>3
      <4>2. CASE Crash(e)
        BY <1>1, <4>2 DEF Crash, Go
      <4> QED
        BY <2>3, <4>1, <4>2
    <3>2. /\ \A m \in Missions : Held(e, m) \in {0, 1}
          /\ \A m \in Missions : Held(e, m)' = 0
      BY <3>1 DEF Uses, Held
    <3>6. \A m \in Missions : Tries(job[e], pc[e], m)' => Tries(job[e], pc[e], m)
      BY <3>1, <3>t DEF Tries
    <3>3. HasChanges(e)'
      BY <3>1 DEF HasChanges
    <3>4. Cardinality(Mishaps') = Cardinality(Mishaps) + 1
      BY <3>1, MishapCounts
    <3>5. \A m \in Missions :
             (IF m = k THEN 0 ELSE 0) + Held(e, m) + Cardinality(Mishaps)
                   <= Held(e, m)' + Cardinality(Mishaps')
      BY <2>m, <3>2, <3>4
    <3>7. \A m \in Missions : worktrees'[m] = worktrees[m] + (IF m = k THEN 0 ELSE 0)
      BY <1>1, <3>1
    <3> QED
      BY <1>1, <2>m, <3>1, <3>2, <3>3, <3>5, <3>6, <3>7
  <2> QED
    BY <2>1, <2>2, <2>3
<1>5. PICK d \in {0, 1, -1} :
         /\ \A m \in Missions : worktrees'[m] = worktrees[m] + (IF m = k THEN d ELSE 0)
         /\ worktrees' \in [Missions -> Int] /\ HasChanges(e)'
         /\ \A m \in Missions : Tries(job[e], pc[e], m)' => Tries(job[e], pc[e], m)
         /\ Cardinality(Mishaps') \in Nat /\ Cardinality(Mishaps) \in Nat
         /\ \A m \in Missions :
               (IF m = k THEN d ELSE 0) + Held(e, m) + Cardinality(Mishaps)
                   <= Held(e, m)' + Cardinality(Mishaps')
  BY <1>4
<1>6. \A m \in Missions :
          Len(branches[m])' + Credit(e, m)' + executions[m] + broken[m]
              <= Len(branches[m]) + Credit(e, m) + executions'[m] + broken'[m]
  <2> TAKE m \in Missions
  <2>1. /\ executions[m] \in Nat /\ broken[m] \in Nat
        /\ executions'[m] = executions[m] /\ broken'[m] = broken[m]
        /\ Len(branches[m])' = Len(branches[m]) /\ Len(branches[m]) \in Nat
    BY <1>1, <1>3
  <2>2. Credit(e, m)' \in Nat /\ Credit(e, m) \in Nat
        /\ Credit(e, m)' <= Credit(e, m)
    BY <1>5 DEF Credit, Held
  <2> QED
    BY <2>1, <2>2
<1>7. \A m \in Missions :
          worktrees'[m] + Held(e, m) + Cardinality(Mishaps)
              <= worktrees[m] + Held(e, m)' + Cardinality(Mishaps')
  <2> TAKE m \in Missions
  <2>1. /\ worktrees[m] \in Int
        /\ Held(e, m) \in Int /\ Held(e, m)' \in Int
    BY <1>1 DEF Credit, Held
  <2>2. PICK x \in {0, 1, -1} : x = IF m = k THEN d ELSE 0
    OBVIOUS
  <2>3. /\ worktrees'[m] = worktrees[m] + x
        /\ x + Held(e, m) + Cardinality(Mishaps)
               <= Held(e, m)' + Cardinality(Mishaps')
    BY <1>5, <2>2
  <2> QED
    BY <1>5, <2>1, <2>3
<1> QED
  BY <1>1, <1>2, <1>3, <1>5, <1>6, <1>7, LeftoversMove

(* A branch is created, gets its commit, and stays when the rest fails.      *)
LEMMA BranchLeftovers ==
    ASSUME IsFiniteSet(Executors), DecisionInv, LeftoversInv, NEW e \in Executors,
           CreateBranch(e) \/ Commit(e) \/ CommitFails(e) \/ SendBranchFails(e)
    PROVE  LeftoversInv'
<1> USE DEF git_vars, store_vars, history_vars, bound_vars
<1>1. /\ pc \in [Executors -> Places] /\ job \in [Executors -> Jobs] /\ job[e] \in Jobs
      /\ executions \in [Missions -> Nat] /\ broken \in [Missions -> Nat]
      /\ worktrees \in [Missions -> Int] /\ branches \in [Missions -> Seq(Branches)]
      /\ \A m \in Missions : Len(branches[m]) \in Nat
      /\ pc[e] \notin {"idle", "down"} => job[e].mission \in Missions
      /\ HasChanges(e)
  <2>1. /\ pc \in [Executors -> Places] /\ job \in [Executors -> Jobs]
        /\ branches \in [Missions -> Seq(Branches)]
    BY DEF DecisionInv, ExecutionTypeOK
  <2>2. pc[e] \notin {"idle", "down"} => job[e].mission \in Missions
    BY DEF DecisionInv, PlaceOK, Fits
  <2>3. /\ executions \in [Missions -> Nat] /\ broken \in [Missions -> Nat]
        /\ worktrees \in [Missions -> Int] /\ HasChanges(e)
    BY DEF LeftoversInv
  <2> QED
    BY <2>1, <2>2, <2>3
<1>2. Only(e)
  BY OnlyOne DEF Step, Failure
<1>3. /\ UNCHANGED <<executions, worktrees>> /\ faults \subseteq faults'
      /\ pc[e] \in {"publishing", "committing", "sending"} /\ job[e].mission \in Missions
  BY <1>1
  DEF CreateBranch, Commit, CommitFails, SendBranchFails, BranchBreaks, Unpublished, Fault
<1> DEFINE k == job[e].mission
<1>4. CASE CreateBranch(e)
  <2> DEFINE b == [base |-> job[e].base, committed |-> FALSE, risk |-> job[e].risk]
  <2>1. /\ branches' = [branches EXCEPT ![k] = Append(@, b)] /\ broken' = broken
        /\ pc[e] = "publishing" /\ pc'[e] = "committing"
        /\ job'[e].mission = k /\ job'[e].result = job[e].result
    BY <1>1, <1>4 DEF CreateBranch, Go, Set, Jobs
  <2>2. Len(Append(branches[k], b)) = Len(branches[k]) + 1
    <3>1. branches[k] \in Seq(Branches) /\ b \in Branches
      BY <1>1, <1>3 DEF Branches, Jobs
    <3> QED
      BY <3>1, AppendProperties
  <2> HIDE DEF b
  <2>3. \A m \in Missions : Len(branches'[m]) = Len(branches[m]) + (IF m = k THEN 1 ELSE 0)
    BY <1>1, <1>3, <2>1, <2>2 DEF Credit, Held
  <2>4. \A m \in Missions :
            /\ Credit(e, m) = (IF m = k THEN 1 ELSE 0) /\ (IF m = k THEN 1 ELSE 0) \in Nat
            /\ Credit(e, m)' = 0
            /\ Held(e, m) = Held(e, m)'
            /\ Held(e, m) \in Nat
    BY <2>1 DEF Tries, Uses, Credit, Held
  <2>5. HasChanges(e)'
    BY <1>1, <2>1 DEF HasChanges
  <2>6. \A m \in Missions :
          /\ Len(branches[m])' + Credit(e, m)' + executions[m] + broken[m]
              <= Len(branches[m]) + Credit(e, m) + executions'[m] + broken'[m]
          /\ Len(branches[m])' \in Nat
    <3> TAKE m \in Missions
    <3>1. executions[m] \in Nat /\ broken[m] \in Nat /\ Len(branches[m]) \in Nat
      BY <1>1
    <3> QED
      BY <1>3, <2>1, <2>3, <2>4, <3>1
  <2>7. \A m \in Missions :
          worktrees'[m] + Held(e, m) + Cardinality(Mishaps)
              <= worktrees[m] + Held(e, m)' + Cardinality(Mishaps')
    <3> TAKE m \in Missions
    <3>1. worktrees[m] \in Int /\ Cardinality(Mishaps) \in Nat /\ Cardinality(Mishaps') \in Nat
          /\ Cardinality(Mishaps) <= Cardinality(Mishaps')
      BY <1>1, <1>3, MishapCounts
    <3> QED
      BY <1>3, <2>4, <3>1
  <2> QED
    BY <1>1, <1>2, <1>3, <2>1, <2>5, <2>6, <2>7, LeftoversMove
<1>5. CASE Commit(e)
  <2>1. /\ branches' = [branches EXCEPT ![k][job[e].branch].committed = TRUE]
        /\ pc[e] = "committing" /\ pc'[e] = "sending" /\ job' = job
        /\ UNCHANGED <<broken, faults>>
    BY <1>1, <1>5 DEF Commit, Go
  <2>2. Len(branches'[k]) = Len(branches[k])
    <3>1. PICK x : branches'[k] = [branches[k] EXCEPT ![job[e].branch] = x]
      BY <1>1, <1>3, <2>1
    <3>2. branches[k] \in Seq(Branches) /\ DOMAIN branches'[k] = DOMAIN branches[k]
      BY <1>1, <1>3, <3>1
    <3>3. job[e].branch \in DOMAIN branches[k]
      BY <1>3, <2>1 DEF DecisionInv, PlaceOK, Fits
    <3>4. branches'[k] \in Seq(Branches \cup {x}) /\ branches[k] \in Seq(Branches \cup {x})
      BY <3>1, <3>2, <3>3, ExceptSeq
    <3> QED
      BY <3>2, <3>4
  <2>3. \A m \in Missions : Len(branches[m])' = Len(branches[m])
    BY <1>1, <1>3, <2>1, <2>2
  <2>4. /\ \A m \in Missions : Tries(job[e], pc[e], m)' => Tries(job[e], pc[e], m)
        /\ \A m \in Missions : Uses(job[e], pc[e], m) => Uses(job[e], pc[e], m)'
    BY <2>1 DEF Tries, Uses
  <2>5. HasChanges(e)'
    BY <1>1, <2>1 DEF HasChanges
  <2> QED
    BY <1>2, <1>3, <2>1, <2>3, <2>4, <2>5, LeavesNothing
<1>6. CASE CommitFails(e) \/ SendBranchFails(e)
  <2>1. /\ UNCHANGED branches /\ broken' = [broken EXCEPT ![k] = @ + 1]
        /\ pc[e] \in {"committing", "sending"} /\ pc'[e] = "cleaning"
        /\ job'[e].mission = k
    BY <1>1, <1>6 DEF CommitFails, SendBranchFails, BranchBreaks, Unpublished, Go, Set, Jobs
  <2>2. /\ broken' \in [Missions -> Nat]
        /\ \A m \in Missions : broken'[m] = broken[m] + (IF m = k THEN 1 ELSE 0)
    BY <1>1, <1>3, <2>1 DEF Credit, Held
  <2>3. \A m \in Missions :
            /\ Credit(e, m) = 0 /\ (IF m = k THEN 1 ELSE 0) \in Nat
            /\ Credit(e, m)' <= (IF m = k THEN 1 ELSE 0)
            /\ Credit(e, m)' \in Nat
            /\ Held(e, m) = Held(e, m)'
            /\ Held(e, m) \in Nat
    BY <2>1 DEF Tries, Uses, Credit, Held
  <2>4. HasChanges(e)'
    BY <2>1 DEF HasChanges
  <2>5. \A m \in Missions :
          /\ Len(branches[m])' + Credit(e, m)' + executions[m] + broken[m]
              <= Len(branches[m]) + Credit(e, m) + executions'[m] + broken'[m]
          /\ Len(branches[m])' \in Nat
    <3> TAKE m \in Missions
    <3>1. executions[m] \in Nat /\ broken[m] \in Nat /\ Len(branches[m]) \in Nat
      BY <1>1
    <3>2. PICK x \in Nat, k0 \in Nat, b \in Nat, one \in Nat, cc \in Nat :
            /\ x = executions[m] /\ k0 = broken[m] /\ b = Len(branches[m])
            /\ one = (IF m = k THEN 1 ELSE 0) /\ cc = Credit(e, m)'
      BY <2>3, <3>1
    <3>3. /\ Len(branches[m])' = b /\ executions'[m] = x
          /\ broken'[m] = k0 + one /\ Credit(e, m) = 0 /\ cc <= one
      BY <1>3, <2>1, <2>2, <2>3, <3>2
    <3>4. b + cc + x + k0 <= b + 0 + x + (k0 + one)
      BY <3>3
    <3> QED
      BY <3>2, <3>3, <3>4
  <2>6. \A m \in Missions :
          worktrees'[m] + Held(e, m) + Cardinality(Mishaps)
              <= worktrees[m] + Held(e, m)' + Cardinality(Mishaps')
    <3> TAKE m \in Missions
    <3>1. worktrees[m] \in Int /\ Cardinality(Mishaps) \in Nat /\ Cardinality(Mishaps') \in Nat
          /\ Cardinality(Mishaps) <= Cardinality(Mishaps')
      BY <1>1, <1>3, MishapCounts
    <3> QED
      BY <1>3, <2>3, <3>1
  <2> QED
    BY <1>1, <1>2, <1>3, <2>2, <2>4, <2>5, <2>6, LeftoversMove
<1> QED
  BY <1>4, <1>5, <1>6

LEMMA LeftoversInit == Init => LeftoversInv
<1> SUFFICES ASSUME Init PROVE LeftoversInv
  OBVIOUS
<1>1. /\ executions \in [Missions -> Nat] /\ broken \in [Missions -> Nat]
      /\ worktrees \in [Missions -> Int]
      /\ \A e \in Executors : HasChanges(e)
  BY DEF Init, HasChanges
<1>2. \A m \in Missions :
          /\ Len(branches[m]) = 0 /\ executions[m] = 0 /\ broken[m] = 0 /\ worktrees[m] = 0
          /\ Trying(m) = {} /\ InUse(m) = {}
  BY DEF Init, Trying, Tries, InUse
<1>3. Cardinality({}) = 0 /\ Cardinality(Mishaps) \in Nat
  BY FS_EmptySet, MishapCounts
<1>4. ASSUME NEW m \in Missions
      PROVE  /\ Len(branches[m]) + Cardinality(Trying(m)) <= executions[m] + broken[m]
             /\ worktrees[m] <= Cardinality(InUse(m)) + Cardinality(Mishaps)
  <2>1. Cardinality(Trying(m)) = 0 /\ Cardinality(InUse(m)) = 0
    BY <1>2, <1>3
  <2> QED
    BY <1>2, <1>3, <2>1
<1> QED
  BY <1>1, <1>4 DEF LeftoversInv

LEMMA LeftoversNext ==
    IsFiniteSet(Executors) /\ DecisionInv /\ LeftoversInv /\ [Next]_vars => LeftoversInv'
<1> SUFFICES ASSUME IsFiniteSet(Executors), DecisionInv, LeftoversInv, [Next]_vars
             PROVE  LeftoversInv'
  OBVIOUS
<1>1. ASSUME NEW e \in Executors, Step(e) \/ Failure(e) PROVE LeftoversInv'
  <2>1. CASE \/ CheckClean(e) \/ Skip(e) \/ WorkspaceFails(e) \/ GiveUp(e)
             \/ AdapterReturns(e) \/ CreateBranchFails(e) \/ SendBranch(e) \/ Judge(e)
             \/ Review(e) \/ ReadHead(e) \/ FastForward(e) \/ PushMain(e)
             \/ PushMainFails(e) \/ Undo(e) \/ UndoFails(e) \/ Deploy(e) \/ Persist(e)
             \/ Settle(e) \/ Restart(e)
    BY <2>1, QuietLeftovers
  <2>2. CASE Claim(e)
    BY <2>2, ClaimLeftovers
  <2>3. CASE CreateWorkspace(e) \/ RemoveWorkspace(e) \/ RemoveFails(e) \/ Crash(e)
    BY <2>3, WorktreeLeftovers
  <2>4. CASE CreateBranch(e) \/ Commit(e) \/ CommitFails(e) \/ SendBranchFails(e)
    BY <2>4, BranchLeftovers
  <2> QED
    BY <1>1, <2>1, <2>2, <2>3, <2>4 DEF Step, Failure
<1>2. ASSUME UNCHANGED <<pc, job, branches, worktrees, executions, broken>>,
             faults \subseteq faults'
      PROVE  LeftoversInv'
  <2>1. /\ \A m \in Missions : Trying(m)' = Trying(m) /\ InUse(m)' = InUse(m)
        /\ \A e \in Executors : HasChanges(e)'
    BY <1>2 DEF Trying, InUse, HasChanges, LeftoversInv
  <2>2. /\ Cardinality(Mishaps) \in Nat /\ Cardinality(Mishaps') \in Nat
        /\ Cardinality(Mishaps) <= Cardinality(Mishaps')
    BY <1>2, MishapCounts
  <2>3. ASSUME NEW m \in Missions
        PROVE  worktrees[m] <= Cardinality(InUse(m)) + Cardinality(Mishaps')
    <3>1. worktrees[m] <= Cardinality(InUse(m)) + Cardinality(Mishaps)
          /\ worktrees[m] \in Int
      BY DEF LeftoversInv
    <3>2. Cardinality(InUse(m)) \in Nat
      <4>1. InUse(m) \in SUBSET Executors
        BY DEF InUse
      <4> QED
        BY <4>1, FS_Subset, FS_CardinalityType
    <3> QED
      BY <2>2, <3>1, <3>2
  <2> QED
    BY <1>2, <2>1, <2>3 DEF LeftoversInv
<1>3. CASE \/ \E m \in Missions : Approve(m) \/ Intervene(m)
           \/ PublishApproval \/ ApprovalPushFails \/ PushUpstream \/ Pull \/ Soil \/ Tidy
  <2>1. /\ UNCHANGED <<pc, job, branches, worktrees, executions, broken>>
        /\ faults \subseteq faults'
    BY <1>3
    DEF Approve, Intervene, PublishApproval, ApprovalPushFails, PushUpstream, Pull, Soil, Tidy,
        Fault, git_vars, store_vars, history_vars, bound_vars
  <2> QED
    BY <1>2, <2>1
<1>4. CASE UNCHANGED vars
  BY <1>2, <1>4 DEF vars, git_vars, store_vars, history_vars, bound_vars
<1> QED
  BY <1>1, <1>3, <1>4 DEF Next

(* What executions leave behind is accounted for, however many executors     *)
(* work on however many missions.                                            *)
THEOREM LeftoversAlwaysExplained ==
    ASSUME IsFiniteSet(Executors)
    PROVE  Spec => []LeftoversExplained
<1>1. DecisionInv /\ LeftoversInv => LeftoversExplained
  <2> SUFFICES ASSUME LeftoversInv, NEW m \in Missions, DecisionInv
               PROVE  /\ Len(branches[m]) <= executions[m] + broken[m]
                      /\ worktrees[m] <= Cardinality(InUse(m)) + Cardinality(Mishaps)
    BY DEF LeftoversExplained, Mishaps
  <2>1. /\ Len(branches[m]) + Cardinality(Trying(m)) <= executions[m] + broken[m]
        /\ executions[m] \in Nat /\ broken[m] \in Nat /\ Len(branches[m]) \in Nat
        /\ worktrees[m] <= Cardinality(InUse(m)) + Cardinality(Mishaps)
    BY DEF LeftoversInv, DecisionInv, ExecutionTypeOK
  <2>2. Cardinality(Trying(m)) \in Nat
    <3>1. Trying(m) \in SUBSET Executors
      BY DEF Trying
    <3> QED
      BY <3>1, FS_Subset, FS_CardinalityType
  <2> QED
    BY <2>1, <2>2
<1>2. Init => DecisionInv /\ LeftoversInv
  BY DecisionInit, LeftoversInit
<1>3. DecisionInv /\ LeftoversInv /\ [Next]_vars => DecisionInv' /\ LeftoversInv'
  BY DecisionNext, LeftoversNext
<1> QED
  BY <1>1, <1>2, <1>3, PTL DEF Spec

-----------------------------------------------------------------------------
(* Revisions and the commits in them.                                        *)

LEMMA PrefixIsPointwise ==
    ASSUME NEW r \in Revisions, NEW s \in Revisions
    PROVE  IsPrefix(r, s) <=> Len(r) <= Len(s) /\ \A i \in 1..Len(r) : s[i] = r[i]
<1>1. r \in Seq(CommitIds) /\ s \in Seq(CommitIds) /\ Len(r) \in Nat /\ Len(s) \in Nat
  BY DEF Revisions
<1>2. ASSUME Len(r) <= Len(s)
      PROVE  SubSeq(s, 1, Len(r)) = r <=> \A i \in 1..Len(r) : s[i] = r[i]
  <2>1. /\ SubSeq(s, 1, Len(r)) \in Seq(CommitIds)
        /\ Len(SubSeq(s, 1, Len(r))) = Len(r)
        /\ \A i \in 1..Len(r) : SubSeq(s, 1, Len(r))[i] = s[i]
    BY <1>1, <1>2
  <2> QED
    BY <2>1, <1>1, SeqEqual
<1> QED
  BY <1>1, <1>2 DEF IsPrefix

LEMMA PrefixOfItself == ASSUME NEW r \in Revisions PROVE IsPrefix(r, r)
<1>1. Len(r) \in Nat
  BY DEF Revisions
<1> QED
  BY <1>1, PrefixIsPointwise

LEMMA PrefixIsTransitive ==
    ASSUME NEW r \in Revisions, NEW s \in Revisions, NEW t \in Revisions,
           IsPrefix(r, s), IsPrefix(s, t)
    PROVE  IsPrefix(r, t)
<1>1. Len(r) \in Nat /\ Len(s) \in Nat /\ Len(t) \in Nat
  BY DEF Revisions
<1>2. /\ Len(r) <= Len(s) /\ \A i \in 1..Len(r) : s[i] = r[i]
      /\ Len(s) <= Len(t) /\ \A i \in 1..Len(s) : t[i] = s[i]
  BY PrefixIsPointwise
<1>3. Len(r) <= Len(t) /\ \A i \in 1..Len(r) : t[i] = r[i]
  BY <1>1, <1>2
<1> QED
  BY <1>3, PrefixIsPointwise

(* Of two parts of one revision the shorter is part of the longer.           *)
LEMMA PrefixesCompare ==
    ASSUME NEW r \in Revisions, NEW s \in Revisions, NEW t \in Revisions,
           IsPrefix(r, t), IsPrefix(s, t), Len(r) <= Len(s)
    PROVE  IsPrefix(r, s)
<1>1. Len(r) \in Nat /\ Len(s) \in Nat /\ Len(t) \in Nat
  BY DEF Revisions
<1>2. /\ \A i \in 1..Len(r) : t[i] = r[i]
      /\ \A i \in 1..Len(s) : t[i] = s[i]
  BY PrefixIsPointwise
<1>3. \A i \in 1..Len(r) : s[i] = r[i]
  BY <1>1, <1>2
<1> QED
  BY <1>3, PrefixIsPointwise

LEMMA LongPrefixIsAll ==
    ASSUME NEW r \in Revisions, NEW s \in Revisions, IsPrefix(r, s), Len(s) <= Len(r)
    PROVE  r = s
<1>1. r \in Seq(CommitIds) /\ s \in Seq(CommitIds) /\ Len(r) \in Nat /\ Len(s) \in Nat
  BY DEF Revisions
<1>2. Len(r) <= Len(s) /\ \A i \in 1..Len(r) : s[i] = r[i]
  BY PrefixIsPointwise
<1> QED
  BY <1>1, <1>2, SeqEqual

LEMMA PrefixLength ==
    ASSUME NEW r \in Revisions, NEW s \in Revisions, IsPrefix(r, s)
    PROVE  Len(r) <= Len(s) /\ Len(r) \in Nat /\ Len(s) \in Nat
BY DEF IsPrefix, Revisions

LEMMA EmptyIsPrefix == ASSUME NEW r \in Revisions PROVE <<>> \in Revisions /\ IsPrefix(<<>>, r)
<1>1. <<>> \in Revisions /\ Len(<<>>) = 0 /\ Len(r) \in Nat
  BY DEF Revisions
<1> QED
  BY <1>1, PrefixIsPointwise

LEMMA PrefixHasFewer ==
    ASSUME NEW r \in Revisions, NEW s \in Revisions, IsPrefix(r, s)
    PROVE  Commits(r) \subseteq Commits(s)
<1>1. DOMAIN r = 1..Len(r) /\ DOMAIN s = 1..Len(s) /\ Len(r) \in Nat /\ Len(s) \in Nat
  BY DEF Revisions
<1>2. Len(r) <= Len(s) /\ \A i \in 1..Len(r) : s[i] = r[i]
  BY PrefixIsPointwise
<1> QED
  BY <1>1, <1>2 DEF Commits

(* A commit on top of a revision.                                            *)
LEMMA CommitOnTop ==
    ASSUME NEW r \in Revisions, NEW c \in CommitIds
    PROVE  /\ Append(r, c) \in Revisions
           /\ Len(Append(r, c)) = Len(r) + 1 /\ Len(r) \in Nat
           /\ IsPrefix(r, Append(r, c))
           /\ Commits(Append(r, c)) = Commits(r) \cup {c}
           /\ \A s \in Revisions :
                 IsPrefix(s, Append(r, c)) => s = Append(r, c) \/ IsPrefix(s, r)
<1>1. /\ Append(r, c) \in Seq(CommitIds) /\ Len(r) \in Nat
      /\ Len(Append(r, c)) = Len(r) + 1
      /\ \A i \in 1..Len(r) : Append(r, c)[i] = r[i]
      /\ Append(r, c)[Len(r) + 1] = c
  BY AppendProperties DEF Revisions
<1>2. PICK t \in Revisions : t = Append(r, c)
  BY <1>1 DEF Revisions
<1>3. IsPrefix(r, t)
  <2>1. Len(r) <= Len(t) /\ \A i \in 1..Len(r) : t[i] = r[i]
    BY <1>1, <1>2
  <2> QED
    BY <2>1, PrefixIsPointwise
<1>4. Commits(t) = Commits(r) \cup {c}
  <2>1. DOMAIN r = 1..Len(r) /\ DOMAIN t = 1..(Len(r) + 1)
    BY <1>1, <1>2 DEF Revisions
  <2>2. 1..(Len(r) + 1) = 1..Len(r) \cup {Len(r) + 1}
    BY <1>1
  <2> QED
    BY <2>1, <2>2, <1>1, <1>2 DEF Commits
<1>5. ASSUME NEW s \in Revisions, IsPrefix(s, t), s # t PROVE IsPrefix(s, r)
  <2>1. Len(s) \in Nat /\ Len(s) <= Len(t)
    BY <1>5, PrefixLength
  <2>2. Len(s) <= Len(r)
    <3>1. ~(Len(t) <= Len(s))
      BY <1>5, LongPrefixIsAll
    <3> QED
      BY <1>1, <1>2, <2>1, <3>1
  <2> QED
    BY <1>3, <1>5, <2>2, PrefixesCompare
<1> QED
  BY <1>1, <1>2, <1>3, <1>4, <1>5

(* Every commit of a sound revision is somebody else's or accepted.          *)
LEMMA SoundCommits ==
    ASSUME NEW r, NEW accepted, Sound(r, accepted), NEW c \in Commits(r)
    PROVE  c[1] = Upstream \/ c \in accepted
BY DEF Sound, Commits

-----------------------------------------------------------------------------
(* What is completed is merged, if one worker runs at a time.                *)

(* The service manager runs one worker of a queue.                           *)
OneWorker == \A e, f \in Executors : e = f

(* The commit is in no revision that may become main.                        *)
Unmerged(c) ==
    /\ c \notin Commits(main) /\ c \notin Commits(origin)
    /\ c \notin Commits(approval.before) /\ c \notin Commits(approval.after)

Unbased(c) ==
    \A k \in Missions : \A n \in DOMAIN branches[k] : c \notin Commits(branches[k][n].base)

(* The commit of the branch this executor has.                               *)
Own(e) == <<job[e].mission, job[e].branch>>

MergedOnce(m) == \E c \in Commits(origin) \cup undone : c[1] = m

(* From its creation to the review a commit is its mission's newest, and not *)
(* accepted; then it is nowhere but in its branch until it is merged; and it *)
(* is in main until it is pushed or somebody else took it out of main.       *)
OnItsWay(j, place) ==
    LET m == j.mission
        c == <<m, j.branch>>
    IN  /\ place \notin {"idle", "down"} => ~Q!InState(m, {"blocked"})
        /\ \/ place \in {"committing", "sending", "reviewing"}
           \/ place \in {"cleaning", "judging"} /\ j.result = "changes"
           => j.branch = Len(branches[m]) /\ c \notin vetted
        /\ place \in {"accepted", "merging"} => Unmerged(c)
        /\ place \in {"accepted", "merging", "pushing"} =>
               /\ c \in Commits(approval.after) => c \in Commits(origin)
               /\ Unbased(c)
        /\ place = "pushing" => c \in Commits(main) \cup Commits(origin) \cup undone
        /\ place = "deploying" \/ j.result = "merged" => MergedOnce(m)
        /\ j.result = "read_only" => m \in ReadOnly

Accepted == \A c \in vetted : c[1] \in Missions /\ HasCommit(c[1], c[2])

HasStates == \A m \in DOMAIN missions : "state" \in DOMAIN missions[m]

MergedInv ==
    /\ Accepted
    /\ HasStates
    /\ \A e \in Executors : OnItsWay(job[e], pc[e])
    /\ CompletedIsMerged

(* What the queue operations may change of the states.                       *)
NoneBlocked == \A m : Q!InState(m, {"blocked"})' => Q!InState(m, {"blocked"})

NoneCompleted == \A m : Q!InState(m, {"completed"})' => Q!InState(m, {"completed"})

LEMMA QueueMoves ==
    ASSUME HasStates, NEW m
    PROVE  /\ Q!Claim(m) \/ Q!Cancel(m) \/ Q!Resume(m) \/ Q!Fail(m) \/ Q!RecoverStale =>
                  HasStates' /\ NoneBlocked /\ NoneCompleted
           /\ Q!Claim(m) => ~Q!InState(m, {"blocked"})'
           /\ Q!Block(m) => HasStates' /\ NoneCompleted
           /\ Q!Complete(m) \/ Q!ApproveManualReview(m) =>
                  /\ HasStates' /\ NoneBlocked
                  /\ \A k : Q!InState(k, {"completed"})' => k = m \/ Q!InState(k, {"completed"})
           /\ UNCHANGED missions => HasStates' /\ NoneBlocked /\ NoneCompleted
<1> USE DEF HasStates, NoneBlocked, NoneCompleted, Q!InState, Q!Known
<1>1. ASSUME NEW s, Q!MoveTo(m, s), m \in DOMAIN missions
      PROVE  /\ DOMAIN missions' = DOMAIN missions /\ missions'[m].state = s
             /\ \A k \in DOMAIN missions \ {m} : missions'[k] = missions[k]
             /\ HasStates'
  <2>1. missions' = [missions EXCEPT ![m].state = s]
    BY <1>1 DEF Q!MoveTo
  <2>2. /\ DOMAIN missions' = DOMAIN missions
        /\ missions'[m] = [missions[m] EXCEPT !.state = s]
        /\ \A k \in DOMAIN missions \ {m} : missions'[k] = missions[k]
    BY <1>1, <2>1
  <2>3. missions'[m].state = s /\ "state" \in DOMAIN missions'[m]
    BY <1>1, <2>2
  <2> QED
    BY <2>2, <2>3
<1>2. Q!Claim(m) => /\ HasStates' /\ NoneBlocked /\ NoneCompleted
                    /\ ~Q!InState(m, {"blocked"})'
  BY <1>1 DEF Q!Claim, Q!IsNext, Q!Eligible
<1>3. Q!Cancel(m) \/ Q!Resume(m) => HasStates' /\ NoneBlocked /\ NoneCompleted
  BY <1>1 DEF Q!Cancel, Q!Resume
<1>4. Q!Block(m) => HasStates' /\ NoneCompleted
  BY <1>1 DEF Q!Block
<1>5. Q!Complete(m) \/ Q!ApproveManualReview(m) =>
          /\ HasStates' /\ NoneBlocked
          /\ \A k : Q!InState(k, {"completed"})' => k = m \/ Q!InState(k, {"completed"})
  BY <1>1 DEF Q!Complete, Q!Running, Q!ApproveManualReview
<1>6. ASSUME Q!Fail(m) PROVE HasStates' /\ NoneBlocked /\ NoneCompleted
  <2> DEFINE n == missions[m].attempts_done + 1
             s == IF n <= missions[m].max_retries THEN "retrying" ELSE "failed"
  <2>1. missions' = [missions EXCEPT ![m].attempts_done = n, ![m].state = s]
        /\ s \in {"retrying", "failed"}
    BY <1>6 DEF Q!Fail
  <2> HIDE DEF n, s
  <2>2. m \in DOMAIN missions
    BY <1>6 DEF Q!Fail, Q!Running
  <2>3. /\ DOMAIN missions' = DOMAIN missions
        /\ missions'[m] = [missions[m] EXCEPT !.attempts_done = n, !.state = s]
        /\ \A k \in DOMAIN missions \ {m} : missions'[k] = missions[k]
    BY <2>1, <2>2
  <2>4. missions'[m].state = s /\ "state" \in DOMAIN missions'[m]
    BY <2>2, <2>3
  <2>5. HasStates'
    BY <2>3, <2>4
  <2>6. \A k \in DOMAIN missions :
            missions'[k].state \in {"retrying", "failed"} \/ missions'[k] = missions[k]
    BY <2>1, <2>3, <2>4
  <2> QED
    BY <2>3, <2>5, <2>6
<1>7. ASSUME Q!RecoverStale PROVE HasStates' /\ NoneBlocked /\ NoneCompleted
  <2>1. missions' = [k \in DOMAIN missions |->
                        IF Q!Running(k) THEN [missions[k] EXCEPT !.state = "retrying"]
                                        ELSE missions[k]]
    BY <1>7 DEF Q!RecoverStale
  <2>2. DOMAIN missions' = DOMAIN missions
    BY <2>1
  <2>3. \A k \in DOMAIN missions : \/ missions'[k] = missions[k]
                                   \/ missions'[k] = [missions[k] EXCEPT !.state = "retrying"]
    BY <2>1
  <2>4. \A k \in DOMAIN missions : \/ missions'[k] = missions[k]
                                   \/ /\ missions'[k].state = "retrying"
                                      /\ "state" \in DOMAIN missions'[k]
    BY <2>3
  <2> QED
    BY <2>2, <2>4
<1>8. UNCHANGED missions => HasStates' /\ NoneBlocked /\ NoneCompleted
  OBVIOUS
<1> QED
  BY <1>2, <1>3, <1>4, <1>5, <1>6, <1>7, <1>8

(* A step after which an executor's commit is still on its way, if it was.   *)
LEMMA StaysOnItsWay ==
    ASSUME NEW j, NEW place, OnItsWay(j, place), j.mission \in Missions \/ place \in {"idle", "down"},
           NoneBlocked,
           place \in {"committing", "sending", "cleaning", "judging", "reviewing"} =>
               /\ Len(branches[j.mission])' = Len(branches[j.mission])
               /\ <<j.mission, j.branch>> \in vetted' => <<j.mission, j.branch>> \in vetted,
           place \in {"accepted", "merging"} /\ Unmerged(<<j.mission, j.branch>>) =>
               Unmerged(<<j.mission, j.branch>>)',
           place \in {"accepted", "merging", "pushing"}
               /\ Unbased(<<j.mission, j.branch>>) =>
                     Unbased(<<j.mission, j.branch>>)',
           place = "pushing" =>
               /\ \/ <<j.mission, j.branch>> \notin Commits(approval'.after)
                  \/ <<j.mission, j.branch>> \in Commits(origin')
               /\ <<j.mission, j.branch>> \in Commits(main') \cup Commits(origin') \cup undone',
           Commits(origin) \cup undone \subseteq Commits(origin') \cup undone'
    PROVE  OnItsWay(j, place)'
<1> DEFINE m == j.mission
           c == <<m, j.branch>>
<1>1. MergedOnce(m) => MergedOnce(m)'
  BY DEF MergedOnce
<1>2. place \notin {"idle", "down"} => ~Q!InState(m, {"blocked"})'
  BY DEF OnItsWay, NoneBlocked
<1>3. \/ place \in {"committing", "sending", "reviewing"}
      \/ place \in {"cleaning", "judging"} /\ j.result = "changes"
      => j.branch = Len(branches[m])' /\ c \notin vetted'
  BY DEF OnItsWay
<1>4. /\ place \in {"accepted", "merging"} => Unmerged(c)'
      /\ place \in {"accepted", "merging", "pushing"} =>
               /\ c \in Commits(approval'.after) => c \in Commits(origin')
               /\ Unbased(c)'
      /\ place = "pushing" => c \in Commits(main') \cup Commits(origin') \cup undone'
  <2>1. /\ place \in {"accepted", "merging"} => Unmerged(c)
        /\ place \in {"accepted", "merging", "pushing"} => Unbased(c)
    BY DEF OnItsWay
  <2>2. Unmerged(c)' => c \notin Commits(approval'.after)
    BY DEF Unmerged
  <2> QED
    BY <2>1, <2>2
<1>5. /\ place = "deploying" \/ j.result = "merged" => MergedOnce(m)'
      /\ j.result = "read_only" => m \in ReadOnly
  BY <1>1 DEF OnItsWay
<1> QED
  BY <1>2, <1>3, <1>4, <1>5 DEF OnItsWay

(* What is known of an executor's own commit.                                *)
LEMMA OwnCommit ==
    ASSUME DecisionInv, MergedInv, NEW e \in Executors, NEW d, d = Own(e)
    PROVE  /\ d[1] = job[e].mission
           /\ pc[e] \notin {"idle", "down"} =>
                 /\ d[1] \in Missions
                 /\ ~Q!InState(d[1], {"blocked"})
           /\ pc[e] \in {"accepted", "merging"} => Unmerged(d)
           /\ pc[e] \in {"accepted", "merging", "pushing"} => Unbased(d)
           /\ pc[e] = "pushing" =>
                 /\ d \in Commits(approval.after) => d \in Commits(origin)
                 /\ d \in Commits(main) \cup Commits(origin) \cup undone
<1>1. OnItsWay(job[e], pc[e])
  BY DEF MergedInv
<1>2. pc[e] \notin {"idle", "down"} => d[1] \in Missions
  BY DEF DecisionInv, PlaceOK, Fits, Own
<1> QED
  BY <1>1, <1>2 DEF OnItsWay, Own

(* What a step of the reviewer or of the rest of the world has to keep.      *)
LEMMA WorldMerges ==
    ASSUME DecisionInv, MergedInv, UNCHANGED <<pc, job, branches>>,
           HasStates', NoneBlocked, Accepted', CompletedIsMerged',
           Commits(origin) \cup undone \subseteq Commits(origin') \cup undone',
           \A e \in Executors : \A c :
               c = Own(e) /\ pc[e] \notin {"idle", "down"} =>
                   /\ c \in vetted' => c \in vetted
                   /\ pc[e] \in {"accepted", "merging"} => Unmerged(c)'
                   /\ pc[e] = "pushing" =>
                         /\ c \in Commits(approval'.after) => c \in Commits(origin')
                         /\ c \in Commits(main') \cup Commits(origin') \cup undone'
    PROVE  MergedInv'
<1>1. ASSUME NEW e \in Executors PROVE OnItsWay(job[e], pc[e])'
  <2>1. PICK j, place, c : j = job[e] /\ place = pc[e] /\ c = <<j.mission, j.branch>>
    OBVIOUS
  <2>2. job'[e] = j /\ pc'[e] = place
    BY <2>1
  <2>3. OnItsWay(j, place)
    BY <2>1 DEF MergedInv
  <2>4. j.mission \in Missions \/ place \in {"idle", "down"}
    BY <2>1 DEF DecisionInv, PlaceOK, Fits
  <2>5. Unbased(c) => Unbased(c)'
    BY DEF Unbased
  <2>6. Len(branches[j.mission])' = Len(branches[j.mission])
    OBVIOUS
  <2>7. place \notin {"idle", "down"} =>
            /\ c \in vetted' => c \in vetted
            /\ place \in {"accepted", "merging"} => Unmerged(c)'
            /\ place = "pushing" =>
                  /\ c \in Commits(approval'.after) => c \in Commits(origin')
                  /\ c \in Commits(main') \cup Commits(origin') \cup undone'
    BY <2>1 DEF Own
  <2>8. OnItsWay(j, place)'
    BY <2>1, <2>3, <2>4, <2>5, <2>6, <2>7, StaysOnItsWay
  <2> QED
    BY <2>2, <2>8
<1> QED
  BY <1>1 DEF MergedInv

(* Commits of different missions differ.                                     *)
LEMMA ApproveMerges ==
    ASSUME DecisionInv, MergedInv, NEW m \in Missions, Approve(m)
    PROVE  MergedInv'
<1> DEFINE n == Newest(m)
           c == <<m, n>>
           base == branches[m][n].base
<1>1. HasCommit(m, n) /\ n \in Nat
  BY ApprovableWasAsked DEF Approve
<1>2. /\ base \in Revisions /\ c \in CommitIds /\ n \in DOMAIN branches[m]
      /\ Tip(m, n) = Append(base, c)
  BY <1>1, TipFacts DEF DecisionInv, HasCommit
<1>3. /\ main \in Revisions /\ origin \in Revisions
  BY DEF DecisionInv, ExecutionTypeOK
<1>4. /\ UNCHANGED <<pc, job, branches, origin, undone>> /\ vetted' = vetted \cup {c}
      /\ main = origin /\ approval = NoApproval /\ Q!InState(m, {"blocked"})
  BY DEF Approve, Approvable, store_vars
<1>5. \/ /\ c \in Commits(main) /\ Q!ApproveManualReview(m) /\ UNCHANGED <<main, approval>>
      \/ /\ main' \in {Append(base, c), Append(main, c)}
         /\ approval' = [mission |-> m, before |-> main, after |-> main']
         /\ UNCHANGED missions
  BY <1>2 DEF Approve, queue_vars
<1>6. Accepted'
  BY <1>1, <1>4 DEF MergedInv, Accepted, HasCommit
<1>7. \A k : HasStates /\ Q!ApproveManualReview(k) =>
                 /\ HasStates' /\ NoneBlocked
                 /\ \A l : Q!InState(l, {"completed"})' => l = k \/ Q!InState(l, {"completed"})
  BY QueueMoves
<1>8. HasStates /\ UNCHANGED missions => HasStates' /\ NoneBlocked /\ NoneCompleted
  BY QueueMoves
<1>9. HasStates' /\ NoneBlocked
  BY <1>5, <1>7, <1>8 DEF MergedInv
<1>10. CompletedIsMerged'
  <2>1. CompletedIsMerged
    BY DEF MergedInv
  <2>2. CASE c \in Commits(main) /\ Q!ApproveManualReview(m)
    <3>1. c \in Commits(origin) /\ c[1] = m
      BY <1>4, <2>2
    <3>2. \A l : Q!InState(l, {"completed"})' => l = m \/ Q!InState(l, {"completed"})
      BY <1>7, <2>2 DEF MergedInv
    <3> HIDE DEF c
    <3> QED
      BY <1>4, <2>1, <3>1, <3>2 DEF CompletedIsMerged
  <2>3. CASE UNCHANGED missions
    BY <1>4, <1>8, <2>1, <2>3 DEF CompletedIsMerged, NoneCompleted, MergedInv
  <2> QED
    BY <1>5, <2>2, <2>3
<1>11. /\ Commits(Append(base, c)) = Commits(base) \cup {c}
       /\ Commits(Append(main, c)) = Commits(main) \cup {c}
  BY <1>2, <1>3, CommitOnTop
<1>12. ASSUME NEW e \in Executors, NEW d, d = Own(e), pc[e] \notin {"idle", "down"}
       PROVE  /\ d \in vetted' => d \in vetted
              /\ pc[e] \in {"accepted", "merging"} => Unmerged(d)'
              /\ pc[e] = "pushing" =>
                    /\ d \in Commits(approval'.after) => d \in Commits(origin')
                    /\ d \in Commits(main') \cup Commits(origin') \cup undone'
  <2>1. d # c
    BY <1>4, <1>12, OwnCommit
  <2>4. /\ pc[e] \in {"accepted", "merging"} => Unmerged(d)
        /\ pc[e] \in {"accepted", "merging", "pushing"} => Unbased(d)
        /\ pc[e] = "pushing" =>
               /\ d \in Commits(approval.after) => d \in Commits(origin)
               /\ d \in Commits(main) \cup Commits(origin) \cup undone
    BY <1>12, OwnCommit
  <2> HIDE DEF c, n
  <2>5. Unbased(d) => d \notin Commits(base)
    BY <1>2 DEF Unbased
  <2> HIDE DEF base
  <2>6. Unmerged(d) /\ Unbased(d) => Unmerged(d)'
    <3>1. CASE UNCHANGED <<main, approval>>
      BY <1>4, <3>1 DEF Unmerged
    <3>2. CASE /\ main' \in {Append(base, c), Append(main, c)}
               /\ approval' = [mission |-> m, before |-> main, after |-> main']
      <4>1. approval'.before = main /\ approval'.after = main'
        BY <3>2
      <4>2. Commits(main') \subseteq Commits(base) \cup Commits(main) \cup {c}
        BY <1>11, <3>2
      <4> QED
        BY <1>4, <2>1, <2>5, <4>1, <4>2 DEF Unmerged
    <3> QED
      BY <1>5, <3>1, <3>2
  <2>7. ASSUME pc[e] = "pushing"
        PROVE  /\ d \in Commits(approval'.after) => d \in Commits(origin')
               /\ d \in Commits(main') \cup Commits(origin') \cup undone'
    <3>1. CASE UNCHANGED <<main, approval>>
      BY <1>4, <2>4, <2>7, <3>1
    <3>2. CASE /\ main' \in {Append(base, c), Append(main, c)}
               /\ approval' = [mission |-> m, before |-> main, after |-> main']
      <4>1. approval'.after = main'
        BY <3>2
      <4>2. Commits(main') \subseteq Commits(base) \cup Commits(main) \cup {c}
        BY <1>11, <3>2
      <4>3. d \notin Commits(base)
        BY <2>4, <2>5, <2>7
      <4>4. d \in Commits(origin) \cup undone
        BY <1>4, <2>4, <2>7
      <4> QED
        BY <1>4, <2>1, <4>1, <4>2, <4>3, <4>4
    <3> QED
      BY <1>5, <3>1, <3>2
  <2>8. d \in vetted' => d \in vetted
    BY <1>4, <2>1
  <2> QED
    BY <2>4, <2>6, <2>7, <2>8
<1> HIDE DEF c
<1> QED
  BY <1>4, <1>6, <1>9, <1>10, <1>12, WorldMerges

(* The approval is published or taken back.                                  *)
LEMMA ApprovalEndMerges ==
    ASSUME DecisionInv, MergedInv, PublishApproval \/ ApprovalPushFails
    PROVE  MergedInv'
<1>1. /\ main \in Revisions /\ origin \in Revisions
      /\ approval.before \in Revisions /\ approval.after \in Revisions
  BY DEF DecisionInv, ExecutionTypeOK, Approvals
<1>2. /\ UNCHANGED <<pc, job, branches, vetted>> /\ approval # NoApproval
      /\ approval' = NoApproval
      /\ origin' = origin \/ (origin' = main /\ IsPrefix(origin, main))
  <2>1. /\ UNCHANGED <<pc, job, branches, vetted>> /\ approval # NoApproval
        /\ approval' = NoApproval
    BY DEF PublishApproval, ApprovalPushFails
  <2>2. CASE PublishApproval
    <3>1. origin' = IF IsPrefix(origin, main) THEN main ELSE origin
      BY <2>2 DEF PublishApproval
    <3> QED
      BY <2>1, <3>1
  <2>3. CASE ApprovalPushFails
    <3>1. origin' \in {origin} \cup {r \in {main} : IsPrefix(origin, r)}
      BY <2>3 DEF ApprovalPushFails
    <3> QED
      BY <2>1, <3>1
  <2> QED
    BY <2>2, <2>3
<1>3. \/ /\ origin' = main /\ main = approval.after /\ UNCHANGED <<main, undone>>
         /\ UNCHANGED missions \/ Q!ApproveManualReview(approval.mission)
      \/ TakeBack
  BY DEF PublishApproval, ApprovalPushFails, queue_vars
<1>4. Commits(origin) \subseteq Commits(origin')
  BY <1>1, <1>2, PrefixHasFewer
<1>5. undone \subseteq undone'
  BY <1>3 DEF TakeBack
<1>6. /\ HasStates
      /\ HasStates /\ UNCHANGED missions => HasStates' /\ NoneBlocked /\ NoneCompleted
      /\ \A k : HasStates /\ Q!ApproveManualReview(k) =>
                    /\ HasStates' /\ NoneBlocked
                    /\ \A l : Q!InState(l, {"completed"})' =>
                                  l = k \/ Q!InState(l, {"completed"})
  BY QueueMoves DEF MergedInv
<1>7. HasStates' /\ NoneBlocked
  BY <1>3, <1>6 DEF TakeBack, queue_vars
<1>8. CompletedIsMerged'
  <2>1. CompletedIsMerged
    BY DEF MergedInv
  <2>2. CASE NoneCompleted
    BY <1>4, <1>5, <2>1, <2>2 DEF CompletedIsMerged, NoneCompleted
  <2>3. CASE origin' = approval.after /\ Q!ApproveManualReview(approval.mission)
    <3>1. \E d \in Commits(origin') : d[1] = approval.mission
      BY <1>2, <2>3 DEF DecisionInv, ApprovedWasAsked
    <3>2. \A l : Q!InState(l, {"completed"})' =>
                     l = approval.mission \/ Q!InState(l, {"completed"})
      BY <1>6, <2>3
    <3> QED
      BY <1>4, <1>5, <2>1, <3>1, <3>2 DEF CompletedIsMerged
  <2> QED
    BY <1>3, <1>6, <2>2, <2>3 DEF TakeBack, queue_vars
<1>9. Accepted'
  BY <1>2 DEF MergedInv, Accepted, HasCommit
<1>10. Commits(approval'.before) = {} /\ Commits(approval'.after) = {}
  BY <1>2 DEF NoApproval, Commits
<1>11. ASSUME NEW e \in Executors, NEW d, d = Own(e), pc[e] \notin {"idle", "down"}
       PROVE  /\ d \in vetted' => d \in vetted
              /\ pc[e] \in {"accepted", "merging"} => Unmerged(d)'
              /\ pc[e] = "pushing" =>
                    /\ d \in Commits(approval'.after) => d \in Commits(origin')
                    /\ d \in Commits(main') \cup Commits(origin') \cup undone'
  <2>1. /\ pc[e] \in {"accepted", "merging"} => Unmerged(d)
        /\ pc[e] = "pushing" =>
               /\ d \in Commits(approval.after) => d \in Commits(origin)
               /\ d \in Commits(main) \cup Commits(origin) \cup undone
    BY <1>11, OwnCommit
  <2>2. Unmerged(d) => Unmerged(d)'
    <3>1. Commits(main') \subseteq Commits(main) \cup Commits(approval.before)
      BY <1>3 DEF TakeBack
    <3>2. Commits(origin') \subseteq Commits(main) \cup Commits(origin)
      BY <1>2
    <3> QED
      BY <1>10, <3>1, <3>2 DEF Unmerged
  <2>3. ASSUME pc[e] = "pushing"
        PROVE  d \in Commits(main') \cup Commits(origin') \cup undone'
    <3>1. CASE main' = main
      BY <1>4, <1>5, <2>1, <2>3, <3>1
    <3>2. CASE TakeBack
      BY <1>4, <1>5, <2>1, <2>3, <3>2 DEF TakeBack, Lost
    <3> QED
      BY <1>3, <3>1, <3>2
  <2> QED
    BY <1>2, <1>10, <2>1, <2>2, <2>3
<1> QED
  BY <1>2, <1>4, <1>5, <1>7, <1>8, <1>9, <1>11, WorldMerges

LEMMA OtherMerges ==
    ASSUME DecisionInv, MergedInv,
           \/ PushUpstream \/ Pull \/ Soil \/ Tidy \/ UNCHANGED vars
           \/ \E m \in Missions : Intervene(m)
    PROVE  MergedInv'
<1>1. main \in Revisions /\ origin \in Revisions /\ upstream \in Nat
  BY DEF DecisionInv, ExecutionTypeOK
<1> DEFINE u == <<Upstream, upstream + 1>>
<1>2. /\ UNCHANGED <<pc, job, branches, vetted, undone, approval>>
      /\ main' \in {main, origin}
      /\ origin' \in {origin, Append(origin, u)}
  BY DEF PushUpstream, Pull, Soil, Tidy, Intervene, vars, git_vars, store_vars, history_vars,
         bound_vars
<1>3. UNCHANGED missions \/ \E m : Q!Cancel(m) \/ Q!Resume(m)
  BY DEF PushUpstream, Pull, Soil, Tidy, Intervene, vars, queue_vars
<1>4. HasStates' /\ NoneBlocked /\ NoneCompleted
  BY <1>3, QueueMoves DEF MergedInv
<1>5. u \in CommitIds
  BY <1>1 DEF CommitIds
<1>6. Commits(origin') \subseteq Commits(origin) \cup {u} /\ Commits(origin) \subseteq Commits(origin')
  <2>1. Commits(Append(origin, u)) = Commits(origin) \cup {u}
    BY <1>1, <1>5, CommitOnTop
  <2> HIDE DEF u
  <2> QED
    BY <1>2, <2>1
<1>7. CompletedIsMerged' /\ Accepted'
  <2>1. CompletedIsMerged /\ Accepted
    BY DEF MergedInv
  <2>2. CompletedIsMerged'
    BY <1>2, <1>4, <1>6, <2>1 DEF CompletedIsMerged, NoneCompleted
  <2> QED
    BY <1>2, <2>1, <2>2 DEF Accepted, HasCommit
<1>8. ASSUME NEW e \in Executors, NEW d, d = Own(e), pc[e] \notin {"idle", "down"}
      PROVE  /\ d \in vetted' => d \in vetted
             /\ pc[e] \in {"accepted", "merging"} => Unmerged(d)'
             /\ pc[e] = "pushing" =>
                   /\ d \in Commits(approval'.after) => d \in Commits(origin')
                   /\ d \in Commits(main') \cup Commits(origin') \cup undone'
  <2>1. /\ pc[e] \in {"accepted", "merging"} => Unmerged(d)
        /\ pc[e] = "pushing" =>
               /\ d \in Commits(approval.after) => d \in Commits(origin)
               /\ d \in Commits(main) \cup Commits(origin) \cup undone
    BY <1>8, OwnCommit
  <2>2. d # u
    <3>1. d[1] \in Missions
      BY <1>8, OwnCommit
    <3> QED
      BY <3>1, ExecutionAssumption
  <2> HIDE DEF u
  <2>3. Unmerged(d) => Unmerged(d)'
    <3>1. Commits(main') \subseteq Commits(main) \cup Commits(origin)
      BY <1>2
    <3>2. d \notin Commits(origin) => d \notin Commits(origin')
      BY <1>6, <2>2
    <3> QED
      BY <1>2, <3>1, <3>2 DEF Unmerged
  <2>4. d \in Commits(main) => d \in Commits(main') \cup Commits(origin')
    <3>1. CASE main' = main
      BY <3>1
    <3>2. CASE Pull
      <4>1. IsPrefix(main, origin) /\ main' = origin
        BY <3>2 DEF Pull
      <4> QED
        BY <1>1, <4>1, PrefixHasFewer
    <3>3. main' = main \/ Pull
      BY DEF PushUpstream, Soil, Tidy, Intervene, vars, git_vars
    <3> QED
      BY <3>1, <3>2, <3>3
  <2> QED
    BY <1>2, <1>6, <2>1, <2>3, <2>4
<1> QED
  BY <1>2, <1>4, <1>6, <1>7, <1>8, WorldMerges

-----------------------------------------------------------------------------
(* The steps of the only worker.                                             *)

LEMMA SoloMerges ==
    ASSUME OneWorker, MergedInv, NEW e \in Executors, Grows, HasStates', NoneCompleted,
           UNCHANGED vetted,
           Commits(origin) \cup undone \subseteq Commits(origin') \cup undone',
           OnItsWay(job[e], pc[e])'
    PROVE  MergedInv'
<1>1. \A u \in Executors : OnItsWay(job[u], pc[u])'
  <2> TAKE u \in Executors
  <2>1. u = e
    BY DEF OneWorker
  <2> QED
    BY <2>1
<1>2. Accepted'
  BY DEF MergedInv, Accepted, Grows, HasCommit
<1>3. CompletedIsMerged'
  BY DEF MergedInv, CompletedIsMerged, NoneCompleted
<1> QED
  BY <1>1, <1>2, <1>3 DEF MergedInv

(* The job and the place after a step that changes neither queue nor main.   *)
Follows(j, place, jj, pplace) ==
    /\ pplace \notin {"idle", "down"} =>
           jj.mission = j.mission /\ place \notin {"idle", "down"}
    /\ \/ pplace \in {"committing", "sending", "reviewing"}
       \/ pplace \in {"cleaning", "judging"} /\ jj.result = "changes"
       => /\ jj.branch = j.branch
          /\ \/ place \in {"committing", "sending", "reviewing"}
             \/ place \in {"cleaning", "judging"} /\ j.result = "changes"
    /\ pplace \in {"accepted", "merging"} =>
           jj.branch = j.branch /\ place \in {"accepted", "merging"}
    /\ pplace # "pushing"
    /\ pplace # "deploying"
    /\ jj.result = "merged" =>
           jj.mission = j.mission /\ (j.result = "merged" \/ place = "deploying")
    /\ jj.result = "read_only" =>
           jj.mission = j.mission /\ (j.result = "read_only" \/ j.mission \in ReadOnly)

LEMMA FollowsOnItsWay ==
    ASSUME NEW j, NEW place, NEW jj, NEW pplace, Follows(j, place, jj, pplace),
           OnItsWay(j, place),
           UNCHANGED <<missions, main, branches, approval, vetted>>,
           origin' = origin \/ pplace \notin {"accepted", "merging"},
           Commits(origin) \cup undone \subseteq Commits(origin') \cup undone'
    PROVE  OnItsWay(jj, pplace)'
<1>1. MergedOnce(j.mission) => MergedOnce(j.mission)'
  BY DEF MergedOnce
<1>2. pplace \notin {"idle", "down"} => ~Q!InState(jj.mission, {"blocked"})'
  BY DEF OnItsWay, Follows, Q!InState, Q!Known
<1>3. \/ pplace \in {"committing", "sending", "reviewing"}
      \/ pplace \in {"cleaning", "judging"} /\ jj.result = "changes"
      => jj.branch = Len(branches[jj.mission])' /\ <<jj.mission, jj.branch>> \notin vetted'
  BY DEF OnItsWay, Follows
<1>4. pplace \in {"accepted", "merging"} =>
          /\ Unmerged(<<jj.mission, jj.branch>>) /\ Unbased(<<jj.mission, jj.branch>>)
          /\ origin' = origin
  BY DEF OnItsWay, Follows
<1>5. PICK c : c = <<jj.mission, jj.branch>>
  OBVIOUS
<1>6. pplace \in {"accepted", "merging"} =>
          Unmerged(c)' /\ Unbased(c)' /\ c \notin Commits(approval'.after)
  BY <1>4, <1>5 DEF Unmerged, Unbased
<1>7. /\ jj.result = "merged" => MergedOnce(jj.mission)'
      /\ jj.result = "read_only" => jj.mission \in ReadOnly
  BY <1>1 DEF OnItsWay, Follows
<1>8. pplace # "pushing" /\ pplace # "deploying"
  BY DEF Follows
<1> QED
  BY <1>2, <1>3, <1>5, <1>6, <1>7, <1>8 DEF OnItsWay

(* Its own place after a step of the only worker.                            *)
LEMMA FollowsMerges ==
    ASSUME OneWorker, DecisionInv, MergedInv, NEW e \in Executors,
           UNCHANGED <<missions, main, branches, approval, vetted>>, asked \subseteq asked',
           origin' = origin \/ pc'[e] \notin {"accepted", "merging"},
           Commits(origin) \cup undone \subseteq Commits(origin') \cup undone',
           Follows(job[e], pc[e], job'[e], pc'[e])
    PROVE  MergedInv'
<1>1. PICK j, place, jj, pplace : j = job[e] /\ place = pc[e] /\ jj = job'[e] /\ pplace = pc'[e]
  OBVIOUS
<1>2. OnItsWay(j, place)
  BY <1>1 DEF MergedInv
<1>3. OnItsWay(jj, pplace)'
  BY <1>1, <1>2, FollowsOnItsWay
<1>4. OnItsWay(job[e], pc[e])'
  BY <1>1, <1>3
<1>5. Grows
  BY DEF Grows
<1>6. HasStates' /\ NoneCompleted
  BY QueueMoves DEF MergedInv
<1> QED
  BY <1>4, <1>5, <1>6, SoloMerges

LEMMA QuietMerges ==
    ASSUME OneWorker, DecisionInv, MergedInv, NEW e \in Executors,
           \/ CheckClean(e) \/ Skip(e) \/ CreateWorkspace(e) \/ WorkspaceFails(e) \/ GiveUp(e)
           \/ AdapterReturns(e) \/ CreateBranchFails(e) \/ CommitFails(e) \/ SendBranch(e)
           \/ SendBranchFails(e) \/ RemoveWorkspace(e) \/ RemoveFails(e) \/ Judge(e)
           \/ ReadHead(e) \/ UndoFails(e) \/ Deploy(e) \/ Persist(e) \/ Crash(e)
    PROVE  MergedInv'
<1> USE DEF git_vars, history_vars, queue_vars, bound_vars, store_vars
<1>1. /\ UNCHANGED <<missions, main, branches, approval, vetted, asked, undone, origin>>
      /\ pc[e] \notin {"idle", "down"}
  BY DEF CheckClean, Skip, CreateWorkspace, WorkspaceFails, GiveUp, AdapterReturns,
         CreateBranchFails, CommitFails, BranchBreaks, SendBranch, SendBranchFails,
         RemoveWorkspace, RemoveFails, Judge, ReadHead, UndoFails, Deploy, Persist, Crash
<1>2. /\ pc \in [Executors -> Places] /\ job \in [Executors -> Jobs] /\ job[e] \in Jobs
      /\ job[e].branch \in Nat
  BY DEF DecisionInv, ExecutionTypeOK, Jobs
<1>3. PICK j, place, jj, pplace : j = job[e] /\ place = pc[e] /\ jj = job'[e] /\ pplace = pc'[e]
  OBVIOUS
<1>4. j \in Jobs /\ place \notin {"idle", "down"}
  BY <1>1, <1>2, <1>3
<1>5. \A x : Go(e, x) => pplace = x
  BY <1>2, <1>3 DEF Go
<1>6. \A x : Set(e, "result", x) => jj = [j EXCEPT !.result = x]
  BY <1>2, <1>3 DEF Set
<1>7. \A x : Finish(e, x) => pplace = "persisting" /\ jj = [j EXCEPT !.result = x]
  BY <1>5, <1>6 DEF Finish
<1>8. UNCHANGED job => jj = j
  BY <1>3
<1>9. ASSUME NEW x, Finish(e, x), x \notin {"merged", "read_only"} PROVE Follows(j, place, jj, pplace)
  <2>1. pplace = "persisting" /\ jj.mission = j.mission /\ jj.result = x
    BY <1>4, <1>7, <1>9 DEF Jobs
  <2> QED
    BY <1>4, <1>9, <2>1 DEF Follows
<1>10. ASSUME Unpublished(e) PROVE Follows(j, place, jj, pplace)
  <2>1. pplace = "cleaning" /\ jj.mission = j.mission /\ jj.result = "exception"
    BY <1>4, <1>5, <1>6, <1>10 DEF Jobs, Unpublished
  <2> QED
    BY <1>4, <2>1 DEF Follows
<1>11. Follows(j, place, jj, pplace)
  <2>11. CASE CheckClean(e)
    <3>1. Finish(e, "dirty") \/ (pplace = "routing" /\ jj = j)
      BY <1>5, <1>8, <2>11 DEF CheckClean
    <3> QED
      BY <1>4, <1>9, <3>1 DEF Follows
  <2>12. CASE Skip(e)
    <3>1. pplace = "routing" /\ jj.mission = j.mission /\ jj.result = j.result
      BY <1>2, <1>3, <2>12 DEF Skip, Set, Jobs
    <3> QED
      BY <1>4, <3>1 DEF Follows
  <2>13. CASE CreateWorkspace(e)
    <3>1. pplace = "running" /\ jj.mission = j.mission /\ jj.result = j.result
      BY <1>2, <1>3, <1>5, <2>13 DEF CreateWorkspace, Jobs
    <3> QED
      BY <1>4, <3>1 DEF Follows
  <2>14. CASE WorkspaceFails(e)
    BY <1>9, <2>14 DEF WorkspaceFails
  <2>15. CASE GiveUp(e)
    <3>1. /\ pplace = "persisting" /\ jj.mission = j.mission
          /\ jj.result = "unavailable" \/ jj.result = j.result
      <4>1. PICK x : Finish(e, x) /\ x \in {"unavailable", j.result}
        BY <1>3, <2>15 DEF GiveUp
      <4> QED
        BY <1>4, <1>7, <4>1 DEF Jobs
    <3> QED
      BY <1>4, <3>1 DEF Follows
  <2>16. CASE AdapterReturns(e)
    <3>a. PICK outcome \in Outcomes, risk \in {"low", "high"} :
              /\ job' = [job EXCEPT ![e].result = outcome, ![e].risk = risk]
              /\ Go(e, IF outcome = "changes" THEN "publishing" ELSE "cleaning")
      BY <2>16 DEF AdapterReturns
    <3>b. jj = [j EXCEPT !.result = outcome, !.risk = risk]
      BY <1>2, <1>3, <3>a
    <3>1. /\ pplace = IF outcome = "changes" THEN "publishing" ELSE "cleaning"
          /\ jj.mission = j.mission /\ jj.result = outcome
      BY <1>4, <1>5, <3>a, <3>b DEF Jobs
    <3>2. outcome \notin {"merged", "read_only"}
      BY ExecutionAssumption DEF AdapterOutcomes, ManagedOpenHandsOutcomes, OpenClawOutcomes
    <3> QED
      BY <1>4, <3>1, <3>2 DEF Follows
  <2>17. CASE CreateBranchFails(e) \/ CommitFails(e) \/ SendBranchFails(e)
    BY <1>10, <2>17 DEF CreateBranchFails, CommitFails, SendBranchFails, BranchBreaks
  <2>18. CASE SendBranch(e)
    <3>1. place = "sending" /\ pplace = "cleaning" /\ jj = j
      BY <1>3, <1>5, <1>8, <2>18 DEF SendBranch
    <3> QED
      BY <3>1 DEF Follows
  <2>19. CASE RemoveWorkspace(e)
    <3>1. place = "cleaning" /\ pplace = "judging" /\ jj = j
      BY <1>3, <1>5, <1>8, <2>19 DEF RemoveWorkspace
    <3> QED
      BY <3>1 DEF Follows
  <2>20. CASE RemoveFails(e)
    <3>1. /\ place = "cleaning" /\ pplace = "judging" /\ jj.mission = j.mission
          /\ jj.branch = j.branch
          /\ jj.result = "leftover" \/ (jj.result = j.result /\ j.result # "changes")
      <4>1. PICK x : /\ Set(e, "result", x)
                     /\ x = "leftover" \/ (x = j.result /\ j.result # "changes")
        BY <1>3, <2>20 DEF RemoveFails
      <4>2. place = "cleaning" /\ pplace = "judging"
        BY <1>3, <1>5, <2>20 DEF RemoveFails
      <4>3. jj = [j EXCEPT !.result = x]
        BY <1>6, <4>1
      <4> QED
        BY <1>4, <4>1, <4>2, <4>3 DEF Jobs
    <3> QED
      BY <3>1 DEF Follows
  <2>21. CASE Judge(e)
    <3>1. CASE Finish(e, "dirty") \/ Finish(e, "no_changes")
      BY <1>9, <3>1
    <3>2. CASE pplace \in {"reviewing", "routing"} /\ jj = j /\ place = "judging"
               /\ (pplace = "reviewing" => j.result = "changes")
      BY <3>2 DEF Follows
    <3>3. CASE Finish(e, "read_only") /\ j.mission \in ReadOnly
      <4>1. pplace = "persisting" /\ jj.mission = j.mission /\ jj.result = "read_only"
        BY <1>4, <1>7, <3>3 DEF Jobs
      <4> QED
        BY <1>4, <3>3, <4>1 DEF Follows
    <3>4. CASE Finish(e, j.result)
      <4>1. pplace = "persisting" /\ jj.mission = j.mission /\ jj.result = j.result
        BY <1>4, <1>7, <3>4 DEF Jobs
      <4> QED
        BY <1>4, <4>1 DEF Follows
    <3> QED
      BY <1>3, <1>5, <1>8, <2>21, <3>1, <3>2, <3>3, <3>4 DEF Judge
  <2>22. CASE ReadHead(e)
    <3>1. /\ place = "accepted" /\ pplace = "merging" /\ jj.mission = j.mission
          /\ jj.branch = j.branch /\ jj.result = j.result
      BY <1>2, <1>3, <1>5, <2>22 DEF ReadHead, Set, Jobs
    <3> QED
      BY <3>1 DEF Follows
  <2>23. CASE UndoFails(e)
    BY <1>9, <2>23 DEF UndoFails
  <2>24. CASE Deploy(e)
    <3>1. CASE Finish(e, "merged")
      <4>1. place = "deploying" /\ pplace = "persisting" /\ jj.mission = j.mission
            /\ jj.result = "merged"
        <5>1. place = "deploying"
          BY <1>3, <2>24 DEF Deploy
        <5>2. pplace = "persisting" /\ jj = [j EXCEPT !.result = "merged"]
          BY <1>7, <3>1
        <5> QED
          BY <1>4, <5>1, <5>2 DEF Jobs
      <4> QED
        BY <4>1 DEF Follows
    <3>2. CASE Finish(e, "project_deployment_failed")
      BY <1>9, <3>2
    <3> QED
      BY <2>24, <3>1, <3>2 DEF Deploy
  <2>25. CASE Persist(e)
    <3>1. pplace = "settling" /\ jj = j
      BY <1>5, <1>8, <2>25 DEF Persist
    <3> QED
      BY <1>4, <3>1 DEF Follows
  <2>26. CASE Crash(e)
    <3>1. pplace = "down" /\ jj.result = "none"
      BY <1>2, <1>3, <1>5, <2>26, NoJobFacts DEF Crash
    <3> QED
      BY <3>1 DEF Follows
  <2> QED
    BY <1>3, <2>11, <2>12, <2>13, <2>14, <2>15, <2>16, <2>17, <2>18, <2>19, <2>20, <2>21,
       <2>22, <2>23, <2>24, <2>25, <2>26
<1>12. Follows(job[e], pc[e], job'[e], pc'[e])
  BY <1>3, <1>11
<1> QED
  BY <1>1, <1>12, FollowsMerges

LEMMA ClaimMerges ==
    ASSUME OneWorker, DecisionInv, MergedInv, NEW e \in Executors, Claim(e)
    PROVE  MergedInv'
<1> USE DEF git_vars, history_vars, queue_vars, bound_vars, store_vars
<1>1. PICK m \in Missions :
          /\ Q!Claim(m)
          /\ job' = [job EXCEPT ![e] = [NoJob EXCEPT
                        !.mission = m,
                        !.result = IF m \in Protected THEN "refused" ELSE "none"]]
          /\ Go(e, IF m \in Protected THEN "persisting" ELSE "starting")
  BY DEF Claim
<1>2. UNCHANGED <<main, origin, branches, approval, vetted, asked, undone>>
  BY DEF Claim
<1>3. /\ pc \in [Executors -> Places] /\ job \in [Executors -> Jobs]
  BY DEF DecisionInv, ExecutionTypeOK
<1>4. /\ pc'[e] \in {"persisting", "starting"}
      /\ job'[e].mission = m /\ job'[e].result \in {"refused", "none"}
  BY <1>1, <1>3 DEF Go, NoJob
<1>5. HasStates' /\ NoneCompleted /\ ~Q!InState(m, {"blocked"})'
  BY <1>1, QueueMoves DEF MergedInv
<1>6. OnItsWay(job[e], pc[e])'
  BY <1>4, <1>5 DEF OnItsWay
<1>7. Grows
  BY <1>2 DEF Grows
<1> QED
  BY <1>2, <1>5, <1>6, <1>7, SoloMerges

(* Without a job nothing is promised.                                        *)
LEMMA IdleIsOnItsWay ==
    ASSUME NEW j, NEW place \in {"idle", "down"}, j.result = "none"
    PROVE  OnItsWay(j, place)'
BY DEF OnItsWay

LEMMA SettleMerges ==
    ASSUME OneWorker, DecisionInv, MergedInv, NEW e \in Executors, Settle(e) \/ Restart(e)
    PROVE  MergedInv'
<1> USE DEF git_vars, history_vars, queue_vars, bound_vars, store_vars
<1>1. UNCHANGED <<main, origin, branches, approval, vetted, asked, undone>>
  BY DEF Settle, Restart
<1>2. /\ pc \in [Executors -> Places] /\ job \in [Executors -> Jobs]
  BY DEF DecisionInv, ExecutionTypeOK
<1>3. OnItsWay(job[e], pc[e])
  BY DEF MergedInv
<1>4. OnItsWay(job[e], pc[e])'
  <2>1. CASE Settle(e)
    <3>1. job'[e] = NoJob /\ pc'[e] \in {"idle", "down"}
      BY <1>2, <2>1 DEF Settle, Go
    <3>2. PICK j, place : j = NoJob /\ place = pc'[e]
      OBVIOUS
    <3>3. OnItsWay(j, place)'
      BY <3>1, <3>2, NoJobFacts, IdleIsOnItsWay
    <3> QED
      BY <3>1, <3>2, <3>3
  <2>2. CASE Restart(e)
    <3>1. job'[e] = job[e] /\ pc[e] = "down" /\ pc'[e] = "idle"
      BY <1>2, <2>2 DEF Restart, Go
    <3>2. PICK j : j = job[e]
      OBVIOUS
    <3>3. OnItsWay(j, "down")
      BY <1>3, <3>1, <3>2
    <3>4. MergedOnce(j.mission) => MergedOnce(j.mission)'
      BY <1>1 DEF MergedOnce
    <3>5. OnItsWay(j, "idle")'
      BY <3>3, <3>4 DEF OnItsWay
    <3> QED
      BY <3>1, <3>2, <3>5
  <2> QED
    BY <2>1, <2>2
<1>5. Grows
  BY <1>1 DEF Grows
<1>6. CASE HasStates' /\ NoneCompleted
  BY <1>1, <1>4, <1>5, <1>6, SoloMerges
<1>7. CASE StatusOf(job[e].result) = "success" /\ Q!Complete(job[e].mission)
  <2>1. PICK m : m = job[e].mission
    OBVIOUS
  <2>2. job[e].result \in {"merged", "read_only"}
    BY <1>7 DEF StatusOf
  <2>3. m \in ReadOnly \/ MergedOnce(m)
    BY <1>3, <2>1, <2>2 DEF OnItsWay
  <2>4. HasStates' /\ \A k : Q!InState(k, {"completed"})' => k = m \/ Q!InState(k, {"completed"})
    BY <1>7, <2>1, QueueMoves DEF MergedInv
  <2>5. CompletedIsMerged'
    BY <1>1, <2>3, <2>4 DEF MergedInv, CompletedIsMerged, MergedOnce
  <2>6. Accepted'
    BY <1>1 DEF MergedInv, Accepted, HasCommit
  <2>7. \A u \in Executors : OnItsWay(job[u], pc[u])'
    <3> TAKE u \in Executors
    <3>1. u = e
      BY DEF OneWorker
    <3> QED
      BY <1>4, <3>1
  <2> QED
    BY <2>4, <2>5, <2>6, <2>7 DEF MergedInv
<1>8. \/ StatusOf(job[e].result) = "success" /\ Q!Complete(job[e].mission)
      \/ \E m : Q!Fail(m) \/ Q!Block(m) \/ Q!RecoverStale \/ UNCHANGED missions
  BY DEF Settle, Restart
<1> QED
  BY <1>6, <1>7, <1>8, QueueMoves DEF MergedInv

(* A new branch has a commit nobody has accepted yet.                        *)
LEMMA BranchMerges ==
    ASSUME OneWorker, DecisionInv, MergedInv, NEW e \in Executors, CreateBranch(e) \/ Commit(e)
    PROVE  MergedInv'
<1> USE DEF git_vars, history_vars, queue_vars, bound_vars, store_vars
<1>1. UNCHANGED <<missions, main, origin, approval, vetted, asked, undone>>
  BY DEF CreateBranch, Commit
<1>2. /\ pc \in [Executors -> Places] /\ job \in [Executors -> Jobs]
      /\ job[e] \in Jobs /\ branches \in [Missions -> Seq(Branches)]
  BY DEF DecisionInv, ExecutionTypeOK
<1>3. PICK m, n : m = job[e].mission /\ n = job[e].branch
  OBVIOUS
<1>4. /\ pc[e] \in {"publishing", "committing"} /\ m \in Missions
      /\ pc[e] = "committing" => n \in DOMAIN branches[m]
      /\ OnItsWay(job[e], pc[e])
  BY <1>3 DEF CreateBranch, Commit, DecisionInv, PlaceOK, Fits, MergedInv
<1>5. branches[m] \in Seq(Branches) /\ Len(branches[m]) \in Nat
  BY <1>2, <1>4
<1>6. HasStates' /\ NoneCompleted
  BY <1>1, QueueMoves DEF MergedInv
<1>7. ~Q!InState(m, {"blocked"}) /\ ~Q!InState(m, {"blocked"})'
  BY <1>1, <1>3, <1>4 DEF OnItsWay, Q!InState, Q!Known
<1>8. /\ job[e].result = "merged" => MergedOnce(m) /\ MergedOnce(m)'
      /\ job[e].result = "read_only" => m \in ReadOnly
  BY <1>1, <1>3, <1>4 DEF OnItsWay, MergedOnce
<1>9. CASE CreateBranch(e)
  <2>1. /\ branches' = [branches EXCEPT ![m] = Append(@,
                           [base |-> job[e].base, committed |-> FALSE, risk |-> job[e].risk])]
        /\ Set(e, "branch", Len(branches[m]) + 1) /\ Go(e, "committing")
    BY <1>3, <1>9 DEF CreateBranch
  <2>2. PICK b : /\ b = [base |-> job[e].base, committed |-> FALSE, risk |-> job[e].risk]
                 /\ branches' = [branches EXCEPT ![m] = Append(@, b)]
    BY <2>1
  <2>3. branches'[m] = Append(branches[m], b) /\ \A k \in Missions \ {m} : branches'[k] = branches[k]
    BY <1>2, <1>4, <2>2
  <2>4. b \in Branches
    BY <1>2, <2>2 DEF Branches, Jobs
  <2>5. /\ Len(branches'[m]) = Len(branches[m]) + 1
        /\ \A k \in 1..Len(branches[m]) : branches'[m][k] = branches[m][k]
        /\ DOMAIN branches[m] = 1..Len(branches[m])
        /\ DOMAIN branches'[m] = 1..(Len(branches[m]) + 1)
    BY <1>5, <2>3, <2>4, AppendProperties
  <2>6. Grows
    BY <1>1, <1>5, <2>3, <2>5 DEF Grows
  <2>7. /\ pc'[e] = "committing" /\ job'[e].mission = m
        /\ job'[e].branch = Len(branches[m]) + 1 /\ job'[e].result = job[e].result
    BY <1>2, <1>3, <2>1 DEF Go, Set, Jobs
  <2>8. <<m, Len(branches[m]) + 1>> \notin vetted
    BY <1>5, <2>5 DEF MergedInv, Accepted, HasCommit
  <2>9. OnItsWay(job[e], pc[e])'
    BY <1>1, <1>7, <1>8, <2>5, <2>7, <2>8 DEF OnItsWay
  <2> QED
    BY <1>1, <1>6, <2>6, <2>9, SoloMerges
<1>10. CASE Commit(e)
  <2>1. /\ branches' = [branches EXCEPT ![m][n].committed = TRUE]
        /\ pc[e] = "committing" /\ pc'[e] = "sending" /\ job' = job
    BY <1>2, <1>3, <1>10 DEF Commit, Go
  <2>2. /\ branches'[m] = [branches[m] EXCEPT ![n].committed = TRUE]
        /\ \A k \in Missions \ {m} : branches'[k] = branches[k]
    BY <1>2, <1>4, <2>1
  <2>3. /\ DOMAIN branches'[m] = DOMAIN branches[m]
        /\ \A k \in DOMAIN branches[m] :
              branches'[m][k] = IF k = n THEN [branches[m][n] EXCEPT !.committed = TRUE]
                                         ELSE branches[m][k]
    BY <2>2
  <2>4. branches[m][n] \in Branches
    BY <1>4, <1>5, <2>1
  <2>5. \A k \in DOMAIN branches[m] : branches[m][k].committed => branches'[m][k].committed
    BY <2>3, <2>4 DEF Branches
  <2>6. Grows
    BY <1>1, <2>2, <2>3, <2>5 DEF Grows
  <2>7. Len(branches'[m]) = Len(branches[m])
    <3>1. branches'[m] \in Seq(Branches)
      BY <1>4, <1>10, CommitStep DEF DecisionInv, ExecutionTypeOK
    <3> QED
      BY <1>5, <2>3, <3>1
  <2>8. OnItsWay(job[e], pc[e])'
    BY <1>1, <1>3, <1>4, <1>7, <1>8, <2>1, <2>7 DEF OnItsWay
  <2> QED
    BY <1>1, <1>6, <2>6, <2>8, SoloMerges
<1> QED
  BY <1>9, <1>10

(* The newest branch has the newest commit, if it has one.                   *)
LEMMA NewestIsLast ==
    ASSUME DecisionInv, NEW m \in Missions, HasCommit(m, Len(branches[m]))
    PROVE  Newest(m) = Len(branches[m])
<1> DEFINE own == {n \in DOMAIN branches[m] : branches[m][n].committed}
           last == Len(branches[m])
<1>1. branches[m] \in Seq(Branches)
  BY DEF DecisionInv, ExecutionTypeOK
<1>2. last \in own /\ own \subseteq 1..last /\ last \in Nat
  BY <1>1 DEF HasCommit
<1>3. \E n \in own : \A k \in own : k <= n
  BY <1>2
<1>4. Newest(m) \in own /\ \A k \in own : k <= Newest(m)
  BY <1>3 DEF Newest
<1>5. PICK x, y : x = Newest(m) /\ y = last
  OBVIOUS
<1> HIDE DEF own, last
<1>6. y \in own /\ own \subseteq 1..y /\ y \in Nat /\ x \in own /\ \A k \in own : k <= x
  BY <1>2, <1>4, <1>5
<1>7. x = y
  BY <1>6
<1> QED
  BY <1>5, <1>7 DEF last

LEMMA ReviewMerges ==
    ASSUME OneWorker, DecisionInv, MergedInv, NEW e \in Executors, Review(e)
    PROVE  MergedInv'
<1> USE DEF git_vars, history_vars, queue_vars, bound_vars, store_vars
<1>1. /\ UNCHANGED <<missions, main, origin, branches, approval, undone>>
      /\ pc[e] = "reviewing"
  BY DEF Review
<1>2. /\ pc \in [Executors -> Places] /\ job \in [Executors -> Jobs] /\ job[e] \in Jobs
  BY DEF DecisionInv, ExecutionTypeOK
<1>3. PICK m, n, c : m = job[e].mission /\ n = job[e].branch /\ c = <<m, n>>
  OBVIOUS
<1>4. m \in Missions /\ HasCommit(m, n) /\ OnItsWay(job[e], "reviewing")
  BY <1>1, <1>3 DEF DecisionInv, PlaceOK, Fits, MergedInv
<1>5. n = Len(branches[m]) /\ c \notin vetted /\ ~Q!InState(m, {"blocked"})
      /\ (job[e].result = "merged" => MergedOnce(m))
      /\ (job[e].result = "read_only" => m \in ReadOnly)
  BY <1>3, <1>4 DEF OnItsWay
<1>6. Newest(m) = n
  BY <1>4, <1>5, NewestIsLast
<1>7. \/ /\ job'[e] = [job[e] EXCEPT !.branch = n] /\ pc'[e] = "accepted"
         /\ vetted' = vetted \cup {c} /\ UNCHANGED asked
      \/ /\ job'[e] = [job[e] EXCEPT !.branch = n, !.result = "manual_review_required"]
         /\ pc'[e] = "persisting" /\ asked \subseteq asked' /\ UNCHANGED vetted
  BY <1>2, <1>3, <1>6 DEF Review, Go
<1>8. HasStates' /\ NoneCompleted /\ ~Q!InState(m, {"blocked"})'
  BY <1>1, <1>5, QueueMoves DEF MergedInv, Q!InState, Q!Known
<1>9. CASE UNCHANGED vetted
  <2>1. /\ job'[e].mission = m /\ job'[e].result \in {job[e].result, "manual_review_required"}
    BY <1>2, <1>3, <1>7 DEF Jobs
  <2>2. pc'[e] = "persisting"
    BY <1>5, <1>7, <1>9
  <2>3. MergedOnce(m) => MergedOnce(m)'
    BY <1>1 DEF MergedOnce
  <2>4. OnItsWay(job[e], pc[e])'
    BY <1>5, <1>8, <2>1, <2>2, <2>3 DEF OnItsWay
  <2>5. Grows
    BY <1>1, <1>7 DEF Grows
  <2> QED
    BY <1>1, <1>8, <1>9, <2>4, <2>5, SoloMerges
<1>10. CASE vetted' = vetted \cup {c} /\ pc'[e] = "accepted"
  <2>1. /\ job'[e].mission = m /\ job'[e].result = job[e].result /\ job'[e].branch = n
    BY <1>2, <1>3, <1>5, <1>7, <1>10 DEF Jobs
  <2>2. c[1] = m /\ m # Upstream
    BY <1>3, <1>4, ExecutionAssumption
  <2>3. Unmerged(c)
    BY <1>5, <2>2, SoundCommits DEF Unmerged, DecisionInv, AllSound
  <2>4. Unbased(c)
    BY <1>5, <2>2, SoundCommits DEF Unbased, DecisionInv, AllSound
  <2>5. Unmerged(c)' /\ Unbased(c)'
    BY <1>1, <2>3, <2>4 DEF Unmerged, Unbased
  <2>6. c \notin Commits(approval'.after)
    BY <1>1, <2>3 DEF Unmerged
  <2>7. MergedOnce(m) => MergedOnce(m)'
    BY <1>1 DEF MergedOnce
  <2>8. OnItsWay(job[e], pc[e])'
    BY <1>3, <1>5, <1>8, <1>10, <2>1, <2>5, <2>6, <2>7 DEF OnItsWay
  <2>9. Accepted'
    BY <1>1, <1>3, <1>4, <1>10 DEF MergedInv, Accepted, HasCommit
  <2>10. CompletedIsMerged'
    BY <1>1, <1>8 DEF MergedInv, CompletedIsMerged, NoneCompleted
  <2>11. \A u \in Executors : OnItsWay(job[u], pc[u])'
    <3> TAKE u \in Executors
    <3>1. u = e
      BY DEF OneWorker
    <3> QED
      BY <2>8, <3>1
  <2> QED
    BY <1>8, <2>9, <2>10, <2>11 DEF MergedInv
<1> QED
  BY <1>7, <1>9, <1>10

LEMMA MainMerges ==
    ASSUME OneWorker, DecisionInv, MergedInv, NEW e \in Executors,
           FastForward(e) \/ PushMain(e) \/ PushMainFails(e) \/ Undo(e)
    PROVE  MergedInv'
<1> USE DEF git_vars, history_vars, queue_vars, bound_vars, store_vars
<1>1. UNCHANGED <<missions, branches, approval, vetted, asked>>
  BY DEF FastForward, PushMain, PushMainFails, Undo
<1>2. /\ pc \in [Executors -> Places] /\ job \in [Executors -> Jobs] /\ job[e] \in Jobs
      /\ main \in Revisions /\ origin \in Revisions
  BY DEF DecisionInv, ExecutionTypeOK
<1>3. PICK m, n, c : m = job[e].mission /\ n = job[e].branch /\ c = <<m, n>>
  OBVIOUS
<1>4. /\ pc[e] \in {"merging", "pushing", "undoing"} /\ m \in Missions
      /\ OnItsWay(job[e], pc[e])
  BY <1>3 DEF FastForward, PushMain, PushMainFails, Undo, DecisionInv, PlaceOK, Fits, MergedInv
<1>5. /\ ~Q!InState(m, {"blocked"})
      /\ pc[e] = "merging" => Unmerged(c)
      /\ pc[e] \in {"merging", "pushing"} => Unbased(c)
      /\ pc[e] = "pushing" => c \in Commits(main) \cup Commits(origin) \cup undone
      /\ job[e].result = "merged" => MergedOnce(m)
      /\ job[e].result = "read_only" => m \in ReadOnly
  BY <1>3, <1>4 DEF OnItsWay
<1>6. HasStates' /\ NoneCompleted /\ ~Q!InState(m, {"blocked"})'
  BY <1>1, <1>5, QueueMoves DEF MergedInv, Q!InState, Q!Known
<1>7. Grows
  BY <1>1 DEF Grows
<1>8. Commits(origin) \subseteq Commits(origin') /\ undone \subseteq undone'
  <2>1. /\ origin' = origin \/ (origin' = main /\ IsPrefix(origin, main))
        /\ undone \subseteq undone'
    <3>1. CASE FastForward(e) \/ Undo(e)
      BY <3>1 DEF FastForward, Undo
    <3>2. CASE PushMain(e)
      BY <3>2 DEF PushMain
    <3>3. CASE PushMainFails(e)
      BY <3>3 DEF PushMainFails
    <3> QED
      BY <3>1, <3>2, <3>3
  <2> QED
    BY <1>2, <2>1, PrefixHasFewer
<1>9. MergedOnce(m) => MergedOnce(m)'
  BY <1>8 DEF MergedOnce
<1>10. /\ \A x : Go(e, x) => pc'[e] = x
       /\ \A x : Finish(e, x) =>
             pc'[e] = "persisting" /\ job'[e].mission = m /\ job'[e].result = x
  BY <1>2, <1>3 DEF Finish, Go, Set, Jobs
<1>11. ASSUME NEW x \in {"fast_forward_merge_failed", "main_push_failed"}, Finish(e, x)
       PROVE  OnItsWay(job[e], pc[e])'
  BY <1>6, <1>10, <1>11 DEF OnItsWay
<1>12. OnItsWay(job[e], pc[e])'
  <2>1. CASE FastForward(e)
    <3>1. PICK tip : tip = Tip(m, n)
      OBVIOUS
    <3>2. CASE Finish(e, "fast_forward_merge_failed")
      BY <1>11, <3>2
    <3>3. CASE /\ IsPrefix(main, tip) \/ IsPrefix(tip, main)
               /\ main' = IF IsPrefix(main, tip) THEN tip ELSE main
               /\ Go(e, "pushing") /\ UNCHANGED job
      <4>1. HasCommit(m, n) /\ pc[e] = "merging" /\ UNCHANGED <<origin, undone>>
        BY <1>3, <2>1 DEF FastForward, DecisionInv, PlaceOK, Fits
      <4>2. tip \in Revisions /\ c \in Commits(tip)
        <5>1. PICK base : /\ base = branches[m][n].base /\ base \in Revisions
                          /\ c \in CommitIds /\ tip = Append(base, c)
          BY <1>3, <1>4, <3>1, <4>1, TipFacts DEF DecisionInv
        <5> QED
          BY <5>1, CommitOnTop
      <4>3. c \in Commits(main')
        <5>1. CASE main' = tip
          BY <4>2, <5>1
        <5>2. CASE main' = main /\ IsPrefix(tip, main)
          BY <1>2, <4>2, <5>2, PrefixHasFewer
        <5> QED
          BY <3>3, <5>1, <5>2
      <4>4. c \notin Commits(approval'.after)
        BY <1>1, <1>5, <4>1 DEF Unmerged
      <4>5. Unbased(c)'
        BY <1>1, <1>5, <4>1 DEF Unbased
      <4>6. pc'[e] = "pushing" /\ job' = job
        BY <1>10, <3>3
      <4> QED
        BY <1>3, <1>5, <1>6, <1>9, <4>3, <4>4, <4>5, <4>6 DEF OnItsWay
    <3> QED
      BY <1>3, <2>1, <3>1, <3>2, <3>3 DEF FastForward
  <2>2. CASE PushMain(e)
    <3>1. pc[e] = "pushing" /\ job' = job
      BY <2>2 DEF PushMain
    <3>2. CASE origin' = main /\ pc'[e] = "deploying"
      <4>1. c \in Commits(origin') \cup undone' /\ c[1] = m
        BY <1>3, <1>5, <1>8, <3>1, <3>2
      <4>2. MergedOnce(m)'
        BY <4>1 DEF MergedOnce
      <4> QED
        BY <1>3, <1>5, <1>6, <3>1, <3>2, <4>2 DEF OnItsWay
    <3>3. CASE pc'[e] = "undoing"
      BY <1>3, <1>5, <1>6, <1>9, <3>1, <3>3 DEF OnItsWay
    <3> QED
      BY <1>10, <2>2, <3>2, <3>3 DEF PushMain
  <2>3. CASE PushMainFails(e)
    <3>1. pc'[e] = "undoing" /\ job' = job
      BY <1>10, <2>3 DEF PushMainFails
    <3> QED
      BY <1>3, <1>5, <1>6, <1>9, <3>1 DEF OnItsWay
  <2>4. CASE Undo(e)
    BY <1>11, <2>4 DEF Undo
  <2> QED
    BY <2>1, <2>2, <2>3, <2>4
<1> QED
  BY <1>1, <1>6, <1>7, <1>8, <1>12, SoloMerges

-----------------------------------------------------------------------------
(* The invariant holds.                                                      *)

LEMMA MergedInit == Init => MergedInv
<1> SUFFICES ASSUME Init PROVE MergedInv
  OBVIOUS
<1>1. \A m \in DOMAIN missions : "state" \in DOMAIN missions[m] /\ missions[m].state = "pending"
  BY DEF Init
<1>2. Accepted /\ HasStates
  BY <1>1 DEF Init, Accepted, HasStates
<1>3. CompletedIsMerged
  BY <1>1 DEF CompletedIsMerged, Q!InState, Q!Known
<1>4. \A e \in Executors : OnItsWay(job[e], pc[e])
  BY NoJobFacts DEF Init, OnItsWay
<1> QED
  BY <1>2, <1>3, <1>4 DEF MergedInv

LEMMA MergedNext == OneWorker /\ DecisionInv /\ MergedInv /\ [Next]_vars => MergedInv'
<1> SUFFICES ASSUME OneWorker, DecisionInv, MergedInv, [Next]_vars PROVE MergedInv'
  OBVIOUS
<1>1. ASSUME NEW e \in Executors, Step(e) \/ Failure(e) PROVE MergedInv'
  BY <1>1, QuietMerges, ClaimMerges, SettleMerges, BranchMerges, ReviewMerges, MainMerges
  DEF Step, Failure
<1>2. ASSUME NEW m \in Missions, Approve(m) PROVE MergedInv'
  BY <1>2, ApproveMerges
<1>3. CASE PublishApproval \/ ApprovalPushFails
  BY <1>3, ApprovalEndMerges
<1>4. CASE PushUpstream \/ Pull \/ Soil \/ Tidy \/ UNCHANGED vars
           \/ \E m \in Missions : Intervene(m)
  BY <1>4, OtherMerges
<1> QED
  BY <1>1, <1>2, <1>3, <1>4 DEF Next

-----------------------------------------------------------------------------
(* At rest the checkout holds nothing unpublished, if one worker runs.       *)

(* What may leave something unpublished in the checkout, or nothing did yet. *)
Excused ==
    \/ faults \cap {"crash", "reset"} # {}
    \/ {"push_main", "push_approval"} \subseteq faults
    \/ upstream # 0

NoPushFailed == {"push_main", "push_approval"} \cap faults = {}

Withdrawing == \E e \in Executors : pc[e] \in {"pushing", "undoing"}

(* An approval adds to what is published, one commit unless a push failed.   *)
ApprovalAdds ==
    approval # NoApproval =>
        /\ IsPrefix(approval.before, origin)
        /\ IsPrefix(approval.before, approval.after)
        /\ Len(approval.before) < Len(approval.after)
        /\ NoPushFailed => Len(approval.after) = Len(approval.before) + 1

(* Main is ahead of origin while somebody is about to push it, or to take it *)
(* back; outside of that it is what the approval under way made of origin.   *)
MainInHand ==
    ~IsPrefix(main, origin) /\ ~Withdrawing =>
        /\ approval # NoApproval
        /\ IsPrefix(origin, main)
        /\ "push_main" \notin faults => main = approval.after /\ origin = approval.before

(* A branch starts from what is published, or from what the approval under   *)
(* way is about to publish.                                                  *)
KnownBase(base) ==
    \/ IsPrefix(base, origin)
    \/ /\ approval # NoApproval /\ base = approval.after /\ origin = approval.before
       /\ IsPrefix(base, main)
       /\ \A e \in Executors : pc[e] # "undoing"

BasesKnown ==
    NoPushFailed =>
        /\ \A e \in Executors : KnownBase(job[e].base)
        /\ \A m \in Missions : \A n \in DOMAIN branches[m] : KnownBase(branches[m][n].base)

(* What a failing push goes back to is published, or part of what an         *)
(* approval is about to publish; if that approval could not be pushed, the   *)
(* executor's push will not fail.                                            *)
HeadCovered(e) ==
    /\ approval # NoApproval
    /\ IsPrefix(origin, main) /\ IsPrefix(job[e].head, main)
    /\ "push_main" \notin faults => origin = approval.before /\ pc[e] # "undoing"

HeadLost(e) ==
    LET base == branches[job[e].mission][job[e].branch].base
    IN  /\ "push_approval" \in faults /\ pc[e] # "undoing"
        /\ IsPrefix(origin, main)
        /\ approval # NoApproval => origin = approval.before /\ main = approval.after
        /\ pc[e] = "merging" =>
               \/ IsPrefix(base, origin)
               \/ base = job[e].head /\ Len(base) <= Len(origin) + 1

HeadsInHand ==
    \A e \in Executors :
        pc[e] \in {"merging", "pushing", "undoing"} /\ ~IsPrefix(job[e].head, origin) =>
            HeadCovered(e) \/ HeadLost(e)

SyncedInv ==
    ~Excused => ApprovalAdds /\ MainInHand /\ BasesKnown /\ HeadsInHand

(* Faults are never forgotten: if nothing is excused now, nothing was.       *)
LEMMA NotExcusedBefore ==
    ASSUME DecisionInv, SyncedInv, faults \subseteq faults',
           upstream' = upstream \/ upstream' = upstream + 1, ~Excused'
    PROVE  /\ ApprovalAdds /\ MainInHand /\ BasesKnown /\ HeadsInHand
           /\ "push_main" \notin faults' \/ "push_approval" \notin faults'
           /\ NoPushFailed' => NoPushFailed
<1>1. upstream \in Nat
  BY DEF DecisionInv, ExecutionTypeOK
<1> QED
  BY <1>1 DEF Excused, SyncedInv, NoPushFailed

LEMMA RevisionTypes ==
    ASSUME DecisionInv
    PROVE  /\ main \in Revisions /\ origin \in Revisions
           /\ approval.before \in Revisions /\ approval.after \in Revisions
           /\ \A e \in Executors : job[e].base \in Revisions /\ job[e].head \in Revisions
           /\ \A m \in Missions : \A n \in DOMAIN branches[m] :
                 branches[m][n].base \in Revisions
<1>1. ASSUME NEW m \in Missions, NEW n \in DOMAIN branches[m]
      PROVE  branches[m][n].base \in Revisions
  <2>1. branches[m] \in Seq(Branches)
    BY DEF DecisionInv, ExecutionTypeOK
  <2>2. branches[m][n] \in Branches
    BY <2>1
  <2> QED
    BY <2>2 DEF Branches
<1> QED
  BY <1>1 DEF DecisionInv, ExecutionTypeOK, Approvals, Jobs

(* A step of the only worker that neither begins nor ends a merge.           *)
LEMMA QuietSynced ==
    ASSUME OneWorker, DecisionInv, SyncedInv, NEW e \in Executors,
           UNCHANGED <<main, origin, approval, upstream>>, faults \subseteq faults',
           pc[e] \notin {"pushing", "undoing"},
           pc'[e] \notin {"merging", "pushing", "undoing"},
           job'[e].base \in {job[e].base, main, <<>>},
           \A m \in Missions : \A n \in DOMAIN branches'[m] :
               \/ branches'[m][n].base = job[e].base
               \/ n \in DOMAIN branches[m] /\ branches'[m][n].base = branches[m][n].base
    PROVE  SyncedInv'
<1> SUFFICES ASSUME ~Excused' PROVE (ApprovalAdds /\ MainInHand /\ BasesKnown /\ HeadsInHand)'
  BY DEF SyncedInv
<1>1. /\ ApprovalAdds /\ MainInHand /\ BasesKnown /\ HeadsInHand
      /\ NoPushFailed' => NoPushFailed
  BY NotExcusedBefore
<1>2. \A u \in Executors : u = e
  BY DEF OneWorker
<1>3. ~Withdrawing /\ ~Withdrawing' /\ (\A u \in Executors : pc[u] # "undoing")
      /\ (\A u \in Executors : pc'[u] # "undoing")
  BY <1>2 DEF Withdrawing
<1>4. ApprovalAdds'
  BY <1>1 DEF ApprovalAdds
<1>5. MainInHand'
  BY <1>1, <1>3 DEF MainInHand
<1>6. BasesKnown'
  <2> SUFFICES ASSUME NoPushFailed' PROVE /\ \A u \in Executors : KnownBase(job[u].base)'
                                          /\ \A m \in Missions : \A n \in DOMAIN branches'[m] :
                                                KnownBase(branches[m][n].base)'
    BY DEF BasesKnown
  <2>1. /\ KnownBase(job[e].base)
        /\ \A m \in Missions : \A n \in DOMAIN branches[m] : KnownBase(branches[m][n].base)
    BY <1>1 DEF BasesKnown
  <2>2. \A base : KnownBase(base) => KnownBase(base)'
    BY <1>3 DEF KnownBase
  <2>3. KnownBase(main)
    <3>1. IsPrefix(main, main)
      BY RevisionTypes, PrefixOfItself
    <3>2. "push_main" \notin faults
      BY <1>1 DEF NoPushFailed
    <3> QED
      BY <1>1, <1>3, <3>1, <3>2 DEF MainInHand, KnownBase
  <2>4. KnownBase(<<>>)
    BY RevisionTypes, EmptyIsPrefix DEF KnownBase
  <2>5. ASSUME NEW u \in Executors PROVE KnownBase(job[u].base)'
    <3>1. PICK base : base = job'[e].base
      OBVIOUS
    <3>2. KnownBase(base)'
      BY <2>1, <2>2, <2>3, <2>4, <3>1
    <3> QED
      BY <1>2, <3>1, <3>2
  <2>6. ASSUME NEW m \in Missions, NEW n \in DOMAIN branches'[m]
        PROVE  KnownBase(branches[m][n].base)'
    <3>1. PICK base : base = branches'[m][n].base
      OBVIOUS
    <3>2. KnownBase(base)
      BY <2>1, <3>1
    <3>3. KnownBase(base)'
      BY <2>2, <3>2
    <3> QED
      BY <3>1, <3>3
  <2> QED
    BY <2>5, <2>6
<1>7. HeadsInHand'
  BY <1>2 DEF HeadsInHand
<1> QED
  BY <1>4, <1>5, <1>6, <1>7

(* The same branches, from revisions that are still known.                   *)
LEMMA BasesStay ==
    ASSUME DecisionInv, BasesKnown, NoPushFailed' => NoPushFailed, UNCHANGED branches,
           \A u \in Executors : job'[u].base = job[u].base,
           \A base \in Revisions : NoPushFailed' /\ KnownBase(base) => KnownBase(base)'
    PROVE  BasesKnown'
<1>1. ASSUME NEW m \in Missions, NEW n \in DOMAIN branches'[m], NoPushFailed'
      PROVE  KnownBase(branches[m][n].base)'
  <2>1. PICK b : b = branches[m][n].base
    OBVIOUS
  <2>2. b \in Revisions /\ KnownBase(b)
    BY <1>1, <2>1, RevisionTypes DEF BasesKnown
  <2>3. KnownBase(b)'
    BY <1>1, <2>2
  <2> QED
    BY <2>1, <2>3
<1>2. ASSUME NEW u \in Executors, NoPushFailed' PROVE KnownBase(job[u].base)'
  <2>1. PICK b : b = job[u].base
    OBVIOUS
  <2>2. b \in Revisions /\ KnownBase(b)
    BY <1>2, <2>1, RevisionTypes DEF BasesKnown
  <2>3. KnownBase(b)'
    BY <1>2, <2>2
  <2> QED
    BY <2>1, <2>3
<1> QED
  BY <1>1, <1>2 DEF BasesKnown

LEMMA ReadHeadSynced ==
    ASSUME OneWorker, DecisionInv, SyncedInv, NEW e \in Executors, ReadHead(e)
    PROVE  SyncedInv'
<1> SUFFICES ASSUME ~Excused' PROVE (ApprovalAdds /\ MainInHand /\ BasesKnown /\ HeadsInHand)'
  BY DEF SyncedInv
<1>1. /\ UNCHANGED <<main, origin, approval, branches, faults, upstream>>
      /\ pc[e] = "accepted" /\ pc'[e] = "merging"
      /\ job'[e].head = main /\ job'[e].base = job[e].base
  <2>1. pc \in [Executors -> Places] /\ job \in [Executors -> Jobs] /\ job[e] \in Jobs
    BY DEF DecisionInv, ExecutionTypeOK
  <2> QED
    BY <2>1 DEF ReadHead, Go, Set, Jobs, git_vars, bound_vars
<1>2. ApprovalAdds /\ MainInHand /\ BasesKnown /\ HeadsInHand
      /\ (NoPushFailed' => NoPushFailed)
  BY <1>1, NotExcusedBefore
<1>3. \A u \in Executors : u = e
  BY DEF OneWorker
<1>4. ~Withdrawing /\ (\A u \in Executors : pc'[u] # "undoing")
      /\ (\A u \in Executors : job'[u].base = job[u].base)
  BY <1>1, <1>3 DEF Withdrawing
<1>5. IsPrefix(main, main)
  BY RevisionTypes, PrefixOfItself
<1>6. ApprovalAdds'
  BY <1>1, <1>2 DEF ApprovalAdds, NoPushFailed
<1>7. MainInHand'
  BY <1>1, <1>2, <1>4 DEF MainInHand
<1>8. BasesKnown'
  <2>1. \A base \in Revisions : KnownBase(base) => KnownBase(base)'
    BY <1>1, <1>4 DEF KnownBase
  <2> QED
    BY <1>1, <1>2, <1>4, <2>1, BasesStay
<1>9. HeadsInHand'
  <2>1. ~IsPrefix(main, origin) => HeadCovered(e)'
    BY <1>1, <1>2, <1>4, <1>5 DEF MainInHand, HeadCovered
  <2> QED
    BY <1>1, <1>3, <2>1 DEF HeadsInHand
<1> QED
  BY <1>6, <1>7, <1>8, <1>9

(* The merge puts the commit on top of main: it is not in it yet.            *)
LEMMA MergeSynced ==
    ASSUME OneWorker, DecisionInv, MergedInv, SyncedInv, DecisionInv', NEW e \in Executors,
           FastForward(e), pc'[e] = "pushing"
    PROVE  SyncedInv'
<1> SUFFICES ASSUME ~Excused' PROVE (ApprovalAdds /\ MainInHand /\ BasesKnown /\ HeadsInHand)'
  BY DEF SyncedInv
<1>1. /\ UNCHANGED <<origin, approval, branches, faults, upstream>>
      /\ pc[e] = "merging"
  BY DEF FastForward, bound_vars
<1>2. /\ pc \in [Executors -> Places] /\ job \in [Executors -> Jobs]
  BY DEF DecisionInv, ExecutionTypeOK
<1>3. PICK m, n, c, base, tip, head :
          /\ m = job[e].mission /\ n = job[e].branch /\ c = <<m, n>>
          /\ base = branches[m][n].base /\ tip = Tip(m, n) /\ head = job[e].head
  OBVIOUS
<1>4. m \in Missions /\ HasCommit(m, n) /\ Unmerged(c)
  <2>1. OnItsWay(job[e], "merging") /\ Fits(job[e], "merging")
    BY <1>1 DEF MergedInv, DecisionInv, PlaceOK
  <2> QED
    BY <1>3, <2>1 DEF OnItsWay, Fits
<1>5. /\ base \in Revisions /\ c \in CommitIds /\ tip = Append(base, c) /\ tip \in Revisions
  BY <1>3, <1>4, TipFacts DEF DecisionInv
<1>6. /\ main \in Revisions /\ origin \in Revisions /\ main' \in Revisions
      /\ head \in Revisions /\ approval.before \in Revisions /\ approval.after \in Revisions
  BY <1>3, RevisionTypes DEF DecisionInv, ExecutionTypeOK
<1>7. UNCHANGED job /\ (IsPrefix(main, tip) \/ IsPrefix(tip, main))
      /\ main' = IF IsPrefix(main, tip) THEN tip ELSE main
  <2>1. ~Finish(e, "fast_forward_merge_failed")
    BY <1>2 DEF Finish, Go
  <2> QED
    BY <1>3, <2>1 DEF FastForward
<1>8. c \in Commits(tip) /\ c \notin Commits(main)
  BY <1>4, <1>5, CommitOnTop DEF Unmerged
<1>9. main' = tip /\ IsPrefix(main, tip) /\ IsPrefix(main, base)
  <2>1. ~IsPrefix(tip, main)
    BY <1>5, <1>6, <1>8, PrefixHasFewer
  <2>2. main # tip
    BY <1>8
  <2> QED
    BY <1>5, <1>6, <1>7, <2>1, <2>2, CommitOnTop
<1>10. ApprovalAdds /\ MainInHand /\ BasesKnown /\ HeadsInHand
       /\ (NoPushFailed' => NoPushFailed)
  BY <1>1, NotExcusedBefore
<1>11. \A u \in Executors : u = e
  BY DEF OneWorker
<1>12. Withdrawing' /\ (\A u \in Executors : pc'[u] # "undoing")
  BY <1>11 DEF Withdrawing
<1>13. \A r \in Revisions : IsPrefix(r, main) => IsPrefix(r, main')
  BY <1>5, <1>6, <1>9, PrefixIsTransitive
<1>14. ApprovalAdds'
  BY <1>1, <1>10 DEF ApprovalAdds, NoPushFailed
<1>15. MainInHand'
  BY <1>12 DEF MainInHand
<1>16. BasesKnown'
  <2>1. \A b \in Revisions : KnownBase(b) => KnownBase(b)'
    BY <1>1, <1>12, <1>13 DEF KnownBase
  <2> QED
    BY <1>1, <1>7, <1>10, <2>1, BasesStay
<1>17. HeadsInHand'
  <2> SUFFICES ASSUME ~IsPrefix(head, origin) PROVE HeadCovered(e)' \/ HeadLost(e)'
    BY <1>1, <1>3, <1>7, <1>11 DEF HeadsInHand
  <2>1. HeadCovered(e) \/ HeadLost(e)
    BY <1>1, <1>3, <1>10 DEF HeadsInHand
  <2>2. CASE HeadCovered(e)
    BY <1>1, <1>3, <1>6, <1>7, <1>13, <2>2 DEF HeadCovered
  <2>3. CASE HeadLost(e) /\ approval = NoApproval
    BY <1>1, <1>6, <1>13, <2>3 DEF HeadLost
  <2>4. CASE HeadLost(e) /\ approval # NoApproval
    <3>1. /\ IsPrefix(origin, main) /\ origin = approval.before /\ main = approval.after
          /\ IsPrefix(base, origin) \/ (base = head /\ Len(base) <= Len(origin) + 1)
      BY <1>1, <1>3, <2>4 DEF HeadLost
    <3>2. Len(origin) < Len(main)
      BY <1>10, <2>4, <3>1 DEF ApprovalAdds
    <3>3. Len(main) <= Len(base) /\ Len(main) \in Nat /\ Len(base) \in Nat /\ Len(origin) \in Nat
      BY <1>5, <1>6, <1>9, PrefixLength DEF Revisions
    <3>4. ~IsPrefix(base, origin)
      <4>1. IsPrefix(base, origin) => Len(base) <= Len(origin)
        BY <1>5, <1>6, PrefixLength
      <4> QED
        BY <3>2, <3>3, <4>1
    <3>5. base = head /\ main = base
      <4>1. base = head /\ Len(base) <= Len(main)
        BY <3>1, <3>2, <3>3, <3>4
      <4> QED
        BY <1>5, <1>6, <1>9, <4>1, LongPrefixIsAll
    <3>6. IsPrefix(head, main')
      BY <1>9, <3>5
    <3>7. IsPrefix(origin, main')
      BY <1>6, <1>13, <3>1
    <3> QED
      BY <1>1, <1>3, <1>7, <2>4, <3>1, <3>6, <3>7 DEF HeadCovered
  <2> QED
    BY <2>1, <2>2, <2>3, <2>4
<1> QED
  BY <1>14, <1>15, <1>16, <1>17

LEMMA PushSynced ==
    ASSUME OneWorker, DecisionInv, SyncedInv, NEW e \in Executors, PushMain(e)
    PROVE  SyncedInv'
<1> SUFFICES ASSUME ~Excused' PROVE (ApprovalAdds /\ MainInHand /\ BasesKnown /\ HeadsInHand)'
  BY DEF SyncedInv
<1>1. /\ UNCHANGED <<main, approval, branches, job, faults, upstream>>
      /\ pc[e] = "pushing" /\ pc'[e] \in {"deploying", "undoing"}
      /\ \/ IsPrefix(origin, main) /\ origin' = main /\ pc'[e] = "deploying"
         \/ ~IsPrefix(origin, main) /\ origin' = origin /\ pc'[e] = "undoing"
  <2>1. pc \in [Executors -> Places]
    BY DEF DecisionInv, ExecutionTypeOK
  <2> QED
    BY <2>1 DEF PushMain, Go, bound_vars
<1>2. /\ main \in Revisions /\ origin \in Revisions
      /\ approval.before \in Revisions /\ approval.after \in Revisions
  BY RevisionTypes
<1>3. ApprovalAdds /\ MainInHand /\ BasesKnown /\ HeadsInHand
      /\ (NoPushFailed' => NoPushFailed)
  BY <1>1, NotExcusedBefore
<1>4. \A u \in Executors : u = e
  BY DEF OneWorker
<1>5. \A r \in Revisions : IsPrefix(r, origin) => IsPrefix(r, origin')
  BY <1>1, <1>2, PrefixIsTransitive
<1>6. ApprovalAdds'
  BY <1>1, <1>2, <1>3, <1>5 DEF ApprovalAdds, NoPushFailed
<1>7. MainInHand'
  <2>1. IsPrefix(main, main)
    BY <1>2, PrefixOfItself
  <2>2. pc'[e] = "undoing" => Withdrawing'
    BY DEF Withdrawing
  <2> QED
    BY <1>1, <2>1, <2>2 DEF MainInHand
<1>8. BasesKnown'
  <2>1. ASSUME NEW base \in Revisions, NoPushFailed', KnownBase(base)
        PROVE  KnownBase(base)'
    <3>1. CASE IsPrefix(base, origin)
      BY <1>5, <3>1 DEF KnownBase
    <3>2. CASE /\ approval # NoApproval /\ base = approval.after /\ origin = approval.before
               /\ IsPrefix(base, main)
      <4>1. IsPrefix(origin, main)
        BY <1>2, <1>3, <3>2, PrefixIsTransitive DEF ApprovalAdds
      <4> QED
        BY <1>1, <3>2, <4>1 DEF KnownBase
    <3> QED
      BY <2>1, <3>1, <3>2 DEF KnownBase
  <2> QED
    BY <1>1, <1>3, <2>1, BasesStay
<1>9. HeadsInHand'
  <2>1. ASSUME pc'[e] = "undoing", ~IsPrefix(job[e].head, origin) PROVE FALSE
    <3>1. HeadCovered(e) \/ HeadLost(e)
      BY <1>1, <1>3, <2>1 DEF HeadsInHand
    <3>2. ~IsPrefix(origin, main)
      BY <1>1, <2>1
    <3> QED
      BY <3>1, <3>2 DEF HeadCovered, HeadLost
  <2> QED
    BY <1>1, <1>4, <2>1 DEF HeadsInHand
<1> QED
  BY <1>6, <1>7, <1>8, <1>9

(* A push that fails, whether origin took it or not.                         *)
LEMMA PushFailsSynced ==
    ASSUME OneWorker, DecisionInv, SyncedInv, NEW e \in Executors, PushMainFails(e)
    PROVE  SyncedInv'
<1> SUFFICES ASSUME ~Excused' PROVE (ApprovalAdds /\ MainInHand /\ BasesKnown /\ HeadsInHand)'
  BY DEF SyncedInv
<1>1. /\ UNCHANGED <<main, approval, branches, job, upstream>>
      /\ faults' = faults \cup {"push_main"}
      /\ pc[e] = "pushing" /\ pc'[e] = "undoing"
      /\ origin' = origin \/ (IsPrefix(origin, main) /\ origin' = main)
  <2>1. pc \in [Executors -> Places]
    BY DEF DecisionInv, ExecutionTypeOK
  <2> QED
    BY <2>1 DEF PushMainFails, Go, Fault
<1>2. /\ main \in Revisions /\ origin \in Revisions /\ job[e].head \in Revisions
      /\ approval.before \in Revisions /\ approval.after \in Revisions
  BY RevisionTypes
<1>3. ApprovalAdds /\ MainInHand /\ BasesKnown /\ HeadsInHand
      /\ "push_approval" \notin faults'
  BY <1>1, NotExcusedBefore
<1>4. \A u \in Executors : u = e
  BY DEF OneWorker
<1>5. \A r \in Revisions : IsPrefix(r, origin) => IsPrefix(r, origin')
  BY <1>1, <1>2, PrefixIsTransitive
<1>6. Withdrawing' /\ ~NoPushFailed'
  BY <1>1 DEF Withdrawing, NoPushFailed
<1>7. ApprovalAdds'
  BY <1>1, <1>2, <1>3, <1>5, <1>6 DEF ApprovalAdds
<1>8. MainInHand' /\ BasesKnown'
  BY <1>6 DEF MainInHand, BasesKnown
<1>9. HeadsInHand'
  <2> SUFFICES ASSUME ~IsPrefix(job[e].head, origin') PROVE HeadCovered(e)'
    BY <1>1, <1>4 DEF HeadsInHand
  <2>1. ~IsPrefix(job[e].head, origin)
    BY <1>2, <1>5
  <2>2. HeadCovered(e)
    BY <1>1, <1>3, <2>1 DEF HeadsInHand, HeadLost
  <2>3. IsPrefix(main, main)
    BY <1>2, PrefixOfItself
  <2> QED
    BY <1>1, <2>2, <2>3 DEF HeadCovered
<1> QED
  BY <1>7, <1>8, <1>9

(* What is taken back leaves main where the approval under way put it.       *)
LEMMA UndoSynced ==
    ASSUME OneWorker, DecisionInv, SyncedInv, NEW e \in Executors, Undo(e)
    PROVE  SyncedInv'
<1> SUFFICES ASSUME ~Excused' PROVE (ApprovalAdds /\ MainInHand /\ BasesKnown /\ HeadsInHand)'
  BY DEF SyncedInv
<1>1. /\ UNCHANGED <<origin, approval, branches, faults, upstream>>
      /\ main' = job[e].head /\ job'[e].base = job[e].base
      /\ pc[e] = "undoing" /\ pc'[e] = "persisting"
  <2>1. pc \in [Executors -> Places] /\ job \in [Executors -> Jobs] /\ job[e] \in Jobs
    BY DEF DecisionInv, ExecutionTypeOK
  <2> QED
    BY <2>1 DEF Undo, Finish, Go, Set, Jobs, bound_vars
<1>2. /\ main \in Revisions /\ origin \in Revisions /\ job[e].head \in Revisions
  BY RevisionTypes
<1>3. ApprovalAdds /\ MainInHand /\ BasesKnown /\ HeadsInHand
      /\ (NoPushFailed' => NoPushFailed)
  BY <1>1, NotExcusedBefore
<1>4. \A u \in Executors : u = e
  BY DEF OneWorker
<1>5. ApprovalAdds'
  BY <1>1, <1>3 DEF ApprovalAdds, NoPushFailed
<1>6. MainInHand'
  <2> SUFFICES ASSUME ~IsPrefix(job[e].head, origin)
               PROVE  /\ approval # NoApproval /\ IsPrefix(origin, job[e].head)
                      /\ "push_main" \in faults
    BY <1>1 DEF MainInHand
  <2>1. HeadCovered(e)
    BY <1>1, <1>3 DEF HeadsInHand, HeadLost
  <2>2. IsPrefix(origin, main) /\ IsPrefix(job[e].head, main)
    BY <2>1 DEF HeadCovered
  <2>3. IsPrefix(origin, job[e].head)
    <3>1. Len(origin) \in Nat /\ Len(job[e].head) \in Nat
      BY <1>2 DEF Revisions
    <3>2. CASE Len(origin) <= Len(job[e].head)
      BY <1>2, <2>2, <3>2, PrefixesCompare
    <3>3. CASE Len(job[e].head) <= Len(origin)
      BY <1>2, <2>2, <3>3, PrefixesCompare
    <3> QED
      BY <3>1, <3>2, <3>3
  <2> QED
    BY <1>1, <2>1, <2>3 DEF HeadCovered
<1>7. BasesKnown'
  <2>1. \A base \in Revisions : KnownBase(base) => KnownBase(base)'
    BY <1>1 DEF KnownBase
  <2>2. \A u \in Executors : job'[u].base = job[u].base
    BY <1>1, <1>4
  <2> QED
    BY <1>1, <1>3, <2>1, <2>2, BasesStay
<1>8. HeadsInHand'
  BY <1>1, <1>4 DEF HeadsInHand
<1> QED
  BY <1>5, <1>6, <1>7, <1>8

LEMMA ApproveSynced ==
    ASSUME DecisionInv, MergedInv, SyncedInv, DecisionInv', NEW m \in Missions, Approve(m)
    PROVE  SyncedInv'
<1> SUFFICES ASSUME ~Excused' PROVE (ApprovalAdds /\ MainInHand /\ BasesKnown /\ HeadsInHand)'
  BY DEF SyncedInv
<1>1. PICK n, c, base, tip :
          /\ n = Newest(m) /\ c = <<m, n>> /\ base = branches[m][n].base /\ tip = Tip(m, n)
  OBVIOUS
<1>2. HasCommit(m, n) /\ n \in DOMAIN branches[m]
  BY <1>1, ApprovableWasAsked DEF Approve, HasCommit
<1>3. base \in Revisions /\ c \in CommitIds /\ tip = Append(base, c) /\ tip \in Revisions
  BY <1>1, <1>2, TipFacts DEF DecisionInv
<1>4. main \in Revisions /\ origin \in Revisions /\ main' \in Revisions
  BY DEF DecisionInv, ExecutionTypeOK
<1>5. /\ UNCHANGED <<pc, job, branches, origin, faults, upstream>>
      /\ main = origin /\ approval = NoApproval
  BY DEF Approve, Approvable, bound_vars
<1>6. ApprovalAdds /\ MainInHand /\ BasesKnown /\ HeadsInHand /\ (NoPushFailed' => NoPushFailed)
  BY <1>5, NotExcusedBefore
<1>7. CASE UNCHANGED <<main, approval>>
  <2>1. \A b \in Revisions : KnownBase(b) => KnownBase(b)'
    BY <1>5, <1>7 DEF KnownBase
  <2>2. BasesKnown'
    BY <1>5, <1>6, <2>1, BasesStay
  <2>3. ApprovalAdds' /\ MainInHand'
    BY <1>5, <1>6, <1>7 DEF ApprovalAdds, MainInHand, NoPushFailed, Withdrawing
  <2>4. HeadsInHand'
    BY <1>5, <1>6, <1>7 DEF HeadsInHand, HeadCovered, HeadLost
  <2> QED
    BY <2>2, <2>3, <2>4
<1>8. CASE /\ c \notin Commits(main)
           /\ main' = IF IsPrefix(main, tip) THEN tip ELSE Append(main, c)
           /\ approval' = [mission |-> m, before |-> main, after |-> main']
  <2>1. approval'.before = main /\ approval'.after = main' /\ approval' # NoApproval
    <3>1. m # "none" \/ main' # <<>>
      <4>1. Len(main') > 0
        BY <1>3, <1>4, <1>8, CommitOnTop
      <4> QED
        BY <4>1
    <3>2. approval'.mission = m /\ approval'.after = main'
      BY <1>8
    <3> QED
      BY <1>8, <3>1, <3>2 DEF NoApproval
  <2>2. IsPrefix(main, main') /\ IsPrefix(main, main)
    BY <1>3, <1>4, <1>8, CommitOnTop, PrefixOfItself
  <2>3. IsPrefix(main, tip) => IsPrefix(main, base)
    <3>1. main # tip
      <4>1. c \in Commits(tip)
        BY <1>3, CommitOnTop
      <4> QED
        BY <1>8, <4>1
    <3> QED
      BY <1>3, <1>4, <3>1, CommitOnTop
  <2>4. Len(main) < Len(main') /\ (NoPushFailed => Len(main') = Len(main) + 1)
    <3>1. Len(main) \in Nat /\ Len(base) \in Nat
      BY <1>3, <1>4 DEF Revisions
    <3>2. CASE ~IsPrefix(main, tip)
      <4>1. main' = Append(main, c) /\ Len(Append(main, c)) = Len(main) + 1
        BY <1>3, <1>4, <1>8, <3>2, CommitOnTop
      <4> QED
        BY <3>1, <4>1
    <3>3. CASE IsPrefix(main, tip)
      <4>1. main' = tip /\ Len(tip) = Len(base) + 1
        BY <1>3, <1>8, <3>3, CommitOnTop
      <4>2. Len(main) <= Len(base)
        BY <1>3, <1>4, <2>3, <3>3, PrefixLength
      <4>3. NoPushFailed => IsPrefix(base, main)
        BY <1>1, <1>2, <1>5, <1>6 DEF BasesKnown, KnownBase
      <4>4. NoPushFailed => Len(base) <= Len(main)
        BY <1>3, <1>4, <4>3, PrefixLength
      <4> QED
        BY <3>1, <4>1, <4>2, <4>4
    <3> QED
      BY <3>2, <3>3
  <2>5. ApprovalAdds'
    BY <1>5, <1>6, <2>1, <2>2, <2>4 DEF ApprovalAdds
  <2>6. MainInHand'
    BY <1>5, <2>1, <2>2 DEF MainInHand
  <2>7. BasesKnown'
    <3>1. \A b \in Revisions : KnownBase(b) => KnownBase(b)'
      BY <1>5 DEF KnownBase
    <3> QED
      BY <1>5, <1>6, <3>1, BasesStay
  <2>8. HeadsInHand'
    <3>1. \A e \in Executors : ~HeadCovered(e)
      BY <1>5 DEF HeadCovered
    <3>2. \A e \in Executors : HeadLost(e) => HeadLost(e)'
      BY <1>5, <2>1, <2>2 DEF HeadLost
    <3> QED
      BY <1>5, <1>6, <3>1, <3>2 DEF HeadsInHand
  <2> QED
    BY <2>5, <2>6, <2>7, <2>8
<1>9. \/ UNCHANGED <<main, approval>>
      \/ /\ c \notin Commits(main)
         /\ main' = IF IsPrefix(main, tip) THEN tip ELSE Append(main, c)
         /\ approval' = [mission |-> m, before |-> main, after |-> main']
  BY <1>1 DEF Approve
<1> QED
  BY <1>7, <1>8, <1>9

LEMMA PublishSynced ==
    ASSUME DecisionInv, SyncedInv, PublishApproval
    PROVE  SyncedInv'
<1> SUFFICES ASSUME ~Excused' PROVE (ApprovalAdds /\ MainInHand /\ BasesKnown /\ HeadsInHand)'
  BY DEF SyncedInv
<1>1. /\ UNCHANGED <<pc, job, branches, faults, upstream>>
      /\ approval # NoApproval /\ approval' = NoApproval
      /\ origin' = IF IsPrefix(origin, main) THEN main ELSE origin
  BY DEF PublishApproval, bound_vars
<1>2. \/ IsPrefix(origin, main) /\ main = approval.after /\ main' = main
      \/ ~(IsPrefix(origin, main) /\ main = approval.after) /\ main' = approval.before
  BY DEF PublishApproval, TakeBack
<1>3. /\ main \in Revisions /\ origin \in Revisions
      /\ approval.before \in Revisions /\ approval.after \in Revisions
      /\ \A e \in Executors : job[e].head \in Revisions
  BY RevisionTypes
<1>4. ApprovalAdds /\ MainInHand /\ BasesKnown /\ HeadsInHand /\ (NoPushFailed' => NoPushFailed)
  BY <1>1, NotExcusedBefore
<1>5. \A r \in Revisions : IsPrefix(r, origin) => IsPrefix(r, origin')
  BY <1>1, <1>3, PrefixIsTransitive
<1>6. IsPrefix(main, main)
  BY <1>3, PrefixOfItself
<1>7. ApprovalAdds'
  BY <1>1 DEF ApprovalAdds
<1>8. IsPrefix(main', origin')
  <2>1. CASE IsPrefix(origin, main) /\ main' = main
    BY <1>1, <1>6, <2>1
  <2>2. CASE main' = approval.before
    BY <1>1, <1>3, <1>4, <1>5, <2>2 DEF ApprovalAdds
  <2> QED
    BY <1>2, <2>1, <2>2
<1>9. MainInHand'
  BY <1>8 DEF MainInHand
<1>10. BasesKnown'
  <2>1. ASSUME NEW base \in Revisions, KnownBase(base) PROVE KnownBase(base)'
    <3>1. CASE IsPrefix(base, origin)
      BY <1>5, <3>1 DEF KnownBase
    <3>2. CASE base = approval.after /\ origin = approval.before /\ IsPrefix(base, main)
      <4>1. IsPrefix(origin, main)
        BY <1>1, <1>3, <1>4, <3>2, PrefixIsTransitive DEF ApprovalAdds
      <4> QED
        BY <1>1, <3>2, <4>1 DEF KnownBase
    <3> QED
      BY <2>1, <3>1, <3>2 DEF KnownBase
  <2> QED
    BY <1>1, <1>4, <2>1, BasesStay
<1>11. HeadsInHand'
  <2> SUFFICES ASSUME NEW e \in Executors, pc[e] \in {"merging", "pushing", "undoing"},
                      ~IsPrefix(job[e].head, origin')
               PROVE  HeadLost(e)'
    BY <1>1 DEF HeadsInHand
  <2>1. ~IsPrefix(job[e].head, origin)
    BY <1>3, <1>5
  <2>2. HeadLost(e)
    <3>1. ~HeadCovered(e)
      BY <1>1 DEF HeadCovered
    <3> QED
      BY <1>4, <2>1, <3>1 DEF HeadsInHand
  <2>3. PICK base : base = branches[job[e].mission][job[e].branch].base
    OBVIOUS
  <2>4. /\ "push_approval" \in faults /\ pc[e] # "undoing" /\ IsPrefix(origin, main)
        /\ main = approval.after
        /\ pc[e] = "merging" =>
              \/ IsPrefix(base, origin)
              \/ base = job[e].head /\ Len(base) <= Len(origin) + 1
    BY <1>1, <2>2, <2>3 DEF HeadLost
  <2>5. main' = main /\ origin' = main
    BY <1>1, <1>2, <2>4
  <2>6. pc[e] = "merging" => IsPrefix(base, origin') \/ (base = job[e].head /\ Len(base) <= Len(origin') + 1)
    <3>1. Len(origin) <= Len(main) /\ Len(origin) \in Nat /\ Len(main) \in Nat
      BY <1>3, <2>4, PrefixLength
    <3>2. CASE base = job[e].head /\ Len(base) <= Len(origin) + 1
      <4>1. Len(base) \in Nat
        BY <1>3, <3>2 DEF Revisions
      <4> QED
        BY <2>5, <3>1, <3>2, <4>1
    <3>3. CASE pc[e] = "merging" /\ IsPrefix(base, origin)
      <4>1. base \in Revisions
        <5>1. Fits(job[e], "merging")
          BY <3>3 DEF DecisionInv, PlaceOK
        <5> QED
          BY <2>3, <5>1, RevisionTypes DEF Fits, HasCommit
      <4> QED
        BY <1>5, <3>3, <4>1
    <3> QED
      BY <2>4, <3>2, <3>3
  <2> QED
    BY <1>1, <1>6, <2>3, <2>4, <2>5, <2>6 DEF HeadLost
<1> QED
  BY <1>7, <1>9, <1>10, <1>11

(* The approval is taken back: a head that was part of it is lost, but a     *)
(* push that would go back to it does not fail any more.                     *)
LEMMA ApprovalFailsSynced ==
    ASSUME OneWorker, DecisionInv, SyncedInv, ApprovalPushFails
    PROVE  SyncedInv'
<1> SUFFICES ASSUME ~Excused' PROVE (ApprovalAdds /\ MainInHand /\ BasesKnown /\ HeadsInHand)'
  BY DEF SyncedInv
<1>1. /\ UNCHANGED <<pc, job, branches, upstream>>
      /\ approval # NoApproval /\ approval' = NoApproval /\ main' = approval.before
      /\ "push_approval" \notin faults /\ faults' = faults \cup {"push_approval"}
  BY DEF ApprovalPushFails, Fault, TakeBack
<1>2. origin' = origin \/ (IsPrefix(origin, main) /\ origin' = main)
  <2>1. origin' \in {origin} \cup {r \in {main} : IsPrefix(origin, r)}
    BY DEF ApprovalPushFails
  <2> QED
    BY <2>1
<1>3. /\ main \in Revisions /\ origin \in Revisions
      /\ approval.before \in Revisions /\ approval.after \in Revisions
      /\ \A e \in Executors : job[e].head \in Revisions
  BY RevisionTypes
<1>4. /\ ApprovalAdds /\ MainInHand /\ BasesKnown /\ HeadsInHand
      /\ "push_main" \notin faults' /\ "push_main" \notin faults
  BY <1>1, NotExcusedBefore
<1>5. NoPushFailed /\ ~NoPushFailed'
  BY <1>1, <1>4 DEF NoPushFailed
<1>6. \A r \in Revisions : IsPrefix(r, origin) => IsPrefix(r, origin')
  BY <1>2, <1>3, PrefixIsTransitive
<1>7. ApprovalAdds' /\ BasesKnown'
  BY <1>1, <1>5 DEF ApprovalAdds, BasesKnown
<1>8. IsPrefix(main', origin')
  BY <1>1, <1>3, <1>4, <1>6 DEF ApprovalAdds
<1>9. MainInHand'
  BY <1>8 DEF MainInHand
<1>10. HeadsInHand'
  <2> SUFFICES ASSUME NEW e \in Executors, pc[e] \in {"merging", "pushing", "undoing"},
                      ~IsPrefix(job[e].head, origin')
               PROVE  HeadLost(e)'
    BY <1>1 DEF HeadsInHand
  <2>1. PICK base, head : /\ base = branches[job[e].mission][job[e].branch].base
                          /\ head = job[e].head
    OBVIOUS
  <2>2. head \in Revisions /\ ~IsPrefix(head, origin)
    BY <1>3, <1>6, <2>1
  <2>3. HeadCovered(e)
    <3>1. ~HeadLost(e)
      BY <1>1 DEF HeadLost
    <3> QED
      BY <1>4, <2>1, <2>2, <3>1 DEF HeadsInHand
  <2>4. /\ IsPrefix(origin, main) /\ IsPrefix(head, main)
        /\ origin = approval.before /\ pc[e] # "undoing"
    BY <1>4, <2>1, <2>3 DEF HeadCovered
  <2>5. origin' = origin /\ main' = origin
    BY <1>1, <1>2, <2>1, <2>4
  <2>6. IsPrefix(origin, origin)
    BY <1>3, PrefixOfItself
  <2>7. ASSUME pc[e] = "merging"
        PROVE  IsPrefix(base, origin) \/ (base = head /\ Len(base) <= Len(origin) + 1)
    <3>1. KnownBase(base)
      <4>1. Fits(job[e], "merging")
        BY <2>7 DEF DecisionInv, PlaceOK
      <4> QED
        BY <1>4, <1>5, <2>1, <4>1 DEF BasesKnown, Fits, HasCommit
    <3>2. CASE base = approval.after /\ IsPrefix(base, main)
      <4>1. Len(approval.after) = Len(origin) + 1
        BY <1>1, <1>4, <1>5, <2>4 DEF ApprovalAdds
      <4>2. ~(Len(head) <= Len(origin))
        BY <1>3, <2>2, <2>4, PrefixesCompare
      <4>3. Len(head) \in Nat /\ Len(origin) \in Nat
        BY <1>3, <2>2 DEF Revisions
      <4>4. ~IsPrefix(main, origin)
        BY <1>3, <2>2, <2>4, PrefixIsTransitive
      <4>5. ~Withdrawing
        BY <2>7 DEF Withdrawing, OneWorker
      <4>6. main = approval.after
        BY <1>4, <4>4, <4>5 DEF MainInHand
      <4>7. head = main
        <5>1. Len(main) <= Len(head)
          BY <4>1, <4>2, <4>3, <4>6
        <5> QED
          BY <1>3, <2>2, <2>4, <5>1, LongPrefixIsAll
      <4> QED
        BY <3>2, <4>1, <4>3, <4>6, <4>7
    <3> QED
      BY <3>1, <3>2 DEF KnownBase
  <2> QED
    BY <1>1, <2>1, <2>4, <2>5, <2>6, <2>7 DEF HeadLost
<1> QED
  BY <1>7, <1>9, <1>10

LEMMA PullSynced ==
    ASSUME DecisionInv, SyncedInv, Pull
    PROVE  SyncedInv'
<1> SUFFICES ASSUME ~Excused' PROVE (ApprovalAdds /\ MainInHand /\ BasesKnown /\ HeadsInHand)'
  BY DEF SyncedInv
<1>1. /\ UNCHANGED <<pc, job, branches, origin, approval, faults, upstream>>
      /\ main # origin /\ IsPrefix(main, origin) /\ main' = origin
  BY DEF Pull, bound_vars
<1>2. /\ main \in Revisions /\ origin \in Revisions
      /\ \A e \in Executors : job[e].head \in Revisions
  BY RevisionTypes
<1>3. ApprovalAdds /\ MainInHand /\ BasesKnown /\ HeadsInHand /\ (NoPushFailed' => NoPushFailed)
  BY <1>1, NotExcusedBefore
<1>4. ~IsPrefix(origin, main)
  <2>1. Len(main) <= Len(origin)
    BY <1>1, <1>2, PrefixLength
  <2> QED
    BY <1>1, <1>2, <2>1, LongPrefixIsAll
<1>5. ApprovalAdds'
  BY <1>1, <1>3 DEF ApprovalAdds, NoPushFailed
<1>6. MainInHand'
  BY <1>1, <1>2, PrefixOfItself DEF MainInHand
<1>7. BasesKnown'
  <2>1. \A base \in Revisions : IsPrefix(base, main) => IsPrefix(base, origin)
    BY <1>1, <1>2, PrefixIsTransitive
  <2>2. \A base \in Revisions : KnownBase(base) => KnownBase(base)'
    BY <1>1, <2>1 DEF KnownBase
  <2> QED
    BY <1>1, <1>3, <2>2, BasesStay
<1>8. HeadsInHand'
  <2>1. \A e \in Executors : ~HeadCovered(e) /\ ~HeadLost(e)
    BY <1>4 DEF HeadCovered, HeadLost
  <2> QED
    BY <1>1, <1>3, <2>1 DEF HeadsInHand
<1> QED
  BY <1>5, <1>6, <1>7, <1>8

LEMMA OtherSynced ==
    ASSUME DecisionInv, SyncedInv,
           Soil \/ Tidy \/ UNCHANGED vars \/ \E m \in Missions : Intervene(m)
    PROVE  SyncedInv'
<1> SUFFICES ASSUME ~Excused' PROVE (ApprovalAdds /\ MainInHand /\ BasesKnown /\ HeadsInHand)'
  BY DEF SyncedInv
<1>1. /\ UNCHANGED <<pc, job, branches, main, origin, approval, upstream>>
      /\ faults \subseteq faults'
  BY DEF Soil, Tidy, Intervene, Fault, vars, git_vars, bound_vars
<1>2. ApprovalAdds /\ MainInHand /\ BasesKnown /\ HeadsInHand /\ (NoPushFailed' => NoPushFailed)
  BY <1>1, NotExcusedBefore
<1>3. ApprovalAdds' /\ MainInHand'
  BY <1>1, <1>2 DEF ApprovalAdds, MainInHand, Withdrawing
<1>4. BasesKnown'
  <2>1. \A base \in Revisions : KnownBase(base) => KnownBase(base)'
    BY <1>1 DEF KnownBase
  <2> QED
    BY <1>1, <1>2, <2>1, BasesStay
<1>5. HeadsInHand'
  BY <1>1, <1>2 DEF HeadsInHand, HeadCovered, HeadLost
<1> QED
  BY <1>3, <1>4, <1>5

(* Once a commit was pushed by others, or a crash or a failed reset happened,*)
(* nothing is promised.                                                      *)
LEMMA ExcusedSynced ==
    ASSUME DecisionInv, PushUpstream \/ \E e \in Executors : Crash(e) \/ UndoFails(e)
    PROVE  SyncedInv'
<1>1. upstream \in Nat
  BY DEF DecisionInv, ExecutionTypeOK
<1>2. Excused'
  BY <1>1 DEF PushUpstream, Crash, UndoFails, Fault, Excused
<1> QED
  BY <1>2 DEF SyncedInv

(* The steps that leave main and origin alone.                               *)
LEMMA OwnSynced ==
    ASSUME OneWorker, DecisionInv, SyncedInv, NEW e \in Executors,
           \/ Claim(e) \/ CheckClean(e) \/ Skip(e) \/ CreateWorkspace(e) \/ WorkspaceFails(e)
           \/ GiveUp(e) \/ AdapterReturns(e) \/ CreateBranch(e) \/ CreateBranchFails(e)
           \/ Commit(e) \/ CommitFails(e) \/ SendBranch(e) \/ SendBranchFails(e)
           \/ RemoveWorkspace(e) \/ RemoveFails(e) \/ Judge(e) \/ Review(e) \/ Deploy(e)
           \/ Persist(e) \/ Settle(e) \/ Restart(e)
           \/ FastForward(e) /\ pc'[e] # "pushing"
    PROVE  SyncedInv'
<1> USE DEF git_vars, history_vars, bound_vars
<1>1. /\ pc \in [Executors -> Places] /\ job \in [Executors -> Jobs] /\ job[e] \in Jobs
      /\ branches \in [Missions -> Seq(Branches)]
  BY DEF DecisionInv, ExecutionTypeOK
<1>2. /\ \A x : Go(e, x) => pc'[e] = x
      /\ \A f \in {"tried", "branch", "result"} : \A x : Set(e, f, x) => job'[e].base = job[e].base
      /\ \A x : Finish(e, x) => pc'[e] = "persisting" /\ job'[e].base = job[e].base
  BY <1>1 DEF Go, Set, Finish, Jobs
<1>3. UNCHANGED <<main, origin, approval, upstream>> /\ faults \subseteq faults'
  <2>1. CASE \/ Claim(e) \/ CheckClean(e) \/ Skip(e) \/ CreateWorkspace(e) \/ WorkspaceFails(e)
             \/ GiveUp(e) \/ AdapterReturns(e) \/ CreateBranch(e) \/ CreateBranchFails(e)
    BY <2>1 DEF Claim, CheckClean, Skip, CreateWorkspace, WorkspaceFails, GiveUp,
                AdapterReturns, CreateBranch, CreateBranchFails, Fault
  <2>2. CASE \/ Commit(e) \/ CommitFails(e) \/ SendBranch(e) \/ SendBranchFails(e)
             \/ RemoveWorkspace(e) \/ RemoveFails(e) \/ Judge(e) \/ Review(e)
    BY <2>2 DEF Commit, CommitFails, SendBranch, SendBranchFails, RemoveWorkspace, RemoveFails,
                Judge, Review, Fault
  <2>3. CASE Deploy(e) \/ Persist(e) \/ Settle(e) \/ Restart(e)
    BY <2>3 DEF Deploy, Persist, Settle, Restart, Fault
  <2>4. CASE FastForward(e) /\ pc'[e] # "pushing"
    BY <1>2, <2>4 DEF FastForward
  <2> QED
    BY <2>1, <2>2, <2>3, <2>4
<1>4. pc[e] \notin {"pushing", "undoing"}
  BY DEF Claim, CheckClean, Skip, CreateWorkspace, WorkspaceFails, GiveUp, AdapterReturns,
         CreateBranch, CreateBranchFails, Commit, CommitFails, SendBranch, SendBranchFails,
         RemoveWorkspace, RemoveFails, Judge, Review, Deploy, Persist, Settle, Restart, FastForward
<1>5. pc'[e] \notin {"merging", "pushing", "undoing"} /\ job'[e].base \in {job[e].base, main, <<>>}
  <2>1. CASE Claim(e)
    <3>1. PICK m \in Missions : job' = [job EXCEPT ![e] = [NoJob EXCEPT
                        !.mission = m,
                        !.result = IF m \in Protected THEN "refused" ELSE "none"]]
                     /\ Go(e, IF m \in Protected THEN "persisting" ELSE "starting")
      BY <2>1 DEF Claim
    <3>2. job'[e].base = <<>>
      BY <1>1, <3>1 DEF NoJob
    <3> QED
      BY <1>2, <3>1, <3>2
  <2>2. CASE CreateWorkspace(e)
    BY <1>1, <1>2, <2>2 DEF CreateWorkspace, Jobs
  <2>3. CASE AdapterReturns(e)
    BY <1>1, <1>2, <2>3 DEF AdapterReturns, Jobs
  <2>4. CASE Review(e)
    BY <1>1, <1>2, <2>4 DEF Review, Jobs
  <2>5. CASE Skip(e)
    BY <1>1, <1>2, <2>5 DEF Skip
  <2>6. CASE \/ CheckClean(e) \/ WorkspaceFails(e) \/ GiveUp(e) \/ CreateBranch(e)
             \/ CreateBranchFails(e) \/ Commit(e) \/ CommitFails(e)
    BY <1>2, <2>6 DEF CheckClean, WorkspaceFails, GiveUp, CreateBranch, CreateBranchFails,
                      Commit, CommitFails, BranchBreaks, Unpublished
  <2>7. CASE \/ SendBranch(e) \/ SendBranchFails(e) \/ RemoveWorkspace(e) \/ RemoveFails(e)
             \/ Judge(e)
    BY <1>2, <2>7 DEF SendBranch, SendBranchFails, RemoveWorkspace, RemoveFails, Judge,
                      BranchBreaks, Unpublished
  <2>8. CASE Deploy(e) \/ Persist(e)
    BY <1>2, <2>8 DEF Deploy, Persist
  <2>9. CASE Settle(e) \/ Restart(e)
    BY <1>1, <1>2, <2>9, NoJobFacts DEF Settle, Restart
  <2>10. CASE FastForward(e) /\ pc'[e] # "pushing"
    BY <1>2, <2>10 DEF FastForward
  <2> QED
    BY <2>1, <2>2, <2>3, <2>4, <2>5, <2>6, <2>7, <2>8, <2>9, <2>10
<1>6. ASSUME NEW m \in Missions, NEW n \in DOMAIN branches'[m]
      PROVE  \/ branches'[m][n].base = job[e].base
             \/ n \in DOMAIN branches[m] /\ branches'[m][n].base = branches[m][n].base
  <2>1. CASE UNCHANGED branches
    BY <1>6, <2>1
  <2>2. PICK k : k = job[e].mission
    OBVIOUS
  <2>3. CASE CreateBranch(e)
    <3>1. PICK b : /\ b = [base |-> job[e].base, committed |-> FALSE, risk |-> job[e].risk]
                   /\ branches' = [branches EXCEPT ![k] = Append(@, b)]
      BY <2>2, <2>3 DEF CreateBranch
    <3>2. b \in Branches /\ b.base = job[e].base
      BY <1>1, <3>1 DEF Branches, Jobs
    <3>3. branches[m] \in Seq(Branches) /\ branches'[m] \in {branches[m], Append(branches[m], b)}
      BY <1>1, <3>1
    <3>4. CASE branches'[m] = Append(branches[m], b)
      <4>1. /\ DOMAIN branches[m] = 1..Len(branches[m]) /\ Len(branches[m]) \in Nat
            /\ n \in 1..(Len(branches[m]) + 1)
            /\ \A i \in 1..Len(branches[m]) : branches'[m][i] = branches[m][i]
            /\ branches'[m][Len(branches[m]) + 1] = b
        BY <1>6, <3>2, <3>3, <3>4, AppendProperties
      <4> QED
        BY <3>2, <4>1
    <3> QED
      BY <1>6, <3>3, <3>4
  <2>4. CASE Commit(e)
    <3>1. PICK i : branches' = [branches EXCEPT ![k][i].committed = TRUE]
      BY <2>2, <2>4 DEF Commit
    <3>2. DOMAIN branches'[m] = DOMAIN branches[m]
      BY <1>1, <3>1
    <3>3. branches'[m][n] \in {branches[m][n], [branches[m][n] EXCEPT !.committed = TRUE]}
      BY <1>1, <1>6, <3>1, <3>2
    <3>4. branches[m][n] \in Branches
      <4>1. branches[m] \in Seq(Branches)
        BY <1>1
      <4> QED
        BY <1>6, <3>2, <4>1
    <3> QED
      BY <1>6, <3>2, <3>3, <3>4 DEF Branches
  <2>5. UNCHANGED branches \/ CreateBranch(e) \/ Commit(e)
    <3>1. CASE \/ Claim(e) \/ CheckClean(e) \/ Skip(e) \/ CreateWorkspace(e)
               \/ WorkspaceFails(e) \/ GiveUp(e) \/ AdapterReturns(e) \/ CreateBranchFails(e)
      BY <3>1 DEF Claim, CheckClean, Skip, CreateWorkspace, WorkspaceFails, GiveUp,
                  AdapterReturns, CreateBranchFails
    <3>2. CASE \/ CommitFails(e) \/ SendBranch(e) \/ SendBranchFails(e)
               \/ RemoveWorkspace(e) \/ RemoveFails(e) \/ Judge(e) \/ Review(e)
      BY <3>2 DEF CommitFails, SendBranch, SendBranchFails, RemoveWorkspace, RemoveFails,
                  Judge, Review
    <3>3. CASE Deploy(e) \/ Persist(e) \/ Settle(e) \/ Restart(e) \/ FastForward(e)
      BY <3>3 DEF Deploy, Persist, Settle, Restart, FastForward
    <3> QED
      BY <3>1, <3>2, <3>3
  <2> QED
    BY <2>1, <2>3, <2>4, <2>5
<1> QED
  BY <1>3, <1>4, <1>5, <1>6, QuietSynced

LEMMA SyncedInit == Init => SyncedInv
<1> SUFFICES ASSUME Init PROVE ApprovalAdds /\ MainInHand /\ BasesKnown /\ HeadsInHand
  BY DEF SyncedInv
<1>1. IsPrefix(<<>>, <<>>)
  <2>1. <<>> \in Revisions
    BY DEF Revisions
  <2> QED
    BY <2>1, EmptyIsPrefix
<1>2. \A e \in Executors : job[e].base = <<>> /\ pc[e] = "idle"
  BY DEF Init, NoJob
<1>3. ApprovalAdds /\ MainInHand
  BY <1>1 DEF Init, ApprovalAdds, MainInHand
<1>4. BasesKnown
  BY <1>1, <1>2 DEF Init, BasesKnown, KnownBase
<1>5. HeadsInHand
  BY <1>2 DEF HeadsInHand
<1> QED
  BY <1>3, <1>4, <1>5

LEMMA SyncedNext ==
    OneWorker /\ DecisionInv /\ MergedInv /\ SyncedInv /\ [Next]_vars => SyncedInv'
<1> SUFFICES ASSUME OneWorker, DecisionInv, MergedInv, SyncedInv, [Next]_vars PROVE SyncedInv'
  OBVIOUS
<1>1. DecisionInv'
  BY DecisionNext
<1>2. ASSUME NEW e \in Executors, Step(e) \/ Failure(e) PROVE SyncedInv'
  <2>1. CASE FastForward(e) /\ pc'[e] = "pushing"
    BY <1>1, <2>1, MergeSynced
  <2>2. CASE ReadHead(e) \/ PushMain(e) \/ PushMainFails(e) \/ Undo(e)
    BY <2>2, ReadHeadSynced, PushSynced, PushFailsSynced, UndoSynced
  <2>3. CASE Crash(e) \/ UndoFails(e)
    BY <2>3, ExcusedSynced
  <2> QED
    BY <1>2, <2>1, <2>2, <2>3, OwnSynced DEF Step, Failure
<1>3. ASSUME NEW m \in Missions, Approve(m) PROVE SyncedInv'
  BY <1>1, <1>3, ApproveSynced
<1>4. CASE PublishApproval \/ ApprovalPushFails \/ Pull \/ PushUpstream
  BY <1>4, PublishSynced, ApprovalFailsSynced, PullSynced, ExcusedSynced
<1>5. CASE Soil \/ Tidy \/ UNCHANGED vars \/ \E m \in Missions : Intervene(m)
  BY <1>5, OtherSynced
<1> QED
  BY <1>2, <1>3, <1>4, <1>5 DEF Next

LEMMA SyncedAtRest == SyncedInv => AtRestSynced
<1> SUFFICES ASSUME SyncedInv, AtRest, ~Excused PROVE IsPrefix(main, origin)
  BY DEF AtRestSynced, Excused
<1> QED
  BY DEF SyncedInv, MainInHand, AtRest, Withdrawing

(* With one worker, whatever its missions, nothing is left over that faults, *)
(* crashes and commits of others do not account for.                         *)
THEOREM NothingIsLeftOver == ASSUME OneWorker PROVE Spec => []NothingLeftOver
<1>1. IsFiniteSet(Executors)
  <2>1. CASE Executors = {}
    BY <2>1, FS_EmptySet
  <2>2. CASE Executors # {}
    <3>1. PICK e : e \in Executors
      BY <2>2
    <3>2. Executors = {e}
      BY <3>1 DEF OneWorker
    <3> QED
      BY <3>2, FS_Singleton
  <2> QED
    BY <2>1, <2>2
<1>2. Spec => []LeftoversExplained
  BY <1>1, LeftoversAlwaysExplained
<1>3. Init => DecisionInv /\ MergedInv /\ SyncedInv
  BY DecisionInit, MergedInit, SyncedInit
<1>4. DecisionInv /\ MergedInv /\ SyncedInv /\ [Next]_vars => (DecisionInv /\ MergedInv /\ SyncedInv)'
  BY DecisionNext, MergedNext, SyncedNext
<1>5. MergedInv /\ SyncedInv /\ LeftoversExplained => NothingLeftOver
  BY SyncedAtRest DEF MergedInv, NothingLeftOver
<1> QED
  BY <1>2, <1>3, <1>4, <1>5, PTL DEF Spec
=============================================================================
