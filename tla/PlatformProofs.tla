---------------------------- MODULE PlatformProofs ----------------------------
(***************************************************************************)
(* Proofs, for every value of the constants, of invariants TLC checks on   *)
(* components of MCPlatform that decide and change.  A behaviour is one of *)
(* the component it was chosen for at its start, so that each proof is     *)
(* about the steps of one component, with the inductive invariant its      *)
(* module states.  PlatformServicesProofs has the other components.        *)
(***************************************************************************)
EXTENDS MCPlatform, Sequences, TLAPS

AnyVars == <<component, queue_vars, After0>>

(* A step of the sum is a step of its component, or changes nothing.         *)
LEMMA Selected ==
    ASSUME [AnyNext]_AnyVars
    PROVE  /\ component' = component
           /\ component = "controller" => Controller!Next \/ UNCHANGED Controller!vars
           /\ component = "sites" => Sites!Next \/ UNCHANGED Sites!vars
           /\ component = "technology" => Technology!Next \/ UNCHANGED Technology!vars
           /\ component = "runner" => Runner!Next \/ UNCHANGED Runner!vars
           /\ component = "projects" => Registry!Next \/ UNCHANGED Registry!vars
           /\ component = "supervisor" => Supervisor!Next \/ UNCHANGED Supervisor!vars
           /\ component = "patching" => Patching!Next \/ UNCHANGED Patching!vars
<1>1. CASE AnyNext
  BY <1>1, Zenon DEF AnyNext
<1>2. CASE UNCHANGED AnyVars
  BY <1>2 DEF AnyVars, After0, After6, After8, After10, After11, After12, After13,
              Controller!vars, Controller!run_vars, Controller!repo_vars,
              Sites!vars, Sites!project_vars, Sites!history_vars, Technology!vars,
              Runner!vars, Runner!run_vars,
              Registry!vars, Registry!count_vars, Registry!history_vars,
              Supervisor!vars, Supervisor!store_vars, Supervisor!history_vars,
              Patching!vars, Patching!call_vars, Patching!history_vars
<1> QED
  BY <1>1, <1>2

-----------------------------------------------------------------------------
(* The autonomous controller                                                 *)

(* Where each stage is among the ten.                                        *)
LEMMA StageNumbers ==
    /\ Len(Controller!Stages) = 10
    /\ \A k \in 1 .. 10 :
          /\ Controller!Stages[k] = "validation_pre_apply" => k = 5
          /\ Controller!Stages[k] = "patch_application" => k = 6
          /\ Controller!Stages[k] = "validation_post_apply" => k = 7
          /\ Controller!Stages[k] = "git_review" => k = 8
          /\ Controller!Stages[k] = "commit" => k = 9
          /\ Controller!Stages[k] = "push" => k = 10
  BY DEF Controller!Stages

LEMMA ControllerBegins ==
    ASSUME Controller!Init
    PROVE  Controller!Reviewed
<1> USE DEF Controller!Init
<1>1. Controller!ControllerTypeOK
  BY StageNumbers DEF Controller!ControllerTypeOK, Controller!Nothing
<1>2. Controller!StagesDone /\ Controller!CommittedWasReviewed /\ s2 # "success"
  BY DEF Controller!StagesDone, Controller!CommittedWasReviewed
<1> QED
  BY <1>1, <1>2 DEF Controller!Reviewed

(* The number of the stage an attempt is at.                                 *)
LEMMA StageReached ==
    ASSUME Controller!ControllerTypeOK
    PROVE  /\ s4 \in 1 .. 10
           /\ Controller!At("validation_pre_apply") => s4 = 5
           /\ Controller!At("patch_application") => s4 = 6
           /\ Controller!At("validation_post_apply") => s4 = 7
           /\ Controller!At("git_review") => s4 = 8
           /\ Controller!At("commit") => s4 = 9
           /\ Controller!At("push") => s4 = 10
  BY StageNumbers DEF Controller!ControllerTypeOK, Controller!At

(* An engine that answers ends its stage, and only that.                     *)
LEMMA AnswerFacts ==
    ASSUME NEW name, NEW answer, Controller!Answer(name, answer)
    PROVE  /\ Controller!At(name) /\ s2 = "running" /\ s5 = Controller!Nothing
           /\ s4' = s4 + 1
           /\ UNCHANGED <<s2, s3, s5, s7>>
  BY DEF Controller!Answer, Controller!At

(* Its answer is added to those of the attempt.                              *)
LEMMA AnswerKept ==
    ASSUME NEW name, NEW answer, Controller!Answer(name, answer)
    PROVE  /\ DOMAIN s6' = DOMAIN s6 \cup {name}
           /\ s6'[name] = answer
           /\ \A other \in DOMAIN s6 : other # name => s6'[other] = s6[other]
  BY DEF Controller!Answer, Controller!Answered

(* Where the controller commits, all that a commit needs was done.           *)
LEMMA CommitFacts ==
    ASSUME Controller!Reviewed, Controller!At("commit"), Controller!SafeBranch, Controller!Committed
    PROVE  /\ s10' \in Seq([tree : SUBSET Nat, branch : Branches, attempt : Nat, vetted : BOOLEAN])
           /\ s10' # <<>>
           /\ s10'[Len(s10')].attempt = s3 /\ s10'[Len(s10')].tree = s8
           /\ \A k \in DOMAIN s10' :
                 s10'[k].vetted /\ s10'[k].branch \notin Protected \cup {Controller!NoBranch}
<1> DEFINE new == [tree |-> s8, branch |-> s1, attempt |-> s3, vetted |-> Controller!Vetted]
<1>1. s4 = 9
  BY StageReached DEF Controller!Reviewed
<1>2. Controller!Vetted
  BY <1>1 DEF Controller!Vetted, Controller!Reviewed, Controller!StagesDone, Controller!At
<1>3. Controller!Vetted = TRUE
  BY <1>2
<1>4. s1 \in Branches /\ s1 \notin Protected \cup {Controller!NoBranch}
  BY DEF Controller!SafeBranch, Controller!Reviewed, Controller!ControllerTypeOK
<1>5. /\ new \in [tree : SUBSET Nat, branch : Branches, attempt : Nat, vetted : BOOLEAN]
      /\ new.tree = s8 /\ new.attempt = s3 /\ new.branch = s1 /\ new.vetted
  BY <1>3, <1>4 DEF Controller!Reviewed, Controller!ControllerTypeOK
<1>6. s10' = Append(s10, new)
  BY DEF Controller!Committed
<1>7. s10 \in Seq([tree : SUBSET Nat, branch : Branches, attempt : Nat, vetted : BOOLEAN])
  BY DEF Controller!Reviewed, Controller!ControllerTypeOK
<1>8. \A k \in DOMAIN s10 : s10[k].vetted /\ s10[k].branch \notin Protected \cup {Controller!NoBranch}
  BY DEF Controller!Reviewed, Controller!CommittedWasReviewed
<1> HIDE DEF new
<1> QED
  BY <1>4, <1>5, <1>6, <1>7, <1>8

(* What an engine that raises leaves behind is looked at by none.            *)
LEMMA ControllerKeeps ==
    ASSUME Controller!Reviewed, Controller!Next \/ UNCHANGED Controller!vars
    PROVE  Controller!Reviewed'
<1> USE DEF Controller!Reviewed
<1>a. s4 \in 1 .. 10
  BY StageReached
<1>1. CASE Controller!Prepare
  <2>1. PICK name : Controller!Answer(name, "done") /\ name # "push"
    BY <1>1, <1>a DEF Controller!Prepare, Controller!Stages
  <2>2. /\ s4' \in 1 .. 5 /\ s1' \in Branches \cup {Controller!NoBranch}
        /\ UNCHANGED <<s2, s3, s5, s7, s8, s9, s10, s11>>
    BY <1>1, <1>a, <2>1, AnswerFacts DEF Controller!Prepare, Controller!repo_vars
  <2>3. Controller!ControllerTypeOK'
    BY <2>2, StageNumbers DEF Controller!ControllerTypeOK
  <2>4. Controller!StagesDone' /\ Controller!CommittedWasReviewed'
    BY <2>2 DEF Controller!StagesDone, Controller!CommittedWasReviewed
  <2> QED
    BY <2>2, <2>3, <2>4
<1>2. CASE Controller!ValidatePatches
  <2>1. PICK answer \in {"passed", "not_passed"} : Controller!Answer("validation_pre_apply", answer)
    BY <1>2 DEF Controller!ValidatePatches
  <2>2. s4 = 5 /\ s4' = 6 /\ UNCHANGED <<s1, s2, s3, s5, s7, s8, s9, s10, s11>>
    BY <1>2, <2>1, AnswerFacts, StageReached DEF Controller!ValidatePatches, Controller!repo_vars
  <2>3. Controller!ControllerTypeOK'
    BY <2>2, StageNumbers DEF Controller!ControllerTypeOK
  <2>4. DOMAIN s6' = DOMAIN s6 \cup {"validation_pre_apply"}
    BY <2>1, AnswerKept
  <2>5. Controller!StagesDone'
    BY <2>2, <2>4 DEF Controller!StagesDone, Controller!ControllerTypeOK
  <2>6. Controller!CommittedWasReviewed'
    BY <2>2 DEF Controller!CommittedWasReviewed
  <2> QED
    BY <2>2, <2>3, <2>5, <2>6
<1>3. CASE Controller!ApplyPatches
  <2>1. Controller!Answer("patch_application", "done")
    BY <1>3 DEF Controller!ApplyPatches
  <2>2. s2 = "running" /\ s4 = 6 /\ s4' = 7 /\ s8' = s8 \cup {s3}
        /\ UNCHANGED <<s1, s2, s3, s5, s7, s9, s10, s11>>
    BY <1>3, <2>1, AnswerFacts, StageReached DEF Controller!ApplyPatches
  <2>3. Controller!ControllerTypeOK'
    BY <2>2, StageNumbers DEF Controller!ControllerTypeOK
  <2>4. DOMAIN s6' = DOMAIN s6 \cup {"patch_application"}
    BY <2>1, AnswerKept
  <2>5. Controller!StagesDone'
    BY <2>2, <2>4 DEF Controller!StagesDone, Controller!ControllerTypeOK
  <2>6. Controller!CommittedWasReviewed'
    BY <2>2 DEF Controller!CommittedWasReviewed
  <2> QED
    BY <2>2, <2>3, <2>5, <2>6
<1>4. CASE Controller!ValidateTree
  <2>1. PICK answer \in {"passed", "not_passed"} : Controller!Answer("validation_post_apply", answer)
    BY <1>4 DEF Controller!ValidateTree
  <2>2. s4 = 7 /\ s4' = 8 /\ UNCHANGED <<s1, s2, s3, s5, s7, s8, s9, s10, s11>>
    BY <1>4, <2>1, AnswerFacts, StageReached DEF Controller!ValidateTree, Controller!repo_vars
  <2>3. Controller!ControllerTypeOK'
    BY <2>2, StageNumbers DEF Controller!ControllerTypeOK
  <2>4. DOMAIN s6' = DOMAIN s6 \cup {"validation_post_apply"}
    BY <2>1, AnswerKept
  <2>5. Controller!StagesDone'
    BY <2>2, <2>4 DEF Controller!StagesDone, Controller!ControllerTypeOK
  <2>6. Controller!CommittedWasReviewed'
    BY <2>2 DEF Controller!CommittedWasReviewed
  <2> QED
    BY <2>2, <2>3, <2>5, <2>6
<1>5. CASE Controller!Review
  <2>1. CASE Controller!Answer("git_review", "approved")
    <3>1. s4 = 8 /\ s4' = 9 /\ s9' = s8 /\ UNCHANGED <<s1, s2, s3, s5, s7, s8, s10, s11>>
      BY <1>5, <2>1, AnswerFacts, StageReached DEF Controller!Review
    <3>2. Controller!ControllerTypeOK'
      BY <3>1, StageNumbers DEF Controller!ControllerTypeOK
    <3>3. DOMAIN s6' = DOMAIN s6 \cup {"git_review"} /\ s6'["git_review"] = "approved"
      BY <2>1, AnswerKept
    <3>4. Controller!StagesDone'
      BY <3>1, <3>3 DEF Controller!StagesDone
    <3>5. Controller!CommittedWasReviewed'
      BY <3>1 DEF Controller!CommittedWasReviewed
    <3> QED
      BY <3>1, <3>2, <3>4, <3>5
  <2>2. CASE Controller!Fails("rejected")
    <3>1. /\ s2 = "running" /\ s5' = "rejected"
          /\ UNCHANGED <<s1, s2, s3, s4, s6, s7, s8, s10, s11>>
      BY <1>5, <2>2 DEF Controller!Review, Controller!Fails, Controller!At
    <3>2. Controller!ControllerTypeOK'
      BY <3>1 DEF Controller!ControllerTypeOK
    <3>3. Controller!StagesDone' /\ Controller!CommittedWasReviewed'
      BY <3>1 DEF Controller!StagesDone, Controller!CommittedWasReviewed, Controller!Nothing
    <3> QED
      BY <3>1, <3>2, <3>3
  <2> QED
    BY <1>5, <2>1, <2>2 DEF Controller!Review
<1>6. CASE Controller!Commit
  <2>1. CASE ~Controller!SafeBranch
    <3>1. /\ s2 = "running" /\ s5' = "security"
          /\ UNCHANGED <<s1, s2, s3, s4, s6, s7, s8, s9, s10, s11>>
      BY <1>6, <2>1 DEF Controller!Commit, Controller!Fails, Controller!At
    <3>2. Controller!ControllerTypeOK'
      BY <3>1 DEF Controller!ControllerTypeOK
    <3>3. Controller!StagesDone' /\ Controller!CommittedWasReviewed'
      BY <3>1 DEF Controller!StagesDone, Controller!CommittedWasReviewed, Controller!Nothing
    <3> QED
      BY <3>1, <3>2, <3>3
  <2>2. CASE Controller!SafeBranch
    <3>1. Controller!Answer("commit", "done") /\ Controller!Committed
      BY <1>6, <2>2 DEF Controller!Commit
    <3>2. s4 = 9 /\ s4' = 10 /\ s2 = "running" /\ UNCHANGED <<s1, s2, s3, s5, s7, s8, s9, s11>>
      BY <1>6, <3>1, AnswerFacts, StageReached DEF Controller!Commit
    <3>3. /\ s10' \in Seq([tree : SUBSET Nat, branch : Branches, attempt : Nat, vetted : BOOLEAN])
          /\ Controller!LastCommitIsOurs'
          /\ \A k \in DOMAIN s10' :
                s10'[k].vetted /\ s10'[k].branch \notin Protected \cup {Controller!NoBranch}
      BY <1>6, <2>2, <3>1, <3>2, CommitFacts DEF Controller!Commit, Controller!LastCommitIsOurs
    <3>4. Controller!ControllerTypeOK'
      BY <3>2, <3>3, StageNumbers DEF Controller!ControllerTypeOK
    <3>5. /\ DOMAIN s6' = DOMAIN s6 \cup {"commit"}
          /\ "git_review" \in DOMAIN s6 => s6'["git_review"] = s6["git_review"]
      BY <3>1, AnswerKept
    <3>6. Controller!StagesDone'
      BY <3>2, <3>3, <3>5 DEF Controller!StagesDone
    <3>7. Controller!CommittedWasReviewed'
      BY <3>2, <3>3 DEF Controller!CommittedWasReviewed
    <3> QED
      BY <3>2, <3>4, <3>6, <3>7
  <2> QED
    BY <2>1, <2>2
<1>7. CASE Controller!Push
  <2>1. /\ s2 = "running" /\ s2' = "success" /\ s7' = Append(s7, "success") /\ s11' = Len(s10)
        /\ UNCHANGED <<s1, s3, s4, s5, s8, s9, s10>>
    BY <1>7 DEF Controller!Push, Controller!At
  <2>2. Controller!LastCommitIsOurs
    BY <1>7, StageReached DEF Controller!Push, Controller!At, Controller!StagesDone
  <2>3. Controller!ControllerTypeOK'
    BY <2>1 DEF Controller!ControllerTypeOK
  <2>4. Controller!StagesDone'
    BY <2>1 DEF Controller!StagesDone
  <2>5. Controller!CommittedWasReviewed'
    BY <2>1, <2>2 DEF Controller!CommittedWasReviewed, Controller!LastCommitIsOurs,
                      Controller!ControllerTypeOK
  <2> QED
    BY <2>1, <2>2, <2>3, <2>4, <2>5 DEF Controller!LastCommitIsOurs
<1>8. CASE Controller!Raise
  <2>1. /\ s2 = "running" /\ s5' \in {"security", "validation", "rejected", "stage", "unexpected"}
        /\ s8' \in {s8, s8 \cup {s3}}
        /\ UNCHANGED <<s1, s2, s3, s4, s7>>
    BY <1>8 DEF Controller!Raise, Controller!Fails
  <2>2. /\ s10' \in Seq([tree : SUBSET Nat, branch : Branches, attempt : Nat, vetted : BOOLEAN])
        /\ \A k \in DOMAIN s10' :
              s10'[k].vetted /\ s10'[k].branch \notin Protected \cup {Controller!NoBranch}
    <3>1. CASE s10' = s10
      BY <3>1 DEF Controller!ControllerTypeOK, Controller!CommittedWasReviewed
    <3>2. CASE Controller!At("commit") /\ Controller!Committed
      BY <1>8, <3>2, CommitFacts DEF Controller!Raise
    <3> QED
      BY <1>8, <3>1, <3>2 DEF Controller!Raise
  <2>3. Controller!ControllerTypeOK'
    BY <2>1, <2>2 DEF Controller!ControllerTypeOK
  <2>4. Controller!StagesDone'
    BY <2>1 DEF Controller!StagesDone, Controller!Nothing
  <2>5. Controller!CommittedWasReviewed'
    BY <2>1, <2>2 DEF Controller!CommittedWasReviewed
  <2> QED
    BY <2>1, <2>3, <2>4, <2>5
<1>9. CASE Controller!Abort \/ Controller!GiveUp
  <2>1. /\ s2 = "running" /\ s2' \in {"aborted", "failed"}
        /\ s7' = Append(s7, s5) /\ s5 # "nothing"
        /\ UNCHANGED <<s1, s3, s4, s5, s6, s8, s9, s10, s11>>
    BY <1>9 DEF Controller!Abort, Controller!GiveUp, Controller!Nothing, Controller!repo_vars
  <2>2. Controller!ControllerTypeOK'
    BY <2>1 DEF Controller!ControllerTypeOK, Controller!Nothing
  <2>3. Controller!StagesDone'
    BY <2>1 DEF Controller!StagesDone
  <2>4. Controller!CommittedWasReviewed'
    BY <2>1 DEF Controller!CommittedWasReviewed, Controller!ControllerTypeOK, Controller!Nothing
  <2> QED
    BY <2>1, <2>2, <2>3, <2>4
<1>10. CASE Controller!Retry
  <2>1. /\ s2 = "running" /\ s3' = s3 + 1 /\ s4' = 1 /\ s5' = "nothing"
        /\ s7' = Append(s7, s5) /\ s5 # "nothing"
        /\ UNCHANGED <<s1, s2, s8, s9, s10, s11>>
    BY <1>10 DEF Controller!Retry, Controller!Nothing, Controller!repo_vars
  <2>2. Controller!ControllerTypeOK'
    BY <2>1, StageNumbers DEF Controller!ControllerTypeOK, Controller!Nothing
  <2>3. Controller!StagesDone'
    BY <2>1 DEF Controller!StagesDone
  <2>4. Controller!CommittedWasReviewed'
    BY <2>1 DEF Controller!CommittedWasReviewed, Controller!ControllerTypeOK, Controller!Nothing
  <2> QED
    BY <2>1, <2>2, <2>3, <2>4
<1>11. CASE UNCHANGED Controller!vars
  BY <1>11 DEF Controller!vars, Controller!run_vars, Controller!repo_vars,
               Controller!ControllerTypeOK, Controller!StagesDone, Controller!CommittedWasReviewed,
               Controller!LastCommitIsOurs
<1> QED
  BY <1>1, <1>2, <1>3, <1>4, <1>5, <1>6, <1>7, <1>8, <1>9, <1>10, <1>11 DEF Controller!Next

(* In every run of the controller, whatever the branches, the denylist and   *)
(* the attempts it is granted: what is committed was approved by the review  *)
(* of the same attempt after both validations had run, whatever these had    *)
(* answered, on a branch that is not protected, and success means that it    *)
(* was pushed.                                                               *)
THEOREM CommitsAreReviewed == AnySpec => []CommittedWasReviewed
<1> DEFINE Inv == component = "controller" => Controller!Reviewed
<1>1. AnyInit => Inv
  BY ControllerBegins DEF AnyInit
<1>2. Inv /\ [AnyNext]_AnyVars => Inv'
  BY Selected, ControllerKeeps
<1>3. Inv => CommittedWasReviewed
  BY DEF Controller!Reviewed, CommittedWasReviewed
<1> QED
  BY <1>1, <1>2, <1>3, PTL DEF AnySpec, AnyVars

-----------------------------------------------------------------------------
(* Site operations                                                           *)

LEMMA SitesBegin ==
    ASSUME Sites!Init
    PROVE  Sites!Dispatched
<1> USE DEF Sites!Init
<1>1. Sites!SitesTypeOK
  BY SitesAssumption
  DEF Sites!SitesTypeOK, Sites!Registrations, Sites!Statuses, Sites!Places, Sites!Between, Sites!Nothing
<1>2. Sites!DispatchesAlone
  BY DEF Sites!DispatchesAlone, Sites!UnderLock, Sites!Between
<1>3. Sites!ClosedStaysClosed
  BY DEF Sites!ClosedStaysClosed
<1> QED
  BY <1>1, <1>2, <1>3 DEF Sites!Dispatched

(* What one thread dispatches alone, the step of another one leaves to it.   *)
Alone(k) ==
    /\ s10[k] \notin Sites!Between => Sites!At(k) \in Sites!Registrations
    /\ s10[k] \in Sites!UnderLock => s9[Sites!At(k)] = k
    /\ s10[k] \in {"dispatch_emits", "dispatching"} => s11[k].left \subseteq Sites!Candidates(Sites!At(k))

LEMMA OthersAlone ==
    ASSUME Sites!DispatchesAlone, NEW h \in Threads,
           \A k \in Threads \ {h} : s10'[k] = s10[k] /\ s11'[k] = s11[k],
           \A e \in Sites!Registrations :
              s9[e] \notin {Sites!Nobody, h} => s9'[e] = s9[e] /\ s6'[e] = s6[e],
           Alone(h)'
    PROVE  Sites!DispatchesAlone'
<1> SUFFICES ASSUME NEW k \in Threads, k # h
             PROVE  Alone(k)'
  BY DEF Sites!DispatchesAlone, Alone
<1>1. Alone(k) /\ s10'[k] = s10[k] /\ s11'[k] = s11[k] /\ k # Sites!Nobody
  BY SitesAssumption DEF Sites!DispatchesAlone, Alone, Sites!Nobody
<1>2. s10[k] \in Sites!UnderLock => s10[k] \notin Sites!Between
  BY DEF Sites!UnderLock, Sites!Between
<1>3. s10[k] \in {"dispatch_emits", "dispatching"} => s10[k] \in Sites!UnderLock
  BY DEF Sites!UnderLock
<1>4. s10[k] \in Sites!UnderLock => s9'[s11[k].at] = k /\ s6'[s11[k].at] = s6[s11[k].at]
  BY <1>1, <1>2 DEF Alone, Sites!At
<1> QED
  BY <1>1, <1>3, <1>4 DEF Alone, Sites!At, Sites!Candidates

(* Becomes() changes the status of some tasks of one registration.           *)
LEMMA BecomesFacts ==
    ASSUME Sites!SitesTypeOK, NEW h \in Threads, Sites!At(h) \in Sites!Registrations,
           NEW S, NEW status \in Sites!Statuses, Sites!Becomes(h, S, status)
    PROVE  /\ s6' \in [Sites!Registrations -> [Tasks -> Sites!Statuses]]
           /\ \A e \in Sites!Registrations : e # Sites!At(h) => s6'[e] = s6[e]
           /\ \A t \in Tasks : s6'[Sites!At(h)][t] = IF t \in S THEN status ELSE s6[Sites!At(h)][t]
<1> DEFINE new == [t \in Tasks |-> IF t \in S THEN status ELSE s6[Sites!At(h)][t]]
<1>1. s6' = [s6 EXCEPT ![Sites!At(h)] = new]
  BY DEF Sites!Becomes, Sites!SitesTypeOK
<1>2. new \in [Tasks -> Sites!Statuses]
  BY DEF Sites!SitesTypeOK
<1>3. \A t \in Tasks : new[t] = IF t \in S THEN status ELSE s6[Sites!At(h)][t]
  OBVIOUS
<1> HIDE DEF new
<1> QED
  BY <1>1, <1>2, <1>3 DEF Sites!SitesTypeOK

(* Go() and Hold() write what one thread is at and what it holds.            *)
Working ==
    [at : Sites!Registrations \cup {0}, left : SUBSET Tasks, spent : Int, count : Int,
     subject : SUBSET Tasks]

LEMMA ChargedFacts ==
    ASSUME NEW w \in Working, NEW c \in Int
    PROVE  LET m == [w EXCEPT !.spent = @ + c, !.count = @ + 1]
           IN  m \in Working /\ m.at = w.at /\ m.left = w.left
<1> DEFINE m == [[w EXCEPT !.spent = @ + c] EXCEPT !.count = @ + 1]
<1>1. w.spent + c \in Int /\ w.count + 1 \in Int
  BY DEF Working
<1>2. [w EXCEPT !.spent = @ + c] \in Working
  BY <1>1 DEF Working
<1>3. m \in Working /\ m.at = w.at /\ m.left = w.left
  BY <1>1, <1>2 DEF Working
<1>4. [w EXCEPT !.spent = @ + c, !.count = @ + 1] = m
  BY DEF Working
<1> QED
  BY <1>3, <1>4

LEMMA GoFacts ==
    ASSUME Sites!SitesTypeOK, NEW h \in Threads, NEW place \in Sites!Places, Sites!Go(h, place)
    PROVE  /\ s10' \in [Threads -> Sites!Places]
           /\ s10'[h] = place
           /\ \A k \in Threads \ {h} : s10'[k] = s10[k]
  BY DEF Sites!Go, Sites!SitesTypeOK

LEMMA HoldFacts ==
    ASSUME Sites!SitesTypeOK, NEW h \in Threads, NEW what \in Working, Sites!Hold(h, what)
    PROVE  /\ s11' \in [Threads -> Working]
           /\ s11'[h] = what
           /\ \A k \in Threads \ {h} : s11'[k] = s11[k]
  BY DEF Sites!Hold, Sites!SitesTypeOK, Working

LEMMA NothingHeld == Sites!Nothing \in Working
  BY DEF Sites!Nothing, Working

LEMMA LeaveFacts ==
    ASSUME Sites!SitesTypeOK, NEW h \in Threads, Sites!Leave(h)
    PROVE  /\ s10' \in [Threads -> Sites!Places] /\ s11' \in [Threads -> Working]
           /\ s10'[h] = "idle"
           /\ \A k \in Threads \ {h} : s10'[k] = s10[k] /\ s11'[k] = s11[k]
<1>1. Sites!Go(h, "idle") /\ Sites!Hold(h, Sites!Nothing) /\ "idle" \in Sites!Places
  BY DEF Sites!Leave, Sites!Places, Sites!Between
<1> QED
  BY <1>1, GoFacts, HoldFacts, NothingHeld

(* What a step leaves as it was of what the invariant is about.              *)
LEMMA Untouched ==
    ASSUME Sites!ClosedStaysClosed, UNCHANGED <<s6, s12, s13>>
    PROVE  Sites!ClosedStaysClosed'
  BY DEF Sites!ClosedStaysClosed, Sites!Candidates

(* A status that changes from one of an open task to another keeps what is   *)
(* closed.                                                                   *)
LEMMA OpenTasksChange ==
    ASSUME Sites!SitesTypeOK, Sites!ClosedStaysClosed, UNCHANGED <<s12, s13>>,
           \A e \in Sites!Registrations, t \in Tasks :
              s6'[e][t] # s6[e][t] => s6[e][t] \in {"none", "candidate", "awaiting_approval"}
    PROVE  Sites!ClosedStaysClosed'
<1> SUFFICES ASSUME NEW e \in Sites!Registrations, NEW t \in Tasks
             PROVE  /\ s12[e][t] > 0 => s12[e][t] = 1 /\ s6'[e][t] \notin {"candidate", "awaiting_approval"}
                                        /\ s6'[e][t] # "none"
                    /\ <<e, t>> \in s13 => s6'[e][t] = "cancelled"
  BY DEF Sites!ClosedStaysClosed, Sites!Candidates
<1>1. /\ s12[e][t] > 0 => s12[e][t] = 1 /\ s6[e][t] \notin {"candidate", "awaiting_approval"}
                                        /\ s6[e][t] # "none"
      /\ <<e, t>> \in s13 => s6[e][t] = "cancelled"
  BY DEF Sites!ClosedStaysClosed, Sites!Candidates
<1> QED
  BY <1>1

(* A step of one thread keeps the invariant if it keeps the types, leaves    *)
(* what others have locked to them, and keeps what is closed.                *)
LEMMA StepKeeps ==
    ASSUME Sites!Dispatched, NEW h \in Threads, UNCHANGED <<s1, s2, s4, s14>>,
           s5' \in [Sites!Registrations -> SUBSET Tasks],
           s6' \in [Sites!Registrations -> [Tasks -> Sites!Statuses]],
           s9' \in [Sites!Registrations -> Threads \cup {Sites!Nobody}],
           s10' \in [Threads -> Sites!Places], s11' \in [Threads -> Working],
           s12' \in [Sites!Registrations -> [Tasks -> Nat]],
           \A k \in Threads \ {h} : s10'[k] = s10[k] /\ s11'[k] = s11[k],
           \A e \in Sites!Registrations :
              s9[e] \notin {Sites!Nobody, h} => s9'[e] = s9[e] /\ s6'[e] = s6[e],
           Alone(h)', Sites!ClosedStaysClosed'
    PROVE  Sites!Dispatched'
<1>1. Sites!SitesTypeOK'
  BY DEF Sites!Dispatched, Sites!SitesTypeOK, Working
<1>2. Sites!DispatchesAlone'
  BY OthersAlone DEF Sites!Dispatched
<1> QED
  BY <1>1, <1>2 DEF Sites!Dispatched

(* The supervisor is called for one task of a registration.                  *)
Submitted(e, t) ==
    /\ s12' = [s12 EXCEPT ![e][t] = @ + 1]
    /\ s14' = IF <<e, t>> \in s13 THEN s14 \cup {t} ELSE s14

(* It was a candidate, so that it is the first call, and not rejected; it    *)
(* must not be a candidate any more.                                         *)
LEMMA SubmissionCloses ==
    ASSUME Sites!SitesTypeOK, Sites!ClosedStaysClosed,
           NEW e \in Sites!Registrations, NEW t \in Sites!Candidates(e), t \in Tasks,
           Submitted(e, t), s13' = s13,
           NEW status \in {"submitted", "blocked"},
           \A x \in Sites!Registrations : x # e => s6'[x] = s6[x],
           \A u \in Tasks : s6'[e][u] = IF u = t THEN status ELSE s6[e][u]
    PROVE  /\ Sites!ClosedStaysClosed'
           /\ s12' \in [Sites!Registrations -> [Tasks -> Nat]]
           /\ s14' = s14
<1>1. s12 \in [Sites!Registrations -> [Tasks -> Nat]] /\ s6[e][t] \in {"candidate", "awaiting_approval"}
  BY DEF Sites!SitesTypeOK, Sites!Candidates
<1>2. s12[e][t] = 0 /\ <<e, t>> \notin s13
  <2>1. s12[e][t] \in Nat
    BY <1>1
  <2>2. ~(s12[e][t] > 0)
    BY DEF Sites!ClosedStaysClosed
  <2>3. <<e, t>> \notin s13
    BY <1>1 DEF Sites!ClosedStaysClosed
  <2> QED
    BY <2>1, <2>2, <2>3
<1>3. /\ s12' \in [Sites!Registrations -> [Tasks -> Nat]]
      /\ \A x \in Sites!Registrations, u \in Tasks :
            s12'[x][u] = IF x = e /\ u = t THEN 1 ELSE s12[x][u]
  <2> DEFINE row == [s12[e] EXCEPT ![t] = s12[e][t] + 1]
  <2>1. row \in [Tasks -> Nat] /\ \A u \in Tasks : row[u] = IF u = t THEN 1 ELSE s12[e][u]
    BY <1>1, <1>2
  <2>2. s12' = [s12 EXCEPT ![e] = row]
    BY <1>1 DEF Submitted
  <2> HIDE DEF row
  <2> QED
    BY <1>1, <2>1, <2>2
<1>4. Sites!ClosedStaysClosed'
  <2> SUFFICES ASSUME NEW x \in Sites!Registrations, NEW u \in Tasks
               PROVE  /\ s12'[x][u] > 0 => /\ s12'[x][u] = 1
                                           /\ s6'[x][u] \notin {"candidate", "awaiting_approval"}
                                           /\ s6'[x][u] # "none"
                      /\ <<x, u>> \in s13 => s6'[x][u] = "cancelled"
    BY DEF Sites!ClosedStaysClosed, Sites!Candidates
  <2>1. /\ s12[x][u] > 0 => /\ s12[x][u] = 1
                            /\ s6[x][u] \notin {"candidate", "awaiting_approval"}
                            /\ s6[x][u] # "none"
        /\ <<x, u>> \in s13 => s6[x][u] = "cancelled"
    BY DEF Sites!ClosedStaysClosed, Sites!Candidates
  <2>2. CASE x = e /\ u = t
    BY <1>2, <1>3, <2>2
  <2>3. CASE ~(x = e /\ u = t)
    BY <1>3, <2>1, <2>3
  <2> QED
    BY <2>2, <2>3
<1> QED
  BY <1>2, <1>3, <1>4 DEF Submitted

LEMMA SitesStep ==
    ASSUME Sites!Dispatched, NEW h \in Threads, Sites!Step(h)
    PROVE  Sites!Dispatched'
<1> DEFINE e == Sites!At(h)
<1>a. /\ Sites!SitesTypeOK /\ Sites!ClosedStaysClosed /\ Alone(h)
      /\ s5 \in [Sites!Registrations -> SUBSET Tasks]
      /\ s6 \in [Sites!Registrations -> [Tasks -> Sites!Statuses]]
      /\ s9 \in [Sites!Registrations -> Threads \cup {Sites!Nobody}]
      /\ s10 \in [Threads -> Sites!Places] /\ s11 \in [Threads -> Working]
      /\ s12 \in [Sites!Registrations -> [Tasks -> Nat]]
      /\ h # Sites!Nobody
  BY SitesAssumption
  DEF Sites!Dispatched, Sites!SitesTypeOK, Sites!DispatchesAlone, Alone, Working, Sites!Nobody
<1>b. s10[h] \notin Sites!Between => e \in Sites!Registrations
  BY <1>a DEF Alone
<1>c. s10[h] \in Sites!UnderLock => s9[e] = h
  BY <1>a DEF Alone
<1>1. CASE Sites!RunCycle(h)
  <2>1. UNCHANGED <<s1, s2, s4, s5, s6, s9, s11, s12, s13, s14>> /\ Sites!Go(h, "assess")
    BY <1>1 DEF Sites!RunCycle, Sites!project_vars, Sites!history_vars
  <2>2. "assess" \in Sites!Places /\ "assess" \in Sites!Between /\ "assess" \notin Sites!UnderLock
    BY DEF Sites!Places, Sites!Between, Sites!UnderLock
  <2>3. /\ s10' \in [Threads -> Sites!Places] /\ s10'[h] = "assess"
        /\ \A k \in Threads \ {h} : s10'[k] = s10[k]
    BY <1>a, <2>1, <2>2, GoFacts
  <2>4. Alone(h)'
    BY <2>2, <2>3 DEF Alone, Sites!Between, Sites!UnderLock
  <2> QED
    BY <1>a, <2>1, <2>3, <2>4, Untouched, StepKeeps
<1>16. CASE Sites!RequireProject(h)
  <2>1. UNCHANGED <<s1, s2, s4, s5, s6, s9, s12, s13, s14>>
    BY <1>16 DEF Sites!RequireProject, Sites!project_vars, Sites!history_vars
  <2>2. CASE s1 = 0
    <3>1. /\ s10' \in [Threads -> Sites!Places] /\ s11' \in [Threads -> Working]
          /\ s10'[h] = "idle"
          /\ \A k \in Threads \ {h} : s10'[k] = s10[k] /\ s11'[k] = s11[k]
      BY <1>16, <1>a, <2>2, LeaveFacts DEF Sites!RequireProject
    <3>2. Alone(h)'
      BY <3>1 DEF Alone, Sites!UnderLock, Sites!Between
    <3> QED
      BY <1>a, <2>1, <3>1, <3>2, Untouched, StepKeeps
  <2>3. CASE s1 # 0
    <3> DEFINE what == [Sites!Nothing EXCEPT !.at = s1, !.subject = Sites!AutoEligible(s1)]
               place == Sites!Phases[s10[h]]
    <3>1. Sites!Hold(h, what) /\ Sites!Go(h, place) /\ s10[h] \in DOMAIN Sites!Phases
      BY <1>16, <2>3 DEF Sites!RequireProject
    <3>2. s1 \in Sites!Registrations /\ Sites!AutoEligible(s1) \subseteq Tasks
      BY <1>a, <2>3 DEF Sites!SitesTypeOK, Sites!AutoEligible
    <3>3. what \in Working /\ what.at = s1
      BY <3>2, NothingHeld DEF Working
    <3>4. place \in {"assessing", "generating", "locking"}
      BY <3>1 DEF Sites!Phases
    <3>5. place \in Sites!Places /\ place \notin Sites!UnderLock
      BY <3>4 DEF Sites!Places, Sites!Between, Sites!UnderLock
    <3> HIDE DEF what, place
    <3>6. /\ s10' \in [Threads -> Sites!Places] /\ s10'[h] = place
          /\ \A k \in Threads \ {h} : s10'[k] = s10[k]
      BY <1>a, <3>1, <3>5, GoFacts
    <3>7. /\ s11' \in [Threads -> Working] /\ s11'[h] = what
          /\ \A k \in Threads \ {h} : s11'[k] = s11[k]
      BY <1>a, <3>1, <3>3, HoldFacts
    <3>8. Alone(h)'
      BY <3>2, <3>3, <3>5, <3>6, <3>7 DEF Alone, Sites!At, Sites!UnderLock
    <3> QED
      BY <1>a, <2>1, <3>6, <3>7, <3>8, Untouched, StepKeeps
  <2> QED
    BY <2>2, <2>3
<1>2. CASE Sites!AssessFindings(h)
  <2>1. /\ e \in Sites!Registrations /\ s9[e] = Sites!Nobody
        /\ s9' = [s9 EXCEPT ![e] = h] /\ s5' = [s5 EXCEPT ![e] = @ \cup s4[e]]
        /\ UNCHANGED <<s1, s2, s4, s6, s11, s12, s13, s14>>
    BY <1>2, <1>b DEF Sites!AssessFindings, Sites!Lock, Sites!Free, Sites!Between, Sites!history_vars
  <2>2. PICK place \in {"assessed", "assess_emits"} : Sites!Go(h, place)
    BY <1>2 DEF Sites!AssessFindings
  <2>3. place \in Sites!Places /\ place \notin {"dispatch_emits", "dispatching"}
    BY <2>2 DEF Sites!Places, Sites!Between, Sites!UnderLock
  <2>4. /\ s10' \in [Threads -> Sites!Places] /\ s10'[h] = place
        /\ \A k \in Threads \ {h} : s10'[k] = s10[k]
    BY <1>a, <2>2, <2>3, GoFacts
  <2>5. s4 \in [Sites!Registrations -> SUBSET Tasks]
    BY <1>a DEF Sites!SitesTypeOK
  <2>6. s5' \in [Sites!Registrations -> SUBSET Tasks]
    BY <1>a, <2>1, <2>5
  <2>7. /\ s9' \in [Sites!Registrations -> Threads \cup {Sites!Nobody}] /\ s9'[e] = h
        /\ \A x \in Sites!Registrations : s9[x] # Sites!Nobody => s9'[x] = s9[x]
    BY <1>a, <2>1
  <2>8. Alone(h)'
    BY <2>1, <2>3, <2>4, <2>7 DEF Alone, Sites!At
  <2> QED
    BY <1>a, <2>1, <2>4, <2>6, <2>7, <2>8, Untouched, StepKeeps
<1>3. CASE Sites!Assessed(h)
  <2>1. /\ s10[h] \in Sites!UnderLock /\ Sites!Go(h, "generate")
        /\ s9' = [s9 EXCEPT ![e] = Sites!Nobody] /\ Sites!Hold(h, Sites!Nothing)
        /\ UNCHANGED <<s1, s2, s4, s5, s6, s12, s13, s14>>
    BY <1>3 DEF Sites!Assessed, Sites!Unlock, Sites!UnderLock, Sites!project_vars, Sites!history_vars
  <2>2. e \in Sites!Registrations /\ s9[e] = h
    BY <1>b, <1>c, <2>1 DEF Sites!UnderLock, Sites!Between
  <2>3. "generate" \in Sites!Places /\ "generate" \notin Sites!UnderLock
    BY DEF Sites!Places, Sites!Between, Sites!UnderLock
  <2>4. /\ s10' \in [Threads -> Sites!Places] /\ s10'[h] = "generate"
        /\ \A k \in Threads \ {h} : s10'[k] = s10[k]
    BY <1>a, <2>1, <2>3, GoFacts
  <2>5. /\ s9' \in [Sites!Registrations -> Threads \cup {Sites!Nobody}]
        /\ \A x \in Sites!Registrations : s9[x] # h => s9'[x] = s9[x]
    BY <1>a, <2>1, <2>2
  <2>6. Alone(h)'
    BY <2>3, <2>4 DEF Alone, Sites!Between, Sites!UnderLock
  <2>7. /\ s11' \in [Threads -> Working]
        /\ \A k \in Threads \ {h} : s11'[k] = s11[k]
    BY <1>a, <2>1, NothingHeld, HoldFacts
  <2> QED
    BY <1>a, <2>1, <2>4, <2>5, <2>6, <2>7, Untouched, StepKeeps
<1>4. CASE Sites!GenerateCandidates(h)
  <2>1. /\ e \in Sites!Registrations /\ Sites!Go(h, "register")
        /\ UNCHANGED <<s1, s2, s4, s5, s6, s9, s12, s13, s14>>
    BY <1>4, <1>b DEF Sites!GenerateCandidates, Sites!Between, Sites!project_vars, Sites!history_vars
  <2>2. PICK S \in SUBSET (s5[e] \ Sites!Open(e)) :
            Sites!Hold(h, [s11[h] EXCEPT !.left = S])
    BY <1>4 DEF Sites!GenerateCandidates
  <2>3. S \subseteq Tasks
    BY <1>a, <2>1, <2>2
  <2>4. [s11[h] EXCEPT !.left = S] \in Working
    BY <1>a, <2>3 DEF Working
  <2>5. [s11[h] EXCEPT !.left = S].at = e
    BY <1>a DEF Working, Sites!At
  <2>6. "register" \in Sites!Places /\ "register" \notin Sites!UnderLock
    BY DEF Sites!Places, Sites!Between, Sites!UnderLock
  <2>7. /\ s10' \in [Threads -> Sites!Places] /\ s10'[h] = "register"
        /\ \A k \in Threads \ {h} : s10'[k] = s10[k]
    BY <1>a, <2>1, <2>6, GoFacts
  <2>8. /\ s11' \in [Threads -> Working] /\ s11'[h].at = e
        /\ \A k \in Threads \ {h} : s11'[k] = s11[k]
    BY <1>a, <2>2, <2>4, <2>5, HoldFacts
  <2>9. Alone(h)'
    BY <2>1, <2>6, <2>7, <2>8 DEF Alone, Sites!At, Sites!UnderLock
  <2> QED
    BY <1>a, <2>1, <2>7, <2>8, <2>9, Untouched, StepKeeps
<1>5. CASE Sites!RegisterCandidates(h)
  <2> DEFINE new == {t \in s11[h].left : s6[e][t] = "none"}
  <2>1. /\ e \in Sites!Registrations /\ s9[e] = Sites!Nobody
        /\ Sites!Becomes(h, new, "candidate") /\ Sites!Hold(h, Sites!Nothing) /\ Sites!Go(h, "dispatch")
        /\ UNCHANGED <<s1, s2, s4, s5, s9, s12, s13, s14>>
    BY <1>5, <1>b DEF Sites!RegisterCandidates, Sites!Free, Sites!Between, Sites!history_vars
  <2>3. "dispatch" \in Sites!Places /\ "dispatch" \notin Sites!UnderLock /\ "candidate" \in Sites!Statuses
    BY DEF Sites!Places, Sites!Between, Sites!UnderLock, Sites!Statuses
  <2>4. /\ s10' \in [Threads -> Sites!Places] /\ s10'[h] = "dispatch"
        /\ \A k \in Threads \ {h} : s10'[k] = s10[k]
    BY <1>a, <2>1, <2>3, GoFacts
  <2>5. /\ s11' \in [Threads -> Working]
        /\ \A k \in Threads \ {h} : s11'[k] = s11[k]
    BY <1>a, <2>1, NothingHeld, HoldFacts
  <2>6. /\ s6' \in [Sites!Registrations -> [Tasks -> Sites!Statuses]]
        /\ \A x \in Sites!Registrations : x # e => s6'[x] = s6[x]
        /\ \A t \in Tasks : s6'[e][t] = IF t \in new THEN "candidate" ELSE s6[e][t]
    BY <1>a, <2>1, <2>3, BecomesFacts
  <2>7. Sites!ClosedStaysClosed'
    BY <1>a, <2>1, <2>6, OpenTasksChange
  <2>8. Alone(h)'
    BY <2>4 DEF Alone, Sites!Between, Sites!UnderLock
  <2> QED
    BY <1>a, <2>1, <2>4, <2>5, <2>6, <2>7, <2>8, StepKeeps
<1>6. CASE Sites!StartDispatch(h)
  <2> DEFINE left == (Sites!Candidates(e) \cap s7[e]) \ SiteApprovals
             what == [s11[h] EXCEPT !.left = left]
  <2>1. /\ e \in Sites!Registrations /\ s9[e] = Sites!Nobody
        /\ s9' = [s9 EXCEPT ![e] = h] /\ Sites!Hold(h, what)
        /\ UNCHANGED <<s1, s2, s4, s5, s12, s13, s14>>
    BY <1>6, <1>b DEF Sites!StartDispatch, Sites!Lock, Sites!Free, Sites!Between, Sites!history_vars
  <2>2. PICK unapproved \in SUBSET {t \in SiteApprovals : s6[e][t] = "candidate"} :
            Sites!Becomes(h, unapproved, "awaiting_approval")
    BY <1>6 DEF Sites!StartDispatch
  <2>3. PICK place \in {"dispatching", "dispatch_emits"} : Sites!Go(h, place)
    BY <1>6 DEF Sites!StartDispatch
  <2>4. place \in Sites!Places /\ "awaiting_approval" \in Sites!Statuses
    BY <2>3 DEF Sites!Places, Sites!Between, Sites!UnderLock, Sites!Statuses
  <2>5. what \in Working /\ what.at = e /\ what.left = left
    BY <1>a DEF Working, Sites!At, Sites!Candidates
  <2>6. /\ s10' \in [Threads -> Sites!Places] /\ s10'[h] = place
        /\ \A k \in Threads \ {h} : s10'[k] = s10[k]
    BY <1>a, <2>3, <2>4, GoFacts
  <2>7. /\ s11' \in [Threads -> Working] /\ s11'[h] = what
        /\ \A k \in Threads \ {h} : s11'[k] = s11[k]
    BY <1>a, <2>1, <2>5, HoldFacts
  <2>8. /\ s6' \in [Sites!Registrations -> [Tasks -> Sites!Statuses]]
        /\ \A x \in Sites!Registrations : x # e => s6'[x] = s6[x]
        /\ \A t \in Tasks : s6'[e][t] = IF t \in unapproved THEN "awaiting_approval" ELSE s6[e][t]
    BY <1>a, <2>1, <2>2, <2>4, BecomesFacts
  <2>9. /\ s9' \in [Sites!Registrations -> Threads \cup {Sites!Nobody}] /\ s9'[e] = h
        /\ \A x \in Sites!Registrations : s9[x] # Sites!Nobody => s9'[x] = s9[x]
    BY <1>a, <2>1
  <2>10. Sites!ClosedStaysClosed'
    BY <1>a, <2>1, <2>2, <2>8, OpenTasksChange
  <2>11. left \subseteq {t \in Tasks : s6'[e][t] \in {"candidate", "awaiting_approval"}}
    BY <2>2, <2>8 DEF Sites!Candidates
  <2> HIDE DEF left, what
  <2>12. Alone(h)'
    BY <2>1, <2>5, <2>6, <2>7, <2>9, <2>11 DEF Alone, Sites!At, Sites!Candidates
  <2> QED
    BY <1>a, <2>1, <2>6, <2>7, <2>8, <2>9, <2>10, <2>12, StepKeeps
<1>7. CASE Sites!DispatchEmits(h)
  <2>1. /\ s10[h] = "dispatch_emits" /\ Sites!Go(h, "dispatching")
        /\ UNCHANGED <<s1, s2, s4, s5, s6, s9, s11, s12, s13, s14>>
    BY <1>7 DEF Sites!DispatchEmits, Sites!project_vars, Sites!history_vars
  <2>2. /\ "dispatching" \in Sites!Places /\ "dispatch_emits" \in Sites!UnderLock
        /\ "dispatching" \in Sites!UnderLock
    BY DEF Sites!Places, Sites!Between, Sites!UnderLock
  <2>3. /\ s10' \in [Threads -> Sites!Places] /\ s10'[h] = "dispatching"
        /\ \A k \in Threads \ {h} : s10'[k] = s10[k]
    BY <1>a, <2>1, <2>2, GoFacts
  <2>4. Alone(h)'
    BY <1>a, <2>1, <2>2, <2>3 DEF Alone, Sites!At, Sites!Candidates, Sites!Between
  <2> QED
    BY <1>a, <2>1, <2>3, <2>4, Untouched, StepKeeps
<1>8. CASE Sites!EndDispatch(h)
  <2>1. /\ s10[h] \in Sites!UnderLock /\ Sites!Leave(h) /\ s9' = [s9 EXCEPT ![e] = Sites!Nobody]
        /\ UNCHANGED <<s1, s2, s4, s5, s6, s12, s13, s14>>
    BY <1>8 DEF Sites!EndDispatch, Sites!Unlock, Sites!UnderLock, Sites!project_vars, Sites!history_vars
  <2>2. e \in Sites!Registrations /\ s9[e] = h
    BY <1>b, <1>c, <2>1 DEF Sites!UnderLock, Sites!Between
  <2>3. /\ s9' \in [Sites!Registrations -> Threads \cup {Sites!Nobody}]
        /\ \A x \in Sites!Registrations : s9[x] # h => s9'[x] = s9[x]
    BY <1>a, <2>1, <2>2
  <2>4. /\ s10' \in [Threads -> Sites!Places] /\ s11' \in [Threads -> Working]
        /\ s10'[h] = "idle"
        /\ \A k \in Threads \ {h} : s10'[k] = s10[k] /\ s11'[k] = s11[k]
    BY <1>a, <2>1, LeaveFacts
  <2>5. Alone(h)'
    BY <2>4 DEF Alone, Sites!UnderLock, Sites!Between
  <2> QED
    BY <1>a, <2>1, <2>3, <2>4, <2>5, Untouched, StepKeeps
<1>9. CASE \E t \in Tasks : Sites!Defer(h, t)
  <2>1. PICK t \in Tasks : Sites!Defer(h, t)
    BY <1>9
  <2>2. /\ s10[h] = "dispatching" /\ Sites!Go(h, "dispatch_emits") /\ Sites!Hold(h, Sites!Without(h, t))
        /\ UNCHANGED <<s1, s2, s4, s5, s6, s9, s12, s13, s14>>
    BY <2>1 DEF Sites!Defer, Sites!project_vars, Sites!history_vars
  <2>3. /\ "dispatch_emits" \in Sites!Places /\ "dispatch_emits" \in Sites!UnderLock
        /\ "dispatching" \in Sites!UnderLock
    BY DEF Sites!Places, Sites!Between, Sites!UnderLock
  <2>4. /\ s10' \in [Threads -> Sites!Places] /\ s10'[h] = "dispatch_emits"
        /\ \A k \in Threads \ {h} : s10'[k] = s10[k]
    BY <1>a, <2>2, <2>3, GoFacts
  <2>5. /\ Sites!Without(h, t) \in Working /\ Sites!Without(h, t).at = e
        /\ Sites!Without(h, t).left \subseteq s11[h].left
    BY <1>a DEF Sites!Without, Working, Sites!At
  <2>6. /\ s11' \in [Threads -> Working] /\ s11'[h] = Sites!Without(h, t)
        /\ \A k \in Threads \ {h} : s11'[k] = s11[k]
    BY <1>a, <2>2, <2>5, HoldFacts
  <2>7. Alone(h)'
    BY <1>a, <2>2, <2>3, <2>4, <2>5, <2>6 DEF Alone, Sites!At, Sites!Candidates, Sites!Between
  <2> QED
    BY <1>a, <2>2, <2>4, <2>6, <2>7, Untouched, StepKeeps
<1>10. CASE \E t \in Tasks : Sites!Dispatch(h, t)
  <2>1. PICK t \in Tasks : Sites!Dispatch(h, t)
    BY <1>10
  <2> DEFINE what == [Sites!Without(h, t) EXCEPT !.spent = @ + Cost[t], !.count = @ + 1]
  <2>2. /\ s10[h] = "dispatching" /\ Sites!Go(h, "dispatch_emits") /\ Sites!Hold(h, what)
        /\ t \in s11[h].left /\ Sites!Becomes(h, {t}, "submitted")
        /\ UNCHANGED <<s1, s2, s4, s5, s9, s13>>
    BY <2>1 DEF Sites!Dispatch, Sites!Submits
  <2>3. /\ "dispatch_emits" \in Sites!Places /\ "dispatch_emits" \in Sites!UnderLock
        /\ "dispatching" \in Sites!UnderLock /\ "submitted" \in Sites!Statuses
    BY DEF Sites!Places, Sites!Between, Sites!UnderLock, Sites!Statuses
  <2>4. e \in Sites!Registrations /\ s9[e] = h /\ s11[h].left \subseteq Sites!Candidates(e)
    BY <1>a, <1>b, <1>c, <2>2, <2>3 DEF Alone, Sites!Between
  <2>5. /\ s10' \in [Threads -> Sites!Places] /\ s10'[h] = "dispatch_emits"
        /\ \A k \in Threads \ {h} : s10'[k] = s10[k]
    BY <1>a, <2>2, <2>3, GoFacts
  <2>6. what \in Working /\ what.at = e /\ what.left = s11[h].left \ {t}
    <3>1. /\ Sites!Without(h, t) \in Working /\ Sites!Without(h, t).at = e
          /\ Sites!Without(h, t).left = s11[h].left \ {t}
      BY <1>a DEF Sites!Without, Working, Sites!At
    <3>2. Cost[t] \in Int
      BY SitesAssumption
    <3> QED
      BY <3>1, <3>2, ChargedFacts
  <2> HIDE DEF what
  <2>7. /\ s11' \in [Threads -> Working] /\ s11'[h] = what
        /\ \A k \in Threads \ {h} : s11'[k] = s11[k]
    BY <1>a, <2>2, <2>6, HoldFacts
  <2>8. /\ s6' \in [Sites!Registrations -> [Tasks -> Sites!Statuses]]
        /\ \A x \in Sites!Registrations : x # e => s6'[x] = s6[x]
        /\ \A u \in Tasks : s6'[e][u] = IF u = t THEN "submitted" ELSE s6[e][u]
    BY <1>a, <2>2, <2>3, <2>4, BecomesFacts
  <2>9. Submitted(e, t)
    BY <2>1, Zenon DEF Sites!Dispatch, Sites!Submits, Submitted
  <2>10. Sites!ClosedStaysClosed' /\ s12' \in [Sites!Registrations -> [Tasks -> Nat]] /\ s14' = s14
    <3>1. t \in Sites!Candidates(e)
      BY <2>2, <2>4
    <3>2. "submitted" \in {"submitted", "blocked"}
      OBVIOUS
    <3>3. Sites!SitesTypeOK /\ Sites!ClosedStaysClosed /\ e \in Sites!Registrations /\ s13' = s13
      BY <1>a, <2>2, <2>4
    <3> HIDE DEF e
    <3> QED
      BY <2>8, <2>9, <3>1, <3>2, <3>3, SubmissionCloses
  <2>11. Alone(h)'
    BY <2>2, <2>3, <2>4, <2>5, <2>6, <2>7, <2>8 DEF Alone, Sites!At, Sites!Candidates
  <2> QED
    BY <1>a, <2>2, <2>4, <2>5, <2>7, <2>8, <2>10, <2>11, StepKeeps
<1>11. CASE \E t \in Tasks : Sites!DispatchFails(h, t)
  <2>1. PICK t \in Tasks : Sites!DispatchFails(h, t)
    BY <1>11
  <2>2. /\ s10[h] = "dispatching" /\ Sites!Hold(h, Sites!Without(h, t))
        /\ t \in s11[h].left /\ Sites!Becomes(h, {t}, "blocked")
        /\ UNCHANGED <<s1, s2, s4, s5, s9, s10>> /\ s13' = s13
    BY <2>1 DEF Sites!DispatchFails, Sites!StatusAfterFailure, Sites!Submits, Sites!history_vars
  <2>3. "dispatching" \in Sites!UnderLock /\ "blocked" \in Sites!Statuses
    BY DEF Sites!UnderLock, Sites!Statuses
  <2>4. e \in Sites!Registrations /\ s9[e] = h /\ s11[h].left \subseteq Sites!Candidates(e)
    BY <1>a, <1>b, <1>c, <2>2, <2>3 DEF Alone, Sites!Between
  <2>5. /\ Sites!Without(h, t) \in Working /\ Sites!Without(h, t).at = e
        /\ Sites!Without(h, t).left = s11[h].left \ {t}
    BY <1>a DEF Sites!Without, Working, Sites!At
  <2>6. /\ s11' \in [Threads -> Working] /\ s11'[h] = Sites!Without(h, t)
        /\ \A k \in Threads \ {h} : s11'[k] = s11[k]
    BY <1>a, <2>2, <2>5, HoldFacts
  <2>7. /\ s6' \in [Sites!Registrations -> [Tasks -> Sites!Statuses]]
        /\ \A x \in Sites!Registrations : x # e => s6'[x] = s6[x]
        /\ \A u \in Tasks : s6'[e][u] = IF u = t THEN "blocked" ELSE s6[e][u]
    BY <1>a, <2>2, <2>3, <2>4, BecomesFacts
  <2>8. Submitted(e, t) \/ UNCHANGED <<s12, s14>>
    BY <2>1, Zenon DEF Sites!DispatchFails, Sites!Submits, Submitted, Sites!history_vars
  <2>9. Sites!ClosedStaysClosed' /\ s12' \in [Sites!Registrations -> [Tasks -> Nat]] /\ s14' = s14
    <3>1. CASE Submitted(e, t)
      <4>1. t \in Sites!Candidates(e)
        BY <2>2, <2>4
      <4>2. "blocked" \in {"submitted", "blocked"}
        OBVIOUS
      <4> QED
        BY <1>a, <2>2, <2>4, <2>7, <3>1, <4>1, <4>2, SubmissionCloses
    <3>2. CASE UNCHANGED <<s12, s14>>
      BY <1>a, <2>2, <2>4, <2>7, <3>2, OpenTasksChange DEF Sites!Candidates
    <3> QED
      BY <2>8, <3>1, <3>2
  <2>10. Alone(h)'
    BY <2>2, <2>3, <2>4, <2>5, <2>6, <2>7 DEF Alone, Sites!At, Sites!Candidates
  <2> QED
    BY <1>a, <2>2, <2>4, <2>6, <2>7, <2>9, <2>10, StepKeeps
<1>12. CASE \E t \in Tasks, decision \in {"approve", "reject"} : Sites!Decide(h, t, decision)
  <2>1. PICK t \in Tasks, decision \in {"approve", "reject"} : Sites!Decide(h, t, decision)
    BY <1>12
  <2> DEFINE what == [Sites!Nothing EXCEPT !.at = s1, !.subject = {t}]
  <2>2. /\ s1 # 0 /\ Sites!Go(h, decision) /\ Sites!Hold(h, what)
        /\ UNCHANGED <<s1, s2, s4, s5, s6, s9, s12, s13, s14>>
    BY <2>1 DEF Sites!Decide, Sites!project_vars, Sites!history_vars
  <2>3. decision \in Sites!Places /\ decision \notin Sites!UnderLock
    BY DEF Sites!Places, Sites!Between, Sites!UnderLock
  <2>4. s1 \in Sites!Registrations
    BY <1>a, <2>2 DEF Sites!SitesTypeOK
  <2>5. what \in Working /\ what.at = s1
    BY <2>4, NothingHeld DEF Working
  <2>6. /\ s10' \in [Threads -> Sites!Places] /\ s10'[h] = decision
        /\ \A k \in Threads \ {h} : s10'[k] = s10[k]
    BY <1>a, <2>2, <2>3, GoFacts
  <2>7. /\ s11' \in [Threads -> Working] /\ s11'[h] = what
        /\ \A k \in Threads \ {h} : s11'[k] = s11[k]
    BY <1>a, <2>2, <2>5, HoldFacts
  <2> HIDE DEF what
  <2>8. Alone(h)'
    BY <2>3, <2>4, <2>5, <2>6, <2>7 DEF Alone, Sites!At, Sites!UnderLock
  <2> QED
    BY <1>a, <2>2, <2>6, <2>7, <2>8, Untouched, StepKeeps
<1>13. CASE Sites!FindTask(h)
  <2>1. UNCHANGED <<s1, s2, s4, s5, s6, s9, s12, s13, s14>>
    BY <1>13 DEF Sites!FindTask, Sites!project_vars, Sites!history_vars
  <2>2. CASE Sites!Leave(h)
    <3>1. /\ s10' \in [Threads -> Sites!Places] /\ s11' \in [Threads -> Working]
          /\ s10'[h] = "idle"
          /\ \A k \in Threads \ {h} : s10'[k] = s10[k] /\ s11'[k] = s11[k]
      BY <1>a, <2>2, LeaveFacts
    <3>2. Alone(h)'
      BY <3>1 DEF Alone, Sites!UnderLock, Sites!Between
    <3> QED
      BY <1>a, <2>1, <3>1, <3>2, Untouched, StepKeeps
  <2>3. CASE UNCHANGED <<s10, s11>>
    <3>1. Alone(h)'
      BY <1>a, <2>1, <2>3 DEF Alone, Sites!At, Sites!Candidates
    <3> QED
      BY <1>a, <2>1, <2>3, <3>1, Untouched, StepKeeps
  <2> QED
    BY <1>13, <2>2, <2>3 DEF Sites!FindTask
<1>14. CASE Sites!ApproveTask(h)
  <2> DEFINE S == {t \in s11[h].subject : s6[e][t] = "awaiting_approval"}
  <2>1. /\ e \in Sites!Registrations /\ s9[e] = Sites!Nobody
        /\ Sites!Becomes(h, S, "candidate") /\ Sites!Leave(h)
        /\ UNCHANGED <<s1, s2, s4, s5, s9, s12, s13, s14>>
    BY <1>14, <1>b DEF Sites!ApproveTask, Sites!Free, Sites!Between, Sites!history_vars
  <2>2. /\ s6' \in [Sites!Registrations -> [Tasks -> Sites!Statuses]]
        /\ \A x \in Sites!Registrations : x # e => s6'[x] = s6[x]
        /\ \A t \in Tasks : s6'[e][t] = IF t \in S THEN "candidate" ELSE s6[e][t]
    BY <1>a, <2>1, BecomesFacts DEF Sites!Statuses
  <2>3. /\ s10' \in [Threads -> Sites!Places] /\ s11' \in [Threads -> Working]
        /\ s10'[h] = "idle"
        /\ \A k \in Threads \ {h} : s10'[k] = s10[k] /\ s11'[k] = s11[k]
    BY <1>a, <2>1, LeaveFacts
  <2>4. Sites!ClosedStaysClosed'
    BY <1>a, <2>1, <2>2, OpenTasksChange
  <2>5. Alone(h)'
    BY <2>3 DEF Alone, Sites!UnderLock, Sites!Between
  <2> QED
    BY <1>a, <2>1, <2>2, <2>3, <2>4, <2>5, StepKeeps
<1>15. CASE Sites!RejectTask(h)
  <2>1. /\ e \in Sites!Registrations /\ s9[e] = Sites!Nobody
        /\ Sites!Becomes(h, s11[h].subject, "cancelled") /\ Sites!Leave(h)
        /\ s13' = s13 \cup {<<e, t>> : t \in s11[h].subject}
        /\ UNCHANGED <<s1, s2, s4, s5, s9, s12, s14>>
    BY <1>15, <1>b DEF Sites!RejectTask, Sites!Free, Sites!Between
  <2>2. /\ s6' \in [Sites!Registrations -> [Tasks -> Sites!Statuses]]
        /\ \A x \in Sites!Registrations : x # e => s6'[x] = s6[x]
        /\ \A t \in Tasks : s6'[e][t] = IF t \in s11[h].subject THEN "cancelled" ELSE s6[e][t]
    BY <1>a, <2>1, BecomesFacts DEF Sites!Statuses
  <2>3. /\ s10' \in [Threads -> Sites!Places] /\ s11' \in [Threads -> Working]
        /\ s10'[h] = "idle"
        /\ \A k \in Threads \ {h} : s10'[k] = s10[k] /\ s11'[k] = s11[k]
    BY <1>a, <2>1, LeaveFacts
  <2>4. Sites!ClosedStaysClosed'
    <3> SUFFICES ASSUME NEW x \in Sites!Registrations, NEW u \in Tasks
                 PROVE  /\ s12[x][u] > 0 => /\ s12[x][u] = 1
                                            /\ s6'[x][u] \notin {"candidate", "awaiting_approval"}
                                            /\ s6'[x][u] # "none"
                        /\ <<x, u>> \in s13' => s6'[x][u] = "cancelled"
      BY <2>1 DEF Sites!ClosedStaysClosed, Sites!Candidates
    <3>1. /\ s12[x][u] > 0 => /\ s12[x][u] = 1
                              /\ s6[x][u] \notin {"candidate", "awaiting_approval"}
                              /\ s6[x][u] # "none"
          /\ <<x, u>> \in s13 => s6[x][u] = "cancelled"
      BY <1>a DEF Sites!ClosedStaysClosed, Sites!Candidates
    <3>2. <<x, u>> \in s13' => <<x, u>> \in s13 \/ (x = e /\ u \in s11[h].subject)
      BY <2>1
    <3>3. s6'[x][u] = IF x = e /\ u \in s11[h].subject THEN "cancelled" ELSE s6[x][u]
      BY <2>2
    <3> QED
      BY <3>1, <3>2, <3>3
  <2>5. Alone(h)'
    BY <2>3 DEF Alone, Sites!UnderLock, Sites!Between
  <2> QED
    BY <1>a, <2>1, <2>2, <2>3, <2>4, <2>5, StepKeeps
<1> QED
  BY <1>1, <1>2, <1>3, <1>4, <1>5, <1>6, <1>7, <1>8, <1>9, <1>10, <1>11, <1>12, <1>13, <1>14, <1>15, <1>16
  DEF Sites!Step

(* Registering, unregistering and observing leave the tasks alone.           *)
LEMMA SitesKeep ==
    ASSUME Sites!Dispatched, Sites!Next \/ UNCHANGED Sites!vars
    PROVE  Sites!Dispatched'
<1>1. ASSUME UNCHANGED <<s5, s6, s9, s10, s11, s12, s13, s14>>,
             s1' \in Sites!Registrations \cup {0}, s2' \in 0 .. MaxRegistrations,
             s4' \in [Sites!Registrations -> SUBSET Tasks]
      PROVE  Sites!Dispatched'
  <2>1. Sites!SitesTypeOK'
    BY <1>1 DEF Sites!Dispatched, Sites!SitesTypeOK
  <2>2. Sites!DispatchesAlone'
    BY <1>1 DEF Sites!Dispatched, Sites!DispatchesAlone, Sites!At, Sites!Candidates
  <2>3. Sites!ClosedStaysClosed'
    BY <1>1, Untouched DEF Sites!Dispatched
  <2> QED
    BY <1>1, <2>1, <2>2, <2>3 DEF Sites!Dispatched
<1>2. /\ s1 \in Sites!Registrations \cup {0} /\ s2 \in 0 .. MaxRegistrations
      /\ s4 \in [Sites!Registrations -> SUBSET Tasks]
  BY DEF Sites!Dispatched, Sites!SitesTypeOK
<1>3. CASE \E h \in Threads : Sites!Step(h)
  BY <1>3, SitesStep
<1>4. CASE \E auto \in BOOLEAN : Sites!RegisterProject(auto)
  <2>1. UNCHANGED <<s4, s5, s6, s9, s10, s11, s12, s13, s14>>
    BY <1>4 DEF Sites!RegisterProject, Sites!history_vars
  <2>2. \/ UNCHANGED <<s1, s2>>
        \/ s2 < MaxRegistrations /\ s2' = s2 + 1 /\ s1' = s2 + 1
    BY <1>4 DEF Sites!RegisterProject
  <2>3. s1' \in Sites!Registrations \cup {0} /\ s2' \in 0 .. MaxRegistrations
    BY <1>2, <2>2, SitesAssumption DEF Sites!Registrations
  <2> QED
    BY <1>1, <1>2, <2>1, <2>3
<1>5. CASE Sites!UnregisterProject
  BY <1>1, <1>2, <1>5 DEF Sites!UnregisterProject, Sites!project_vars, Sites!history_vars
<1>6. CASE \E e \in 1 .. s2, t \in Tasks : Sites!IngestObservation(e, t)
  <2>1. PICK e \in 1 .. s2, t \in Tasks : s4' = [s4 EXCEPT ![e] = @ \cup {t}]
    BY <1>6 DEF Sites!IngestObservation
  <2>2. UNCHANGED <<s1, s2, s5, s6, s9, s10, s11, s12, s13, s14>>
    BY <1>6 DEF Sites!IngestObservation, Sites!history_vars
  <2>3. s4' \in [Sites!Registrations -> SUBSET Tasks]
    BY <1>2, <2>1
  <2> QED
    BY <1>1, <1>2, <2>2, <2>3
<1>7. CASE UNCHANGED Sites!vars
  BY <1>1, <1>2, <1>7 DEF Sites!vars, Sites!project_vars, Sites!history_vars
<1> QED
  BY <1>3, <1>4, <1>5, <1>6, <1>7 DEF Sites!Next

(* For any threads, tasks, costs and limits: of one registration of its      *)
(* project a task is submitted to the supervisor at most once, also when the *)
(* answer was lost and when cycles go on over registrations, and never after *)
(* its rejection.  A later registration may submit it again.                 *)
THEOREM TasksAreSubmittedOnce == AnySpec => []SubmittedOnce
<1> DEFINE Inv == component = "sites" => Sites!Dispatched
<1>1. AnyInit => Inv
  BY SitesBegin DEF AnyInit
<1>2. Inv /\ [AnyNext]_AnyVars => Inv'
  BY Selected, SitesKeep
<1>3. Inv => SubmittedOnce
  <2> SUFFICES ASSUME Sites!Dispatched
               PROVE  Sites!SubmittedOnce
    BY DEF SubmittedOnce
  <2>1. ASSUME NEW e \in Sites!Registrations, NEW t \in Tasks
        PROVE  s12[e][t] <= 1
    <3>1. s12[e][t] \in Nat
      BY DEF Sites!Dispatched, Sites!SitesTypeOK
    <3>2. s12[e][t] > 0 => s12[e][t] = 1
      BY DEF Sites!Dispatched, Sites!ClosedStaysClosed
    <3> QED
      BY <3>1, <3>2
  <2> QED
    BY <2>1 DEF Sites!SubmittedOnce, Sites!Dispatched
<1> QED
  BY <1>1, <1>2, <1>3, PTL DEF AnySpec, AnyVars

-----------------------------------------------------------------------------
(* The life of a technology                                                  *)

LEMMA TechnologyBegins ==
    ASSUME Technology!Init
    PROVE  Technology!ReplacedSoundly
<1> USE DEF Technology!Init
<1>1. Technology!Unknown \in Technology!Record /\ Technology!Idle \in Technology!Calls
  BY DEF Technology!Unknown, Technology!Record, Technology!Idle, Technology!Calls, Technology!NoVersion
<1>2. Technology!TechnologyTypeOK
  BY <1>1 DEF Technology!TechnologyTypeOK
<1>3. Technology!Sound(Technology!Unknown)
  BY DEF Technology!Sound, Technology!Unknown
<1>4. Technology!Idle.call # "reconcile"
  BY DEF Technology!Idle
<1> QED
  BY <1>2, <1>3, <1>4 DEF Technology!ReplacedSoundly, Technology!Sound

(* A record is sound whatever more was merged.                               *)
LEMMA MoreBuilt ==
    ASSUME s6 \subseteq s6'
    PROVE  Technology!Built \subseteq Technology!Built'
  BY DEF Technology!Built

(* A step of one process that keeps its record sound, and to its call what   *)
(* it may adopt.                                                             *)
LEMMA ProcessKeeps ==
    ASSUME Technology!ReplacedSoundly, NEW p \in Technology!Processes, UNCHANGED <<s5, s6>>,
           NEW f \in Technology!Record, Technology!Sound(f), s1' = f,
           NEW r \in Technology!Record, Technology!Sound(r), s2' = [s2 EXCEPT ![p] = r],
           NEW d \in Technology!Calls, s3' = [s3 EXCEPT ![p] = d],
           d.call = "reconcile" => d.adopt \subseteq Technology!Built
    PROVE  Technology!ReplacedSoundly'
<1>1. /\ s2 \in [Technology!Processes -> Technology!Record]
      /\ s3 \in [Technology!Processes -> Technology!Calls]
  BY DEF Technology!ReplacedSoundly, Technology!TechnologyTypeOK
<1>2. Technology!TechnologyTypeOK'
  BY <1>1 DEF Technology!ReplacedSoundly, Technology!TechnologyTypeOK
<1>3. Technology!Built' = Technology!Built
  BY DEF Technology!Built
<1>4. Technology!Sound(s1)'
  BY <1>3 DEF Technology!Sound
<1>5. ASSUME NEW q \in Technology!Processes
      PROVE  Technology!Sound(s2[q])'
  BY <1>1, <1>3 DEF Technology!Sound, Technology!ReplacedSoundly
<1>6. ASSUME NEW q \in Technology!Processes, s3'[q].call = "reconcile"
      PROVE  s3'[q].adopt \subseteq Technology!Built
  BY <1>1, <1>6 DEF Technology!ReplacedSoundly
<1> QED
  BY <1>2, <1>3, <1>4, <1>5, <1>6 DEF Technology!ReplacedSoundly

(* Update() keeps the file as it was or makes it the record.                 *)
LEMMA UpdateKeeps ==
    ASSUME Technology!ReplacedSoundly, NEW p \in Technology!Processes, UNCHANGED <<s5, s6>>,
           NEW r \in Technology!Record, Technology!Sound(r),
           NEW d \in Technology!Calls, d.call = "reconcile" => d.adopt \subseteq Technology!Built,
           Technology!Update(p, r, d)
    PROVE  Technology!ReplacedSoundly'
<1>1. Technology!Idle \in Technology!Calls /\ Technology!Idle.call # "reconcile"
  BY DEF Technology!Idle, Technology!Calls
<1>2. s1 \in Technology!Record /\ Technology!Sound(s1)
  BY DEF Technology!ReplacedSoundly, Technology!TechnologyTypeOK
<1>3. s2' = [s2 EXCEPT ![p] = r]
  BY DEF Technology!Update
<1>4. CASE s1' = r /\ s3' = [s3 EXCEPT ![p] = d]
  BY <1>3, <1>4, ProcessKeeps
<1>5. CASE s1' = s1 /\ s3' = [s3 EXCEPT ![p] = Technology!Idle]
  BY <1>1, <1>2, <1>3, <1>5, ProcessKeeps
<1> QED
  BY <1>4, <1>5 DEF Technology!Update, Technology!Begin

(* A process begins a call, or ends one, with its record as it was.          *)
LEMMA BeginKeeps ==
    ASSUME Technology!ReplacedSoundly, NEW p \in Technology!Processes,
           UNCHANGED <<s1, s2, s5, s6>>,
           NEW d \in Technology!Calls, d.call = "reconcile" => d.adopt \subseteq Technology!Built,
           Technology!Begin(p, d)
    PROVE  Technology!ReplacedSoundly'
<1>1. /\ s1 \in Technology!Record /\ Technology!Sound(s1)
      /\ s2[p] \in Technology!Record /\ Technology!Sound(s2[p])
      /\ s2 = [s2 EXCEPT ![p] = s2[p]]
  BY DEF Technology!ReplacedSoundly, Technology!TechnologyTypeOK
<1> QED
  BY <1>1, ProcessKeeps DEF Technology!Begin

(* The capabilities of a plan's missions that came out in one way.           *)
LEMMA CapableFacts ==
    ASSUME NEW plan \in SUBSET Technology!Replacements, NEW verdict
    PROVE  Technology!Capable(plan, verdict) \subseteq Capabilities
<1>1. \A n \in plan : n[2] \in Capabilities
  BY DEF Technology!Replacements, Technology!Replacement
<1> QED
  BY <1>1 DEF Technology!Capable

(* A capability with a successful mission in a plan was built.               *)
LEMMA SuccessfulAreBuilt ==
    ASSUME Technology!ReplacedSoundly, NEW plan \in SUBSET Technology!Replacements
    PROVE  Technology!Capable(plan, "successful") \subseteq Technology!Built
<1> SUFFICES ASSUME NEW n \in plan, Technology!Verdict(n) = "successful"
             PROVE  n[2] \in Technology!Built
  BY DEF Technology!Capable
<1>1. PICK c \in Capabilities, s \in Reasons : n = Technology!Replacement(c, s)
  BY DEF Technology!Replacements
<1>2. n \in Technology!LifecycleMissions
  BY <1>1 DEF Technology!LifecycleMissions
<1>3. s5[n] = "merged"
  BY DEF Technology!Verdict
<1>4. n \in s6
  BY <1>2, <1>3 DEF Technology!ReplacedSoundly
<1> QED
  BY <1>1, <1>4 DEF Technology!Built, Technology!Replacement

(* Steps of a process with the lifecycle hook.                               *)
LEMMA WorkerStepKeeps ==
    ASSUME Technology!ReplacedSoundly, NEW p \in Workers, Technology!WorkerStep(p)
    PROVE  Technology!ReplacedSoundly'
<1>a. p \in Technology!Processes
  BY DEF Technology!Processes
<1>b. /\ s2[p] \in Technology!Record /\ s3[p] \in Technology!Calls
      /\ Technology!Sound(s2[p])
      /\ s3[p].call = "reconcile" => s3[p].adopt \subseteq Technology!Built
  BY <1>a DEF Technology!ReplacedSoundly, Technology!TechnologyTypeOK
<1>c. Technology!Idle \in Technology!Calls /\ Technology!Idle.call = "none"
  BY DEF Technology!Idle, Technology!Calls
<1>1. ASSUME NEW v \in Versions, NEW artifact \in Technology!Artifacts(v),
             Technology!ReconcileEvaluation(p, v, artifact)
      PROVE  Technology!ReplacedSoundly'
  <2> DEFINE m == Technology!Evaluation(v)
             w == artifact.recommendation
             r == Technology!Evaluated(s2[p], m, w)
  <2>1. m \in Technology!LifecycleMissions /\ w \in Technology!Recommendations
    BY <1>1 DEF Technology!LifecycleMissions, Technology!ReconcileEvaluation, Technology!Identified
  <2>2. <<m, w>> \in Technology!LifecycleMissions \X Technology!Recommendations
    BY <2>1
  <2> HIDE DEF m, w
  <2>3. r \in Technology!Record
    BY <1>b, <2>2 DEF Technology!Evaluated, Technology!Record
  <2>4. Technology!Sound(r)
    BY <1>b DEF Technology!Sound, Technology!Evaluated, Technology!Record
  <2>5. Technology!Update(p, r, Technology!Idle) /\ UNCHANGED <<s5, s6>>
    BY <1>1 DEF Technology!ReconcileEvaluation, m, w
  <2> HIDE DEF r
  <2> QED
    BY <1>a, <1>c, <2>3, <2>4, <2>5, UpdateKeeps
<1>2. CASE Technology!Reconcile(p)
  <2> DEFINE d == [call |-> "reconcile",
                   adopt |-> Technology!Capable(s2[p].plan, "successful") \ s2[p].adopted,
                   open |-> Technology!Capable(s2[p].plan, "pending")
                            \cup Technology!Capable(s2[p].plan, "failed")]
  <2>1. s2[p].plan \in SUBSET Technology!Replacements
    BY <1>b DEF Technology!Record
  <2>2. d \in Technology!Calls
    BY <2>1, CapableFacts DEF Technology!Calls
  <2>3. d.adopt \subseteq Technology!Built
    BY <2>1, SuccessfulAreBuilt
  <2>4. Technology!Begin(p, d) /\ UNCHANGED <<s1, s2, s5, s6>>
    BY <1>2 DEF Technology!Reconcile
  <2> HIDE DEF d
  <2> QED
    BY <1>a, <2>2, <2>3, <2>4, BeginKeeps
<1>3. CASE Technology!Adopt(p)
  <2>1. PICK c \in s3[p].adopt :
            Technology!Update(p, [s2[p] EXCEPT !.adopted = @ \cup {c}, !.assimilation = "native_available"],
                              [s3[p] EXCEPT !.adopt = @ \ {c}])
    BY <1>3 DEF Technology!Adopt
  <2> DEFINE r == [s2[p] EXCEPT !.adopted = @ \cup {c}, !.assimilation = "native_available"]
             d == [s3[p] EXCEPT !.adopt = @ \ {c}]
  <2>2. s3[p] \in [call : {"reconcile"}, adopt : SUBSET Capabilities, open : SUBSET Capabilities]
    BY <1>3, <1>b, <1>c DEF Technology!Adopt, Technology!Calls
  <2>3. c \in Capabilities /\ c \in Technology!Built
    BY <1>b, <2>1, <2>2
  <2>4. r \in Technology!Record
    BY <1>b, <2>3 DEF Technology!Record
  <2>5. Technology!Sound(r)
    BY <1>b, <2>3 DEF Technology!Sound, Technology!Record
  <2>6. d \in Technology!Calls /\ d.adopt \subseteq Technology!Built
    BY <1>b, <2>2 DEF Technology!Calls
  <2>7. Technology!Update(p, r, d) /\ UNCHANGED <<s5, s6>>
    BY <1>3, <2>1 DEF Technology!Adopt
  <2> HIDE DEF r, d
  <2> QED
    BY <1>a, <2>4, <2>5, <2>6, <2>7, UpdateKeeps
<1>4. CASE Technology!Complete(p)
  <2>1. CASE Technology!IsNative(s2[p])
    <3> DEFINE r == [s2[p] EXCEPT !.state = "native_replaced", !.assimilation = "complete", !.since = {}]
    <3>1. r \in Technology!Record
      BY <1>b DEF Technology!Record
    <3>2. Technology!Sound(r)
      BY <1>b, <2>1 DEF Technology!Sound, Technology!Record, Technology!IsNative
    <3>3. [call |-> "diagnose"] \in Technology!Calls
      BY DEF Technology!Calls
    <3>4. Technology!Update(p, r, [call |-> "diagnose"]) /\ UNCHANGED <<s5, s6>>
      BY <1>4, <2>1 DEF Technology!Complete
    <3> HIDE DEF r
    <3> QED
      BY <1>a, <3>1, <3>2, <3>3, <3>4, UpdateKeeps
  <2>2. CASE ~Technology!IsNative(s2[p])
    BY <1>4, <1>a, <1>c, <2>2, BeginKeeps DEF Technology!Complete
  <2> QED
    BY <2>1, <2>2
<1>5. CASE Technology!Diagnose(p)
  BY <1>5, <1>a, <1>b, <1>c, UpdateKeeps DEF Technology!Diagnose
<1> QED
  BY <1>1, <1>2, <1>3, <1>4, <1>5 DEF Technology!WorkerStep

(* Steps of a process that watches and plans.                                *)
LEMMA ToolStepKeeps ==
    ASSUME Technology!ReplacedSoundly, NEW p \in Tools, Technology!ToolStep(p)
    PROVE  Technology!ReplacedSoundly'
<1>a. p \in Technology!Processes
  BY DEF Technology!Processes
<1>b. s2[p] \in Technology!Record /\ s3[p] \in Technology!Calls /\ Technology!Sound(s2[p])
  BY <1>a DEF Technology!ReplacedSoundly, Technology!TechnologyTypeOK
<1>c. Technology!Idle \in Technology!Calls /\ Technology!Idle.call = "none"
  BY DEF Technology!Idle, Technology!Calls
<1>1. ASSUME NEW v \in Versions, NEW seen \in SUBSET Capabilities, Technology!Observe(p, v, seen)
      PROVE  Technology!ReplacedSoundly'
  <2> DEFINE r == Technology!Observed(s2[p], v, seen)
  <2>1. r \in Technology!Record
    BY <1>b DEF Technology!Observed, Technology!Record
  <2>2. /\ r.adopted = s2[p].adopted
        /\ r.state = "native_replaced" => s2[p].state = "native_replaced"
        /\ r.capabilities = s2[p].capabilities \cup seen
        /\ s2[p].state = "native_replaced" => r.since = s2[p].since \cup (seen \ s2[p].capabilities)
    BY <1>b DEF Technology!Observed, Technology!Record
  <2>3. Technology!Update(p, r, Technology!Idle) /\ UNCHANGED <<s5, s6>>
    BY <1>1 DEF Technology!Observe
  <2> HIDE DEF r
  <2>4. Technology!Sound(r)
    BY <1>b, <2>2 DEF Technology!Sound
  <2> QED
    BY <1>a, <1>c, <2>1, <2>3, <2>4, UpdateKeeps
<1>2. CASE Technology!RequestEvaluation(p)
  <2>1. UNCHANGED <<s1, s2, s3, s5, s6>>
    BY <1>2 DEF Technology!RequestEvaluation
  <2>2. Technology!Begin(p, s3[p])
    BY <1>a, <2>1 DEF Technology!Begin, Technology!ReplacedSoundly, Technology!TechnologyTypeOK
  <2>3. s3[p].call = "reconcile" => s3[p].adopt \subseteq Technology!Built
    BY <1>a DEF Technology!ReplacedSoundly
  <2> QED
    BY <1>a, <1>b, <2>1, <2>2, <2>3, BeginKeeps
<1>3. ASSUME NEW wanted \in SUBSET Capabilities, NEW reason \in Reasons,
             Technology!Plan(p, wanted, reason)
      PROVE  Technology!ReplacedSoundly'
  <2> DEFINE M == {Technology!Replacement(c, reason) : c \in wanted}
             r == [s2[p] EXCEPT !.state = "assimilating", !.assimilation = "planned", !.plan = M]
             d == [call |-> "enqueue", missions |-> M]
  <2>1. M \in SUBSET Technology!Replacements
    BY DEF Technology!Replacements
  <2>2. Technology!Update(p, r, d) /\ UNCHANGED <<s5, s6>>
    BY <1>3 DEF Technology!Plan
  <2> HIDE DEF M
  <2>3. r \in Technology!Record
    BY <1>b, <2>1 DEF Technology!Record
  <2>4. Technology!Sound(r)
    BY <1>b DEF Technology!Sound, Technology!Record
  <2>5. d \in Technology!Calls /\ d.call # "reconcile"
    BY <2>1 DEF Technology!Calls
  <2> HIDE DEF r, d
  <2> QED
    BY <1>a, <2>2, <2>3, <2>4, <2>5, UpdateKeeps
<1>4. CASE Technology!EnqueueReplacement(p)
  <2>1. s3[p] \in [call : {"enqueue"}, missions : SUBSET Technology!Replacements]
    BY <1>4, <1>b, <1>c DEF Technology!EnqueueReplacement, Technology!Calls
  <2>2. PICK m \in s3[p].missions :
            Technology!Begin(p, IF m \in s4 THEN Technology!Idle
                                ELSE [s3[p] EXCEPT !.missions = @ \ {m}])
    BY <1>4 DEF Technology!EnqueueReplacement
  <2>3. /\ [s3[p] EXCEPT !.missions = @ \ {m}] \in Technology!Calls
        /\ [s3[p] EXCEPT !.missions = @ \ {m}].call = "enqueue"
    BY <2>1 DEF Technology!Calls
  <2>4. UNCHANGED <<s1, s2, s5, s6>>
    BY <1>4 DEF Technology!EnqueueReplacement
  <2> QED
    BY <1>a, <1>c, <2>2, <2>3, <2>4, BeginKeeps
<1>5. CASE Technology!Planned(p)
  <2> DEFINE r == [s2[p] EXCEPT !.assimilation = "in_progress"]
  <2>1. r \in Technology!Record
    BY <1>b DEF Technology!Record
  <2>2. Technology!Sound(r)
    BY <1>b DEF Technology!Sound, Technology!Record
  <2>3. Technology!Update(p, r, Technology!Idle) /\ UNCHANGED <<s5, s6>>
    BY <1>5 DEF Technology!Planned
  <2> HIDE DEF r
  <2> QED
    BY <1>a, <1>c, <2>1, <2>2, <2>3, UpdateKeeps
<1> QED
  BY <1>1, <1>2, <1>3, <1>4, <1>5 DEF Technology!ToolStep

(* A report counts as one of a merge only when there was one, and what was   *)
(* built stays built.                                                        *)
LEMMA ExecuteKeeps ==
    ASSUME Technology!ReplacedSoundly, NEW m \in Technology!LifecycleMissions,
           NEW outcome \in {"retrying", "failed", "unmerged", "merged"},
           Technology!Execute(m, outcome)
    PROVE  Technology!ReplacedSoundly'
<1>1. /\ s5' = [s5 EXCEPT ![m] = outcome]
      /\ s6' = IF outcome = "merged" THEN s6 \cup {m} ELSE s6
      /\ UNCHANGED <<s1, s2, s3, s4>>
  BY DEF Technology!Execute
<1>2. s5 \in [Technology!LifecycleMissions -> {"none", "retrying", "failed", "unmerged", "merged"}]
  BY DEF Technology!ReplacedSoundly, Technology!TechnologyTypeOK
<1>3. Technology!TechnologyTypeOK'
  BY <1>1, <1>2 DEF Technology!ReplacedSoundly, Technology!TechnologyTypeOK
<1>4. \A n \in Technology!LifecycleMissions : s5'[n] = "merged" => n \in s6'
  BY <1>1, <1>2 DEF Technology!ReplacedSoundly
<1>5. Technology!Built \subseteq Technology!Built'
  BY <1>1, MoreBuilt
<1>6. Technology!Sound(s1)'
  BY <1>1, <1>5 DEF Technology!ReplacedSoundly, Technology!Sound
<1>7. ASSUME NEW p \in Technology!Processes
      PROVE  /\ Technology!Sound(s2[p])'
             /\ s3'[p].call = "reconcile" => s3'[p].adopt \subseteq Technology!Built'
  BY <1>1, <1>5 DEF Technology!ReplacedSoundly, Technology!Sound
<1> QED
  BY <1>3, <1>4, <1>6, <1>7 DEF Technology!ReplacedSoundly

LEMMA TechnologyKeeps ==
    ASSUME Technology!ReplacedSoundly, Technology!Next \/ UNCHANGED Technology!vars
    PROVE  Technology!ReplacedSoundly'
<1>1. ASSUME NEW p \in Technology!Processes, Technology!Restart(p)
      PROVE  Technology!ReplacedSoundly'
  <2>1. Technology!Idle \in Technology!Calls /\ Technology!Idle.call # "reconcile"
    BY DEF Technology!Idle, Technology!Calls
  <2>2. s1 \in Technology!Record /\ Technology!Sound(s1)
    BY DEF Technology!ReplacedSoundly, Technology!TechnologyTypeOK
  <2>3. /\ s2' = [s2 EXCEPT ![p] = s1] /\ s3' = [s3 EXCEPT ![p] = Technology!Idle]
        /\ UNCHANGED <<s1, s5, s6>>
    BY <1>1 DEF Technology!Restart, Technology!Begin
  <2> QED
    BY <2>1, <2>2, <2>3, ProcessKeeps
<1>2. CASE UNCHANGED Technology!vars
  BY <1>2 DEF Technology!vars, Technology!ReplacedSoundly, Technology!TechnologyTypeOK,
              Technology!Sound, Technology!Built
<1> QED
  BY <1>1, <1>2, WorkerStepKeeps, ToolStepKeeps, ExecuteKeeps DEF Technology!Next

(* For any capabilities, versions and processes, with lost updates and stale *)
(* writes: a technology that is recorded as replaced had each capability it  *)
(* was known for then built by a mission that was merged into main.          *)
THEOREM ReplacementsAreNative == AnySpec => []ReplacedIsNative
<1> DEFINE Inv == component = "technology" => Technology!ReplacedSoundly
<1>1. AnyInit => Inv
  BY TechnologyBegins DEF AnyInit
<1>2. Inv /\ [AnyNext]_AnyVars => Inv'
  BY Selected, TechnologyKeeps
<1>3. Inv => ReplacedIsNative
  <2> SUFFICES ASSUME Technology!ReplacedSoundly
               PROVE  Technology!ReplacedIsNative
    BY DEF ReplacedIsNative
  <2>1. ASSUME NEW r, Technology!Sound(r), r.state = "native_replaced",
               NEW c \in r.capabilities \ r.since
        PROVE  c \in r.adopted /\ \E s \in Reasons : Technology!Replacement(c, s) \in s6
    BY <2>1 DEF Technology!Sound, Technology!Built
  <2> QED
    BY <2>1 DEF Technology!ReplacedSoundly, Technology!ReplacedIsNative
<1> QED
  BY <1>1, <1>2, <1>3, PTL DEF AnySpec, AnyVars

-----------------------------------------------------------------------------
(* The mission runner                                                        *)

LEMMA MainIsATree == Runner!MainTree \in [Files -> Runner!Contents]
  BY DEF Runner!MainTree, Runner!Contents

LEMMA RunnerBegins ==
    ASSUME Runner!Init
    PROVE  Runner!PassedIsPushed
<1> USE DEF Runner!Init
<1>1. Runner!RunnerTypeOK
  BY MainIsATree DEF Runner!RunnerTypeOK
<1>2. Runner!CheckoutIsItsOwn /\ Runner!PushedIsWhatPassed
  BY DEF Runner!CheckoutIsItsOwn, Runner!BeforeCommit, Runner!PushedIsWhatPassed
<1> QED
  BY <1>1, <1>2 DEF Runner!PassedIsPushed

(* A run that has ended, however, keeps nothing to commit or to push.        *)
LEMMA RunEnds ==
    ASSUME Runner!RunnerTypeOK, Runner!PushedIsWhatPassed',
           s1' \in [Files -> Runner!Contents], s2' \in RunnerMissions \cup {"main"},
           s5' \in {"idle", "switch", "recover"}, s6' \in Nat,
           s5' = "recover" => s4' \in RunnerMissions,
           UNCHANGED <<s8, s9>>
    PROVE  Runner!PassedIsPushed'
<1>1. Runner!RunnerTypeOK'
  BY DEF Runner!RunnerTypeOK
<1>2. Runner!CheckoutIsItsOwn'
  BY DEF Runner!CheckoutIsItsOwn, Runner!BeforeCommit
<1> QED
  BY <1>1, <1>2 DEF Runner!PassedIsPushed

(* A run that goes on to another place before its commit.                    *)
LEMMA RunGoesOn ==
    ASSUME Runner!RunnerTypeOK, Runner!CheckoutIsItsOwn, Runner!PushedIsWhatPassed,
           s5 \in Runner!BeforeCommit, s5' \in Runner!BeforeCommit \ {"add", "commit"}, s6' \in Nat,
           s7' \subseteq Deliverables[s4],
           UNCHANGED <<s1, s2, s4, s8, s9, s10>>
    PROVE  Runner!PassedIsPushed'
<1>1. Runner!RunnerTypeOK'
  BY DEF Runner!RunnerTypeOK, Runner!BeforeCommit
<1>2. Runner!CheckoutIsItsOwn'
  BY DEF Runner!CheckoutIsItsOwn, Runner!MainTree
<1> QED
  BY <1>1, <1>2 DEF Runner!PassedIsPushed, Runner!PushedIsWhatPassed, Runner!BeforeCommit

(* A round that fails ends the run or leads to a validation.                 *)
LEMMA RoundFailsKeeps ==
    ASSUME Runner!RunnerTypeOK, Runner!CheckoutIsItsOwn, Runner!PushedIsWhatPassed,
           s5 \in Runner!BeforeCommit, Runner!RoundFails,
           UNCHANGED <<s1, s2, s8, s9, s10>>
    PROVE  Runner!PassedIsPushed'
<1>1. s5' \in {"recover", "validate"} /\ UNCHANGED <<s4, s6, s7>>
  BY DEF Runner!RoundFails, Runner!Go
<1>2. s4 \in RunnerMissions /\ s6 \in Nat /\ s1 \in [Files -> Runner!Contents]
      /\ s2 \in RunnerMissions \cup {"main"}
  BY DEF Runner!RunnerTypeOK, Runner!BeforeCommit
<1>3. Runner!PushedIsWhatPassed'
  BY DEF Runner!PushedIsWhatPassed
<1>4. CASE s5' = "recover"
  BY <1>1, <1>2, <1>3, <1>4, RunEnds
<1>5. CASE s5' = "validate"
  <2>1. s7' \subseteq Deliverables[s4]
    BY <1>1 DEF Runner!CheckoutIsItsOwn
  <2> QED
    BY <1>1, <1>2, <1>5, <2>1, RunGoesOn DEF Runner!BeforeCommit
<1> QED
  BY <1>1, <1>4, <1>5

LEMMA RunnerKeeps ==
    ASSUME Runner!PassedIsPushed, Runner!Next \/ UNCHANGED Runner!vars
    PROVE  Runner!PassedIsPushed'
<1>a. /\ Runner!RunnerTypeOK /\ Runner!CheckoutIsItsOwn /\ Runner!PushedIsWhatPassed
      /\ s5 \in {"add", "commit"} => s8 = s1
      /\ s5 = "push" => \A f \in Runner!Seen : s8[f] = s9[s4][f]
  BY DEF Runner!PassedIsPushed
<1>b. /\ s1 \in [Files -> Runner!Contents] /\ s8 \in [Files -> Runner!Contents]
      /\ s9 \in [RunnerMissions -> [Files -> Runner!Contents]]
      /\ s2 \in RunnerMissions \cup {"main"} /\ s6 \in Nat
      /\ s5 \notin {"idle", "switch"} => s4 \in RunnerMissions
  BY <1>a DEF Runner!RunnerTypeOK
<1>1. CASE UNCHANGED <<s1, s2, s4, s5, s6, s7, s8, s9, s10>>
  BY <1>1, <1>a DEF Runner!PassedIsPushed, Runner!RunnerTypeOK, Runner!CheckoutIsItsOwn,
                    Runner!PushedIsWhatPassed, Runner!MainTree, Runner!Seen
<1>2. ASSUME NEW m \in RunnerMissions, Runner!Start(m)
      PROVE  Runner!PassedIsPushed'
  <2>1. /\ \A f \in Runner!Seen : s1[f] = Runner!MainTree[f]
        /\ s2' = m /\ s4' = m /\ s5' = "generate" /\ s6' = 0 /\ s7' = {}
        /\ s9' = [s9 EXCEPT ![m] = Runner!MainTree]
        /\ UNCHANGED <<s1, s8, s10>>
    BY <1>2 DEF Runner!Start, Runner!Clean
  <2>2. /\ s9' \in [RunnerMissions -> [Files -> Runner!Contents]]
        /\ s9'[m] = Runner!MainTree
    BY <1>b, <2>1, MainIsATree
  <2>3. Runner!RunnerTypeOK'
    BY <1>b, <2>1, <2>2 DEF Runner!RunnerTypeOK, Runner!BeforeCommit
  <2>4. Runner!CheckoutIsItsOwn'
    BY <2>1, <2>2 DEF Runner!CheckoutIsItsOwn, Runner!MainTree, Runner!Seen
  <2> QED
    BY <1>a, <2>1, <2>3, <2>4 DEF Runner!PassedIsPushed, Runner!PushedIsWhatPassed, Runner!Seen
<1>3. ASSUME NEW m \in RunnerMissions, Runner!Refuse(m)
      PROVE  Runner!PassedIsPushed'
  <2>1. s5' = "switch" /\ UNCHANGED <<s1, s2, s4, s6, s8, s9, s10>>
    BY <1>3 DEF Runner!Refuse, Runner!Go
  <2> QED
    BY <1>a, <1>b, <2>1, RunEnds DEF Runner!PushedIsWhatPassed
<1>4. CASE Runner!Generate
  <2>1. s5 = "generate" /\ UNCHANGED <<s1, s2, s8, s9, s10>>
    BY <1>4 DEF Runner!Generate
  <2>2. CASE Runner!RoundFails
    BY <1>a, <2>1, <2>2, RoundFailsKeeps DEF Runner!BeforeCommit
  <2>3. CASE s5' = "write" /\ s7' = Deliverables[s4] /\ UNCHANGED <<s4, s6>>
    BY <1>a, <1>b, <2>1, <2>3, RunGoesOn DEF Runner!BeforeCommit
  <2> QED
    BY <1>4, <2>2, <2>3 DEF Runner!Generate
<1>5. CASE Runner!Write
  <2>1. PICK f \in s7 : /\ s1' = [s1 EXCEPT ![f] = [by |-> s4, round |-> s6]]
                        /\ s7' = s7 \ {f}
    BY <1>5 DEF Runner!Write
  <2>2. s5 = "write" /\ UNCHANGED <<s2, s4, s5, s6, s8, s9, s10>>
    BY <1>5 DEF Runner!Write
  <2>3. s7 \subseteq Deliverables[s4]
    BY <1>a, <2>2 DEF Runner!CheckoutIsItsOwn, Runner!BeforeCommit
  <2>4. [by |-> s4, round |-> s6] \in Runner!Contents
    BY <1>b, <2>2 DEF Runner!Contents
  <2>5. s1' \in [Files -> Runner!Contents]
    BY <1>b, <2>1, <2>4
  <2>6. Runner!RunnerTypeOK'
    BY <1>a, <2>2, <2>5 DEF Runner!RunnerTypeOK
  <2>7. \A g \in Files \ Deliverables[s4] : s1'[g] = s1[g]
    BY <1>b, <2>1, <2>3
  <2>8. Runner!CheckoutIsItsOwn'
    BY <1>a, <2>1, <2>2, <2>3, <2>7 DEF Runner!CheckoutIsItsOwn, Runner!BeforeCommit, Runner!MainTree
  <2> QED
    BY <1>a, <2>2, <2>6, <2>8 DEF Runner!PassedIsPushed, Runner!PushedIsWhatPassed
<1>6. CASE Runner!WriteEnds
  <2>1. s5 = "write" /\ UNCHANGED <<s1, s2, s8, s9, s10>>
    BY <1>6 DEF Runner!WriteEnds
  <2>2. CASE Runner!RoundFails
    BY <1>a, <2>1, <2>2, RoundFailsKeeps DEF Runner!BeforeCommit
  <2>3. CASE s5' = "validate" /\ UNCHANGED <<s4, s6, s7>>
    <3>1. s7 \subseteq Deliverables[s4]
      BY <1>a, <2>1 DEF Runner!CheckoutIsItsOwn, Runner!BeforeCommit
    <3> QED
      BY <1>a, <1>b, <2>1, <2>3, <3>1, RunGoesOn DEF Runner!BeforeCommit
  <2> QED
    BY <1>6, <2>2, <2>3 DEF Runner!WriteEnds, Runner!Go
<1>7. CASE Runner!ValidationPasses
  <2>1. /\ s5 \in {"validate", "revalidate"} /\ s5' = "add" /\ s8' = s1
        /\ UNCHANGED <<s1, s2, s4, s6, s7, s9, s10>>
    BY <1>7 DEF Runner!ValidationPasses, Runner!Go
  <2>2. Runner!RunnerTypeOK'
    BY <1>b, <2>1 DEF Runner!RunnerTypeOK, Runner!BeforeCommit
  <2>3. Runner!CheckoutIsItsOwn'
    BY <1>a, <2>1 DEF Runner!CheckoutIsItsOwn, Runner!BeforeCommit, Runner!MainTree
  <2> QED
    BY <1>a, <2>1, <2>2, <2>3 DEF Runner!PassedIsPushed, Runner!PushedIsWhatPassed
<1>8. CASE Runner!ValidationFails
  <2>1. s5 \in {"validate", "revalidate"} /\ UNCHANGED <<s1, s2, s4, s7, s8, s9, s10>>
    BY <1>8 DEF Runner!ValidationFails, Runner!Go
  <2>2. \/ s5' \in {"revalidate", "generate"} /\ s6' \in {s6, s6 + 1}
        \/ s5' = "recover" /\ s6' = s6
    BY <1>8 DEF Runner!ValidationFails, Runner!Go
  <2>3. s7 \subseteq Deliverables[s4] /\ s6' \in Nat
    BY <1>a, <1>b, <2>1, <2>2 DEF Runner!CheckoutIsItsOwn, Runner!BeforeCommit
  <2>4. CASE s5' = "recover"
    BY <1>a, <1>b, <2>1, <2>3, <2>4, RunEnds DEF Runner!PushedIsWhatPassed
  <2>5. CASE s5' \in {"revalidate", "generate"}
    BY <1>a, <2>1, <2>3, <2>5, RunGoesOn DEF Runner!BeforeCommit
  <2> QED
    BY <2>2, <2>4, <2>5
<1>9. CASE Runner!ValidationBreaks
  <2>1. s5 = "validate" /\ s5' = "recover" /\ UNCHANGED <<s1, s2, s4, s6, s8, s9, s10>>
    BY <1>9 DEF Runner!ValidationBreaks, Runner!Go
  <2> QED
    BY <1>a, <1>b, <2>1, RunEnds DEF Runner!PushedIsWhatPassed
<1>b1. CASE Runner!Add
  <2>1. /\ s5 = "add" /\ s5' \in {"commit", "recover"}
        /\ UNCHANGED <<s1, s2, s4, s6, s7, s8, s9, s10>>
    BY <1>b1 DEF Runner!Add, Runner!Go
  <2>2. Runner!PushedIsWhatPassed'
    BY <1>a, <2>1 DEF Runner!PushedIsWhatPassed, Runner!Seen
  <2>3. CASE s5' = "recover"
    BY <1>a, <1>b, <2>1, <2>2, <2>3, RunEnds
  <2>4. CASE s5' = "commit"
    <3>1. Runner!RunnerTypeOK'
      BY <1>b, <2>1, <2>4 DEF Runner!RunnerTypeOK, Runner!BeforeCommit
    <3>2. Runner!CheckoutIsItsOwn'
      BY <1>a, <2>1, <2>4 DEF Runner!CheckoutIsItsOwn, Runner!BeforeCommit, Runner!MainTree, Runner!Seen
    <3> QED
      BY <1>a, <2>1, <2>2, <2>4, <3>1, <3>2 DEF Runner!PassedIsPushed
  <2> QED
    BY <2>1, <2>3, <2>4
<1>10. CASE Runner!Commit
  <2> DEFINE new == [f \in Files |-> IF f \in Deliverables[s4] THEN s1[f] ELSE s9[s4][f]]
  <2>1. /\ s5 = "commit"
        /\ \/ s5' = "recover" /\ s9' = s9
           \/ s5' = "push" /\ s9' = [s9 EXCEPT ![s4] = new]
        /\ UNCHANGED <<s1, s2, s4, s6, s7, s8, s10>>
    BY <1>10 DEF Runner!Commit, Runner!Go
  <2>2. /\ s4 \in RunnerMissions /\ s9[s4] = Runner!MainTree
        /\ \A f \in Runner!Seen \ Deliverables[s4] : s1[f] = Runner!MainTree[f]
    BY <1>a, <1>b, <2>1 DEF Runner!CheckoutIsItsOwn, Runner!BeforeCommit
  <2>3. /\ new \in [Files -> Runner!Contents]
        /\ \A f \in Runner!Seen : new[f] = s1[f]
    BY <1>b, <2>2 DEF Runner!Seen
  <2>a. Runner!PushedIsWhatPassed'
    BY <1>a, <2>1 DEF Runner!PushedIsWhatPassed, Runner!Seen
  <2> HIDE DEF new
  <2>b. CASE s5' = "recover"
    BY <1>a, <1>b, <2>1, <2>2, <2>a, <2>b, RunEnds
  <2>c. CASE s5' = "push"
    <3>1. s9' \in [RunnerMissions -> [Files -> Runner!Contents]] /\ s9'[s4] = new
      BY <1>b, <2>1, <2>2, <2>3, <2>c
    <3>2. Runner!RunnerTypeOK'
      BY <1>b, <2>1, <2>2, <2>c, <3>1 DEF Runner!RunnerTypeOK
    <3>3. Runner!CheckoutIsItsOwn'
      BY <2>c DEF Runner!CheckoutIsItsOwn, Runner!BeforeCommit
    <3>4. s4' = s4 /\ s8' = s8 /\ s8 = s1
      BY <1>a, <2>1
    <3>5. \A f \in Runner!Seen : s8'[f] = s9'[s4'][f]
      BY <2>3, <3>1, <3>4
    <3>6. (\A f \in Runner!Seen : s8[f] = s9[s4][f])'
      BY <3>5 DEF Runner!Seen
    <3> QED
      BY <2>a, <2>c, <3>2, <3>3, <3>6 DEF Runner!PassedIsPushed
  <2> QED
    BY <2>1, <2>b, <2>c
<1>11. CASE Runner!Push
  <2>1. /\ s5 = "push" /\ s5' \in {"switch", "recover"}
        /\ s10' \in {s10, s10 \cup {[seen |-> s8, commit |-> s9[s4]]}}
        /\ UNCHANGED <<s1, s2, s4, s6, s8, s9>>
    BY <1>11 DEF Runner!Push, Runner!Go
  <2>2. Runner!PushedIsWhatPassed'
    BY <1>a, <2>1 DEF Runner!PushedIsWhatPassed, Runner!Seen
  <2> QED
    BY <1>a, <1>b, <2>1, <2>2, RunEnds
<1>12. CASE Runner!Recover
  <2>1. s5 = "recover" /\ s5' = "switch" /\ UNCHANGED <<s2, s4, s6, s8, s9, s10>>
    BY <1>12 DEF Runner!Recover, Runner!Go
  <2>2. s9[s4] \in [Files -> Runner!Contents] /\ Runner!Absent \in Runner!Contents
    BY <1>b, <2>1 DEF Runner!Contents
  <2> DEFINE InIndex(f) == s9[s4][f] # Runner!Absent
                           \/ (s12 /\ f \in Deliverables[s4] \cap Runner!Seen)
             Reset == [f \in Files |-> IF InIndex(f) THEN s9[s4][f] ELSE s1[f]]
             Cleaned == [f \in Files |-> IF f \in UnderAgent \cap Runner!Seen /\ s9[s4][f] = Runner!Absent
                                         THEN Runner!Absent ELSE Reset[f]]
             Kept == [f \in Files |-> IF f \in UnderAgent \cap Runner!Seen /\ ~InIndex(f)
                                      THEN Runner!Absent ELSE s1[f]]
  <2>3. s1' \in {s1, Reset, Cleaned, Kept}
    BY <1>12 DEF Runner!Recover
  <2> HIDE DEF InIndex
  <2>4. Reset \in [Files -> Runner!Contents] /\ Kept \in [Files -> Runner!Contents]
    BY <1>b, <2>2
  <2> HIDE DEF Reset, Kept
  <2>5. Cleaned \in [Files -> Runner!Contents]
    BY <2>2, <2>4
  <2> HIDE DEF Cleaned
  <2>6. s1' \in [Files -> Runner!Contents]
    BY <1>b, <2>3, <2>4, <2>5
  <2> QED
    BY <1>a, <1>b, <2>1, <2>6, RunEnds DEF Runner!PushedIsWhatPassed, Runner!Seen
<1>13. CASE Runner!Timeout
  <2>1. s5' = "switch" /\ UNCHANGED <<s1, s2, s4, s6, s8, s9, s10>>
    BY <1>13 DEF Runner!Timeout, Runner!Go
  <2> QED
    BY <1>a, <1>b, <2>1, RunEnds DEF Runner!PushedIsWhatPassed
<1>14. CASE Runner!RestoreMain
  <2> DEFINE old == IF s2 = "main" THEN Runner!MainTree ELSE s9[s2]
             new == [f \in Files |-> IF s1[f] = old[f] THEN Runner!MainTree[f] ELSE s1[f]]
  <2>1. /\ s5' = "idle" /\ s6' = 0 /\ s1' \in {s1, new} /\ s2' \in {s2, "main"}
        /\ UNCHANGED <<s8, s9, s10>>
    BY <1>14 DEF Runner!RestoreMain
  <2>2. new \in [Files -> Runner!Contents]
    BY <1>b, MainIsATree
  <2> HIDE DEF new
  <2> QED
    BY <1>a, <1>b, <2>1, <2>2, RunEnds DEF Runner!PushedIsWhatPassed
<1>15. ASSUME NEW m \in RunnerMissions, Runner!Define(m)
       PROVE  Runner!PassedIsPushed'
  BY <1>1, <1>15 DEF Runner!Define, Runner!run_vars
<1>16. CASE UNCHANGED Runner!vars
  BY <1>1, <1>16 DEF Runner!vars, Runner!run_vars
<1> QED
  BY <1>2, <1>3, <1>4, <1>5, <1>6, <1>7, <1>8, <1>9, <1>b1, <1>10, <1>11, <1>12, <1>13, <1>14, <1>15,
     <1>16 DEF Runner!Next

(* For any missions, deliverables, rounds of repair and runs that fail, are  *)
(* killed or leave files behind: what is pushed is what was validated, but   *)
(* for files that .gitignore names.                                          *)
THEOREM PushesArePassed == AnySpec => []PushedIsWhatPassed
<1> DEFINE Inv == component = "runner" => Runner!PassedIsPushed
<1>1. AnyInit => Inv
  BY RunnerBegins DEF AnyInit
<1>2. Inv /\ [AnyNext]_AnyVars => Inv'
  BY Selected, RunnerKeeps
<1>3. Inv => PushedIsWhatPassed
  BY DEF Runner!PassedIsPushed, PushedIsWhatPassed
<1> QED
  BY <1>1, <1>2, <1>3, PTL DEF AnySpec, AnyVars

-----------------------------------------------------------------------------
(* The registry of projects                                                  *)

LEMMA ProjectRecords ==
    /\ Registry!Absent \in Registry!Project
    /\ \A r \in Registry!Project : r.updated \in Nat
  BY DEF Registry!Absent, Registry!Project

LEMMA RegistryBegins ==
    ASSUME Registry!Init
    PROVE  Registry!Kept
<1> USE DEF Registry!Init
<1>1. Registry!RegistryTypeOK
  BY ProjectRecords DEF Registry!RegistryTypeOK
<1>2. Registry!UpToDate /\ Registry!ToldIsKept
  BY DEF Registry!UpToDate, Registry!ToldIsKept
<1> QED
  BY <1>1, <1>2 DEF Registry!Kept

(* A change of one copy is not one of the file.                              *)
LEMMA ChangeKeeps ==
    ASSUME Registry!Kept, NEW p \in RegistryProcesses, NEW x \in Projects,
           NEW project \in Registry!Project, Registry!Change(p, x, project)
    PROVE  Registry!Kept'
<1>1. /\ s2' = [s2 EXCEPT ![p][x] = project] /\ s3' = [s3 EXCEPT ![p][x] = project.updated]
      /\ s4' = [s4 EXCEPT ![p] = x] /\ UNCHANGED <<s1, s7, s8, s9, s10>>
      /\ s4[p] = Registry!Idle
  BY DEF Registry!Change, Registry!history_vars
<1>2. /\ s2 \in [RegistryProcesses -> [Projects -> Registry!Project]]
      /\ s3 \in [RegistryProcesses -> [Projects -> Nat]]
      /\ s4 \in [RegistryProcesses -> Projects \cup {Registry!Idle}]
  BY DEF Registry!Kept, Registry!RegistryTypeOK
<1>3. project.updated \in Nat
  BY ProjectRecords
<1>4. s2' \in [RegistryProcesses -> [Projects -> Registry!Project]]
  BY <1>1, <1>2
<1>5. s3' \in [RegistryProcesses -> [Projects -> Nat]]
  BY <1>1, <1>2, <1>3
<1>6. Registry!RegistryTypeOK'
  BY <1>1, <1>2, <1>4, <1>5 DEF Registry!Kept, Registry!RegistryTypeOK
<1>7. Registry!ToldIsKept'
  BY <1>1 DEF Registry!Kept, Registry!ToldIsKept
<1>8. ASSUME NEW q \in RegistryProcesses \ s9, NEW y \in Projects
      PROVE  s2'[q][y] = s1[y] \/ s4'[q] = y \/ y \in s8
  <2>1. s2[q][y] = s1[y] \/ s4[q] = y \/ y \in s8
    BY DEF Registry!Kept, Registry!UpToDate
  <2>2. Registry!Idle # y
    BY RegistryAssumption DEF Registry!Idle
  <2>3. CASE q = p
    BY <1>1, <1>2, <2>1, <2>2, <2>3
  <2>4. CASE q # p
    BY <1>1, <1>2, <2>1, <2>4
  <2> QED
    BY <2>3, <2>4
<1>9. Registry!UpToDate'
  BY <1>1, <1>8 DEF Registry!UpToDate
<1> QED
  BY <1>6, <1>7, <1>9 DEF Registry!Kept

(* Fields of a project that an update writes.                                *)
LEMMA UpdatedProject ==
    ASSUME NEW r \in Registry!Project, NEW s \in Registry!States, NEW last \in Nat, NEW now \in Times
    PROVE  [r EXCEPT !.status = s, !.updated = Registry!After(last, now)] \in Registry!Project
<1>1. Registry!After(last, now) \in Nat
  BY RegistryAssumption DEF Registry!After
<1> QED
  BY <1>1 DEF Registry!Project

LEMMA RegistryKeeps ==
    ASSUME Registry!Kept, Registry!Next \/ UNCHANGED Registry!vars
    PROVE  Registry!Kept'
<1>a. /\ s1 \in [Projects -> Registry!Project] /\ s7 \in [Projects -> Registry!Project]
      /\ s2 \in [RegistryProcesses -> [Projects -> Registry!Project]]
      /\ s3 \in [RegistryProcesses -> [Projects -> Nat]]
      /\ s4 \in [RegistryProcesses -> Projects \cup {Registry!Idle}]
      /\ s8 \subseteq Projects /\ s9 \subseteq RegistryProcesses
      /\ ~s10 => \A x \in Projects \ s8 : s1[x] = s7[x]
  BY DEF Registry!Kept, Registry!RegistryTypeOK, Registry!ToldIsKept
<1>b. \A q \in RegistryProcesses \ s9, y \in Projects : s2[q][y] = s1[y] \/ s4[q] = y \/ y \in s8
  BY DEF Registry!Kept, Registry!UpToDate
<1>1. ASSUME NEW p \in RegistryProcesses, NEW x \in Projects, NEW now \in Times,
             Registry!CreateProject(p, x, now)
      PROVE  Registry!Kept'
  <2>1. PICK s \in Registry!States :
            Registry!Change(p, x, [status |-> s, created |-> now, updated |-> now])
    BY <1>1 DEF Registry!CreateProject
  <2>2. [status |-> s, created |-> now, updated |-> now] \in Registry!Project
    BY RegistryAssumption DEF Registry!Project
  <2> QED
    BY <2>1, <2>2, ChangeKeeps
<1>2. ASSUME NEW p \in RegistryProcesses, NEW x \in Projects, NEW now \in Times,
             Registry!UpdateProject(p, x, now) \/ Registry!SetStatus(p, x, now)
      PROVE  Registry!Kept'
  <2>1. PICK s \in Registry!States :
            Registry!Change(p, x, [s2[p][x] EXCEPT !.status = s,
                                                   !.updated = Registry!After(s3[p][x], now)])
    BY <1>2 DEF Registry!UpdateProject, Registry!SetStatus
  <2>2. s2[p][x] \in Registry!Project /\ s3[p][x] \in Nat
    BY <1>a
  <2> QED
    BY <2>1, <2>2, UpdatedProject, ChangeKeeps
<1>3. ASSUME NEW p \in RegistryProcesses, NEW x \in Projects, Registry!DeleteProject(p, x)
      PROVE  Registry!Kept'
  BY <1>3, ProjectRecords, ChangeKeeps DEF Registry!DeleteProject
<1>4. ASSUME NEW p \in RegistryProcesses, Registry!Persist(p)
      PROVE  Registry!Kept'
  <2>1. s4[p] \in Projects /\ s2[p] \in [Projects -> Registry!Project]
    BY <1>4, <1>a DEF Registry!Persist
  <2>2. /\ s1' = s2[p] /\ s7' = [s7 EXCEPT ![s4[p]] = s2[p][s4[p]]]
        /\ s10' = (s10 \/ p \in s9) /\ s9' = RegistryProcesses \ {p} /\ s8' = s8 \ {s4[p]}
        /\ s4' = [s4 EXCEPT ![p] = Registry!Idle] /\ UNCHANGED <<s2, s3>>
    BY <1>4 DEF Registry!Persist
  <2>3. Registry!RegistryTypeOK'
    BY <1>a, <2>1, <2>2 DEF Registry!RegistryTypeOK
  <2>4. ASSUME ~s10', NEW y \in Projects \ s8'
        PROVE  s1'[y] = s7'[y]
    <3>1. CASE y = s4[p]
      BY <1>a, <2>1, <2>2, <3>1
    <3>2. CASE y # s4[p]
      <4>1. y \in Projects \ s8 /\ ~s10 /\ p \notin s9
        BY <2>2, <2>4, <3>2
      <4>2. s2[p][y] = s1[y] /\ s1[y] = s7[y]
        BY <1>a, <1>b, <3>2, <4>1
      <4> QED
        BY <1>a, <2>2, <3>2, <4>2
    <3> QED
      BY <3>1, <3>2
  <2>5. Registry!ToldIsKept'
    BY <2>4 DEF Registry!ToldIsKept
  <2>6. Registry!UpToDate'
    BY <2>2 DEF Registry!UpToDate
  <2> QED
    BY <2>3, <2>5, <2>6 DEF Registry!Kept
<1>5. ASSUME NEW p \in RegistryProcesses, Registry!PersistFails(p)
      PROVE  Registry!Kept'
  <2>1. /\ s8' = s8 \cup {s4[p]} /\ s4' = [s4 EXCEPT ![p] = Registry!Idle]
        /\ s4[p] # Registry!Idle /\ UNCHANGED <<s1, s2, s3, s7, s9, s10>>
    BY <1>5 DEF Registry!PersistFails
  <2>2. Registry!RegistryTypeOK'
    BY <1>a, <2>1 DEF Registry!RegistryTypeOK
  <2>3. Registry!ToldIsKept'
    BY <1>a, <2>1 DEF Registry!ToldIsKept
  <2>4. ASSUME NEW q \in RegistryProcesses \ s9, NEW y \in Projects
        PROVE  s2[q][y] = s1[y] \/ s4'[q] = y \/ y \in s8'
    <3>1. s2[q][y] = s1[y] \/ s4[q] = y \/ y \in s8
      BY <1>b
    <3>2. CASE q = p
      BY <2>1, <3>1, <3>2
    <3>3. CASE q # p
      BY <1>a, <2>1, <3>1, <3>3
    <3> QED
      BY <3>2, <3>3
  <2>5. Registry!UpToDate'
    BY <2>1, <2>4 DEF Registry!UpToDate
  <2> QED
    BY <2>2, <2>3, <2>5 DEF Registry!Kept
<1>6. ASSUME NEW p \in RegistryProcesses, Registry!Restart(p)
      PROVE  Registry!Kept'
  <2>1. /\ s2' = [s2 EXCEPT ![p] = s1]
        /\ s3' = [s3 EXCEPT ![p] = [x \in Projects |-> s1[x].updated]]
        /\ s4' = [s4 EXCEPT ![p] = Registry!Idle] /\ UNCHANGED <<s1, s7, s8, s10>>
        /\ s9' = s9 \ {p}
    BY <1>6 DEF Registry!Restart
  <2>2. [x \in Projects |-> s1[x].updated] \in [Projects -> Nat]
    BY <1>a, ProjectRecords
  <2>3. Registry!RegistryTypeOK'
    BY <1>a, <2>1, <2>2 DEF Registry!RegistryTypeOK
  <2>4. Registry!ToldIsKept'
    BY <1>a, <2>1 DEF Registry!ToldIsKept
  <2>5. ASSUME NEW q \in RegistryProcesses \ s9', NEW y \in Projects
        PROVE  s2'[q][y] = s1[y] \/ s4'[q] = y \/ y \in s8
    <3>1. CASE q = p
      BY <1>a, <2>1, <3>1
    <3>2. CASE q # p
      BY <1>a, <1>b, <2>1, <3>2
    <3> QED
      BY <3>1, <3>2
  <2>6. Registry!UpToDate'
    BY <2>1, <2>5 DEF Registry!UpToDate
  <2> QED
    BY <2>3, <2>4, <2>6 DEF Registry!Kept
<1>7. CASE UNCHANGED Registry!vars
  BY <1>7 DEF Registry!vars, Registry!history_vars, Registry!count_vars, Registry!Kept,
              Registry!RegistryTypeOK, Registry!UpToDate, Registry!ToldIsKept
<1> QED
  BY <1>1, <1>2, <1>3, <1>4, <1>5, <1>6, <1>7 DEF Registry!Next

(* For any processes, projects and clocks: what a call was told it made of a *)
(* project stays in the file until the next call for that project, whatever  *)
(* is done to others, fails or dies, until a process writes that was built   *)
(* before the last write of another, and unless a change of the project had  *)
(* failed before.                                                            *)
THEOREM ToldStaysInTheFile == AnySpec => []ToldIsKept
<1> DEFINE Inv == component = "projects" => Registry!Kept
<1>1. AnyInit => Inv
  BY RegistryBegins DEF AnyInit
<1>2. Inv /\ [AnyNext]_AnyVars => Inv'
  BY Selected, RegistryKeeps
<1>3. Inv => ToldIsKept
  BY DEF Registry!Kept, ToldIsKept
<1> QED
  BY <1>1, <1>2, <1>3, PTL DEF AnySpec, AnyVars

-----------------------------------------------------------------------------
(* The supervisor of autonomous development                                  *)

LEMMA NothingIsHeld == Supervisor!Nothing \in Supervisor!Held
<1>1. <<>> \in Seq(Supervisor!Planned)
  OBVIOUS
<1> QED
  BY <1>1 DEF Supervisor!Nothing, Supervisor!Held, Supervisor!Levels

LEMMA SupervisorBegins ==
    ASSUME Supervisor!Init
    PROVE  Supervisor!Cleared
<1> USE DEF Supervisor!Init
<1>0. s2 \in Seq(Supervisor!Planned)
  OBVIOUS
<1>1. Supervisor!SupervisorTypeOK
  BY <1>0, NothingIsHeld, SupervisorAssumption
  DEF Supervisor!SupervisorTypeOK, Supervisor!Statuses, Supervisor!Early, Supervisor!Levels,
      Supervisor!Places
<1>2. \A c \in Callers : Supervisor!Founded(c)
  BY DEF Supervisor!Founded, Supervisor!PastPlanning, Supervisor!Resuming
<1>3. Supervisor!MergedWasCleared /\ ~Supervisor!Unapproved /\ s10 = {}
  BY DEF Supervisor!MergedWasCleared, Supervisor!Unapproved
<1> QED
  BY <1>1, <1>2, <1>3 DEF Supervisor!Cleared

(* The status of a run goes on, past planning and to an end, never back.     *)
Onward ==
    /\ s1 \notin Supervisor!Early => s1' \notin Supervisor!Early
    /\ s1 \in Supervisor!Settled => s1' \in Supervisor!Settled
    /\ s4 \subseteq s4'

(* Who is warned has not entered a merge, or it finds the run at its end.    *)
Warned ==
    /\ \A k \in s10' : k \in s10 \/ (/\ s6[k] # "merge"
                                     /\ s6[k] = "enter_merge" => s1' \in Supervisor!Settled)
    /\ s10' # s10 => "rejected" \in s4' \/ s1' \in Supervisor!Settled

(* A thread that does not move counts on what it did.                        *)
LEMMA StillFounded ==
    ASSUME NEW k \in Callers, Supervisor!Founded(k), s6'[k] = s6[k], s7'[k] = s7[k],
           Onward, Warned, s9' => s9 \/ s1 \in Supervisor!Early
    PROVE  Supervisor!Founded(k)'
<1>1. s6[k] \in Supervisor!PastPlanning =>
          s1' \notin Supervisor!Early /\ ~(s9' /\ "approved" \notin s4')
  BY DEF Supervisor!Founded, Onward, Supervisor!Unapproved
<1>2. k \in s10' => s6[k] # "merge" /\ (s6[k] = "enter_merge" => s1' \in Supervisor!Settled)
  BY DEF Supervisor!Founded, Onward, Warned
<1>3. s6[k] \in Supervisor!Resuming => "approved" \in s4'
  BY DEF Supervisor!Founded, Onward
<1> QED
  BY <1>1, <1>2, <1>3 DEF Supervisor!Founded, Supervisor!Unapproved

(* What a step must show.                                                    *)
LEMMA SupervisorStep ==
    ASSUME Supervisor!Cleared, Supervisor!SupervisorTypeOK', Onward, Warned,
           s9' => s9 \/ s1 \in Supervisor!Early,
           Supervisor!Unapproved' => s1' \in {"awaiting_approval"} \cup Supervisor!Settled,
           \A k \in Callers : (s6'[k] = s6[k] /\ s7'[k] = s7[k]) \/ Supervisor!Founded(k)',
           Supervisor!MergedWasCleared'
    PROVE  Supervisor!Cleared'
<1>1. \A k \in Callers : Supervisor!Founded(k)'
  BY StillFounded DEF Supervisor!Cleared
<1>2. s10' # {} => "rejected" \in s4' \/ s1' \in Supervisor!Settled
  BY DEF Supervisor!Cleared, Onward, Warned
<1> QED
  BY <1>1, <1>2 DEF Supervisor!Cleared

(* One thread moves, and the histories stay as they are.                     *)
LEMMA ThreadMoves ==
    ASSUME Supervisor!Cleared, NEW c \in Callers,
           NEW place \in Supervisor!Places, s6' = [s6 EXCEPT ![c] = place],
           NEW h \in Supervisor!Held, s7' = [s7 EXCEPT ![c] = h],
           s1' \in Supervisor!Statuses, s2' \in Seq(Supervisor!Planned),
           s3' \in Supervisor!Levels, UNCHANGED <<s4, s5, s8, s9, s10>>,
           Onward, Supervisor!Unapproved => s1' \in {"awaiting_approval"} \cup Supervisor!Settled,
           place = "idle" \/ Supervisor!Founded(c)'
    PROVE  Supervisor!Cleared'
<1>1. /\ s6 \in [Callers -> Supervisor!Places] /\ s7 \in [Callers -> Supervisor!Held]
      /\ s5 \in Supervisor!Levels \cup {Supervisor!Unasked}
  BY DEF Supervisor!Cleared, Supervisor!SupervisorTypeOK
<1>2. Supervisor!SupervisorTypeOK'
  BY <1>1 DEF Supervisor!SupervisorTypeOK
<1>3. \A k \in Callers \ {c} : s6'[k] = s6[k] /\ s7'[k] = s7[k]
  BY <1>1
<1>4. Supervisor!Founded(c)'
  BY <1>1 DEF Supervisor!Founded, Supervisor!PastPlanning, Supervisor!Resuming
<1>5. Supervisor!MergedWasCleared'
  BY DEF Supervisor!Cleared, Supervisor!MergedWasCleared
<1>6. Warned /\ s9' = s9
  BY DEF Warned
<1>7. Supervisor!Unapproved' => Supervisor!Unapproved
  BY DEF Supervisor!Unapproved
<1> QED
  BY <1>2, <1>3, <1>4, <1>5, <1>6, <1>7, SupervisorStep

(* A move that is made, or not and ends the call.                            *)
LEMMA MoveKeeps ==
    ASSUME Supervisor!Cleared, NEW c \in Callers, NEW at,
           NEW from \in Supervisor!Statuses \ Supervisor!Settled,
           NEW to \in Supervisor!Statuses, "awaiting_approval" \notin {from, to},
           from \notin Supervisor!Early => to \notin Supervisor!Early,
           NEW place \in Supervisor!Places, Supervisor!Move(c, at, from, to, place),
           UNCHANGED <<s8, s9, s10>>,
           \/ place = "idle"
           \/ /\ s6[c] = at /\ s1 \in {from, to} /\ s1' = to /\ s6'[c] = place /\ s7'[c] = s7[c]
              /\ UNCHANGED <<s4, s9, s10>>
              => Supervisor!Founded(c)'
    PROVE  Supervisor!Cleared'
<1>1. /\ s6 \in [Callers -> Supervisor!Places] /\ s7 \in [Callers -> Supervisor!Held]
      /\ s1 \in Supervisor!Statuses /\ s2 \in Seq(Supervisor!Planned) /\ s3 \in Supervisor!Levels
      /\ Supervisor!Unapproved => s1 \in {"awaiting_approval"} \cup Supervisor!Settled
  BY DEF Supervisor!Cleared, Supervisor!SupervisorTypeOK
<1>2. /\ s6[c] = at /\ UNCHANGED <<s2, s3, s4, s5>>
      /\ s1' = IF s1 \in {from, to} THEN to ELSE s1
  BY DEF Supervisor!Move, Supervisor!Transition, Supervisor!Reaches
<1>3. s1' \in Supervisor!Statuses /\ s2' \in Seq(Supervisor!Planned) /\ s3' \in Supervisor!Levels
  BY <1>1, <1>2
<1>4. Onward
  BY <1>2 DEF Onward
<1>5. Supervisor!Unapproved => s1' \in {"awaiting_approval"} \cup Supervisor!Settled
  BY <1>1, <1>2
<1>6. CASE Supervisor!Leave(c)
  <2>1. /\ s6' = [s6 EXCEPT ![c] = "idle"] /\ s7' = [s7 EXCEPT ![c] = Supervisor!Nothing]
        /\ "idle" \in Supervisor!Places
    BY <1>6 DEF Supervisor!Leave, Supervisor!Go, Supervisor!Hold, Supervisor!Places
  <2> QED
    BY <1>2, <1>3, <1>4, <1>5, <2>1, NothingIsHeld, ThreadMoves
<1>7. CASE s1 \in {from, to} /\ place # "idle" /\ Supervisor!Goes(c, place)
  <2>1. s6' = [s6 EXCEPT ![c] = place] /\ s7' = s7
    BY <1>7 DEF Supervisor!Goes, Supervisor!Go
  <2>2. s7' = [s7 EXCEPT ![c] = s7[c]] /\ s7[c] \in Supervisor!Held /\ s6'[c] = place
    BY <1>1, <2>1
  <2>3. Supervisor!Founded(c)'
    BY <1>2, <1>7, <2>1, <2>2
  <2> QED
    BY <1>2, <1>3, <1>4, <1>5, <2>1, <2>2, <2>3, ThreadMoves
<1> QED
  BY <1>6, <1>7 DEF Supervisor!Move, Supervisor!Reaches

(* Which statuses are early and which are an end.                            *)
LEMMA StatusFacts ==
    /\ Supervisor!Settled \subseteq Supervisor!Statuses /\ Supervisor!Early \subseteq Supervisor!Statuses
    /\ Supervisor!Settled \cap Supervisor!Early = {}
    /\ Supervisor!Settled = {"blocked", "failed", "cancelled", "completed"}
    /\ Supervisor!Early = {"none", "created", "validating", "planning", "awaiting_approval"}
    /\ {"preparing_branch", "generating_missions", "executing", "validating_results", "merging",
        "ready_for_merge", "ready_for_deployment"}
       \subseteq Supervisor!Statuses \ (Supervisor!Early \cup Supervisor!Settled)
  BY DEF Supervisor!Settled, Supervisor!Statuses, Supervisor!Early

(* What the thread that steps holds and counts on.                           *)
LEMMA ThreadFacts ==
    ASSUME Supervisor!Cleared, NEW c \in Callers
    PROVE  /\ s6 \in [Callers -> Supervisor!Places] /\ s7 \in [Callers -> Supervisor!Held]
           /\ s7[c] \in Supervisor!Held /\ Supervisor!Founded(c)
           /\ s1 \in Supervisor!Statuses /\ s2 \in Seq(Supervisor!Planned)
           /\ s3 \in Supervisor!Levels /\ s5 \in Supervisor!Levels \cup {Supervisor!Unasked}
           /\ Supervisor!Unapproved => s1 \in {"awaiting_approval"} \cup Supervisor!Settled
           /\ Supervisor!MergedWasCleared
  BY DEF Supervisor!Cleared, Supervisor!SupervisorTypeOK

LEMMA LeavingFacts ==
    ASSUME NEW c \in Callers, Supervisor!Leave(c)
    PROVE  /\ s6' = [s6 EXCEPT ![c] = "idle"] /\ s7' = [s7 EXCEPT ![c] = Supervisor!Nothing]
           /\ "idle" \in Supervisor!Places
  BY DEF Supervisor!Leave, Supervisor!Go, Supervisor!Hold, Supervisor!Places

(* A thread leaves, and nothing else happens but that the run is created.    *)
LEMMA LeaveKeeps ==
    ASSUME Supervisor!Cleared, NEW c \in Callers, Supervisor!Leave(c),
           s3' \in Supervisor!Levels, UNCHANGED <<s1, s2, s4, s5, s8, s9, s10>>
    PROVE  Supervisor!Cleared'
  BY ThreadFacts, LeavingFacts, NothingIsHeld, ThreadMoves DEF Onward

(* A thread goes on with the run as it is.                                   *)
LEMMA GoKeeps ==
    ASSUME Supervisor!Cleared, NEW c \in Callers, NEW place \in Supervisor!Places,
           NEW h \in Supervisor!Held,
           s6' = [s6 EXCEPT ![c] = place], s7' = [s7 EXCEPT ![c] = h],
           s3' \in Supervisor!Levels, UNCHANGED <<s1, s2, s4, s5, s8, s9, s10>>,
           s6'[c] = place /\ s7'[c] = h => Supervisor!Founded(c)'
    PROVE  Supervisor!Cleared'
<1>1. s6'[c] = place /\ s7'[c] = h
  BY ThreadFacts
<1> QED
  BY <1>1, ThreadFacts, ThreadMoves DEF Onward

LEMMA GoesFacts ==
    ASSUME Supervisor!Cleared, NEW c \in Callers, NEW place, Supervisor!Goes(c, place)
    PROVE  s6' = [s6 EXCEPT ![c] = place] /\ s7' = [s7 EXCEPT ![c] = s7[c]]
  BY ThreadFacts DEF Supervisor!Goes, Supervisor!Go

(* Up to the plan, and what needs an approval to where it waits for one.     *)
LEMMA PlanningKeeps ==
    ASSUME Supervisor!Cleared, NEW c \in Callers,
           \/ Supervisor!Run(c) \/ Supervisor!Begin(c) \/ Supervisor!CheckRequest(c)
           \/ Supervisor!MakePlan(c) \/ Supervisor!AwaitApproval(c) \/ Supervisor!Prepare(c)
    PROVE  Supervisor!Cleared'
<1>a. /\ s6 \in [Callers -> Supervisor!Places] /\ s7 \in [Callers -> Supervisor!Held]
      /\ s7[c] \in Supervisor!Held /\ Supervisor!Founded(c)
      /\ s1 \in Supervisor!Statuses /\ s2 \in Seq(Supervisor!Planned)
      /\ s3 \in Supervisor!Levels /\ s5 \in Supervisor!Levels \cup {Supervisor!Unasked}
      /\ Supervisor!Unapproved => s1 \in {"awaiting_approval"} \cup Supervisor!Settled
  BY ThreadFacts
<1>b. /\ {"idle", "created", "validating", "validated", "planning", "gate", "prepare", "branch"}
         \subseteq Supervisor!Places
      /\ {"idle", "created", "validating", "validated", "planning", "gate", "prepare"}
         \cap (Supervisor!PastPlanning \cup Supervisor!Resuming) = {}
      /\ "branch" \notin Supervisor!Resuming
  BY DEF Supervisor!Places, Supervisor!PastPlanning, Supervisor!Resuming
<1>1. CASE Supervisor!Run(c)
  <2>1. /\ s6' = [s6 EXCEPT ![c] = "created"] /\ s7' = [s7 EXCEPT ![c] = s7[c]]
        /\ s1' = IF s1 = "none" THEN "created" ELSE s1
        /\ UNCHANGED <<s2, s3, s4, s5, s8, s9, s10>>
    BY <1>1, GoesFacts DEF Supervisor!Run, Supervisor!Create, Supervisor!history_vars
  <2>2. s1' \in Supervisor!Statuses /\ Onward
    BY <1>a, <2>1, StatusFacts DEF Onward
  <2>3. Supervisor!Unapproved => s1' \in {"awaiting_approval"} \cup Supervisor!Settled
    BY <1>a, <2>1, StatusFacts
  <2>4. Supervisor!Founded(c)'
    BY <1>a, <1>b, <2>1 DEF Supervisor!Founded
  <2> QED
    BY <1>a, <1>b, <2>1, <2>2, <2>3, <2>4, ThreadMoves
<1>2. CASE Supervisor!Begin(c)
  <2>1. UNCHANGED <<s8, s9, s10>>
    BY <1>2 DEF Supervisor!Begin, Supervisor!history_vars
  <2>2. ASSUME NEW place \in {"validating", "planning"}, s6'[c] = place, UNCHANGED s10
        PROVE  Supervisor!Founded(c)'
    BY <1>b, <2>2 DEF Supervisor!Founded
  <2>3. CASE Supervisor!Move(c, "created", "created", "validating", "validating")
    BY <1>b, <2>1, <2>2, <2>3, StatusFacts, MoveKeeps
  <2>4. CASE Supervisor!Move(c, "validated", "validating", "planning", "planning")
    BY <1>b, <2>1, <2>2, <2>4, StatusFacts, MoveKeeps
  <2> QED
    BY <1>2, <2>3, <2>4 DEF Supervisor!Begin
<1>3. CASE Supervisor!CheckRequest(c)
  <2>1. UNCHANGED <<s2, s3, s4, s5>>
    BY <1>3 DEF Supervisor!CheckRequest
  <2>2. CASE s1' = "failed" /\ Supervisor!Leave(c) /\ Supervisor!Warn(Supervisor!BeforeMerge)
    <3>1. /\ s1' \in Supervisor!Settled /\ s1' \in Supervisor!Statuses /\ s1' \notin Supervisor!Early
      BY <2>2, StatusFacts
    <3>2. s10' = s10 \cup Supervisor!BeforeMerge /\ UNCHANGED <<s8, s9>>
      BY <2>2 DEF Supervisor!Warn
    <3>3. /\ s6' = [s6 EXCEPT ![c] = "idle"] /\ s7' = [s7 EXCEPT ![c] = Supervisor!Nothing]
      BY <2>2, LeavingFacts
    <3>4. Supervisor!SupervisorTypeOK'
      BY <1>a, <1>b, <2>1, <3>1, <3>3, NothingIsHeld DEF Supervisor!SupervisorTypeOK
    <3>5. Onward /\ Warned
      BY <2>1, <3>1, <3>2 DEF Onward, Warned, Supervisor!BeforeMerge
    <3>6. \A k \in Callers : (s6'[k] = s6[k] /\ s7'[k] = s7[k]) \/ s6'[k] = "idle"
      BY <1>a, <3>3
    <3>7. \A k \in Callers : s6'[k] = "idle" => Supervisor!Founded(k)'
      BY <1>b DEF Supervisor!Founded
    <3>8. Supervisor!MergedWasCleared'
      BY <3>2 DEF Supervisor!Cleared, Supervisor!MergedWasCleared
    <3> QED
      BY <3>1, <3>2, <3>4, <3>5, <3>6, <3>7, <3>8, SupervisorStep
  <2>3. CASE UNCHANGED <<s1, s8, s9, s10>> /\ Supervisor!Leave(c)
    BY <1>a, <2>1, <2>3, LeaveKeeps
  <2>4. CASE UNCHANGED <<s1, s8, s9, s10>> /\ Supervisor!Goes(c, "validated")
    <3>1. s6'[c] = "validated" => Supervisor!Founded(c)'
      BY <1>b DEF Supervisor!Founded
    <3> QED
      BY <1>a, <1>b, <2>1, <2>4, <3>1, GoesFacts, GoKeeps
  <2> QED
    BY <1>3, <2>2, <2>3, <2>4 DEF Supervisor!CheckRequest, Supervisor!history_vars
<1>4. CASE Supervisor!MakePlan(c)
  <2>1. s6[c] = "planning" /\ UNCHANGED <<s1, s2, s4, s5, s8, s9, s10>>
    BY <1>4 DEF Supervisor!MakePlan, Supervisor!history_vars
  <2>2. CASE Supervisor!Leave(c) /\ UNCHANGED s3
    BY <1>a, <2>1, <2>2, LeaveKeeps
  <2>3. ASSUME NEW level \in Calculated, NEW place \in {"gate", "prepare"},
               LET risk == Supervisor!RiskOf(level) IN
               /\ s3' = risk
               /\ Supervisor!Hold(c, [s7[c] EXCEPT !.missions = MissionPlan, !.risk = risk, !.assessed = level])
               /\ Supervisor!Go(c, place)
        PROVE  Supervisor!Cleared'
    <3> DEFINE risk == Supervisor!RiskOf(level)
               h == [s7[c] EXCEPT !.missions = MissionPlan, !.risk = risk, !.assessed = level]
    <3>1. level \in Supervisor!Levels /\ risk \in Supervisor!Levels
      BY <1>a, SupervisorAssumption DEF Supervisor!RiskOf
    <3>2. s3' = risk /\ s7' = [s7 EXCEPT ![c] = h] /\ s6' = [s6 EXCEPT ![c] = place]
      BY <2>3 DEF Supervisor!Hold, Supervisor!Go
    <3>3. h \in Supervisor!Held /\ h.missions = MissionPlan
      BY <1>a, <3>1, SupervisorAssumption DEF Supervisor!Held
    <3> HIDE DEF risk, h
    <3>4. s6'[c] = place /\ s7'[c] = h => Supervisor!Founded(c)'
      BY <1>a, <1>b, <2>1, <3>3 DEF Supervisor!Founded
    <3> QED
      BY <1>a, <1>b, <2>1, <3>1, <3>2, <3>3, <3>4, GoKeeps
  <2> QED
    BY <1>4, <2>2, <2>3 DEF Supervisor!MakePlan
<1>5. CASE Supervisor!AwaitApproval(c)
  <2>1. /\ s9' = (s9 \/ s1 \in {"planning", "awaiting_approval"})
        /\ s1' = IF s1 \in {"planning", "awaiting_approval"} THEN "awaiting_approval" ELSE s1
        /\ Supervisor!Leave(c) /\ UNCHANGED <<s2, s3, s4, s5, s8, s10>>
    BY <1>5 DEF Supervisor!AwaitApproval, Supervisor!Move, Supervisor!Transition, Supervisor!Reaches
  <2>2. s6' = [s6 EXCEPT ![c] = "idle"] /\ s7' = [s7 EXCEPT ![c] = Supervisor!Nothing]
    BY <2>1, LeavingFacts
  <2>3. s1' \in Supervisor!Statuses /\ Onward /\ Warned /\ (s9' => s9 \/ s1 \in Supervisor!Early)
    BY <1>a, <2>1, StatusFacts DEF Onward, Warned
  <2>4. Supervisor!SupervisorTypeOK'
    BY <1>a, <1>b, <2>1, <2>2, <2>3, NothingIsHeld DEF Supervisor!SupervisorTypeOK
  <2>5. Supervisor!Unapproved' => s1' \in {"awaiting_approval"} \cup Supervisor!Settled
    BY <1>a, <2>1, StatusFacts DEF Supervisor!Unapproved
  <2>6. \A k \in Callers : (s6'[k] = s6[k] /\ s7'[k] = s7[k]) \/ s6'[k] = "idle"
    BY <1>a, <2>2
  <2>7. \A k \in Callers : s6'[k] = "idle" => Supervisor!Founded(k)'
    BY <1>b DEF Supervisor!Founded
  <2>8. Supervisor!MergedWasCleared'
    BY <2>1 DEF Supervisor!Cleared, Supervisor!MergedWasCleared
  <2> QED
    BY <2>3, <2>4, <2>5, <2>6, <2>7, <2>8, SupervisorStep
<1>6. CASE Supervisor!Prepare(c)
  <2>1. Supervisor!Move(c, "prepare", "planning", "preparing_branch", "branch") /\ UNCHANGED <<s8, s9, s10>>
    BY <1>6 DEF Supervisor!Prepare, Supervisor!history_vars
  <2>2. ASSUME s6[c] = "prepare", s1 \in {"planning", "preparing_branch"}, s1' = "preparing_branch",
               s6'[c] = "branch", s7'[c] = s7[c], UNCHANGED <<s4, s9, s10>>
        PROVE  Supervisor!Founded(c)'
    <3>1. ~Supervisor!Unapproved'
      BY <1>a, <2>2, StatusFacts DEF Supervisor!Unapproved
    <3>2. s1' \notin Supervisor!Early
      BY <2>2, StatusFacts
    <3> QED
      BY <1>a, <1>b, <2>2, <3>1, <3>2 DEF Supervisor!Founded
  <2> QED
    BY <1>b, <2>1, <2>2, StatusFacts, MoveKeeps
<1> QED
  BY <1>1, <1>2, <1>3, <1>4, <1>5, <1>6

(* From the branch to the validation: with a plan, or with an approval.      *)
LEMMA ExecutionKeeps ==
    ASSUME Supervisor!Cleared, NEW c \in Callers,
           \/ Supervisor!Resume(c) \/ Supervisor!PrepareBranch(c) \/ Supervisor!Generate(c)
           \/ Supervisor!StartExecution(c) \/ Supervisor!ExecuteMission(c)
           \/ Supervisor!EndExecution(c) \/ \E b \in BOOLEAN : Supervisor!FinalValidation(c, b)
    PROVE  Supervisor!Cleared'
<1>a. /\ s6 \in [Callers -> Supervisor!Places] /\ s7 \in [Callers -> Supervisor!Held]
      /\ s7[c] \in Supervisor!Held /\ Supervisor!Founded(c)
      /\ s1 \in Supervisor!Statuses /\ s2 \in Seq(Supervisor!Planned)
      /\ s3 \in Supervisor!Levels /\ s5 \in Supervisor!Levels \cup {Supervisor!Unasked}
      /\ Supervisor!Unapproved => s1 \in {"awaiting_approval"} \cup Supervisor!Settled
  BY ThreadFacts
<1>b. /\ {"resume_branch", "resume_generate"} = Supervisor!Resuming
      /\ Supervisor!Resuming \subseteq Supervisor!Places \ Supervisor!PastPlanning
      /\ {"branch", "generate", "generated", "execute", "validate", "refuse", "ready"}
         \subseteq Supervisor!PastPlanning
      /\ Supervisor!PastPlanning \subseteq Supervisor!Places
      /\ Supervisor!PastPlanning \cap {"idle", "resume_branch", "resume_generate", "gate", "prepare"} = {}
  BY DEF Supervisor!Places, Supervisor!PastPlanning, Supervisor!Resuming
(* A thread that stays past planning, with the run and its plan as they are. *)
<1>c. ASSUME s6[c] \in Supervisor!PastPlanning,
             NEW place \in Supervisor!PastPlanning \ {"enter_merge", "merge"},
             NEW h \in Supervisor!Held, h.missions = s7[c].missions, h.resumed = s7[c].resumed,
             place = "ready" => h.passed,
             s6' = [s6 EXCEPT ![c] = place], s7' = [s7 EXCEPT ![c] = h],
             UNCHANGED <<s1, s2, s3, s4, s5, s8, s9, s10>>
      PROVE  Supervisor!Cleared'
  <2>1. s6'[c] = place /\ s7'[c] = h => Supervisor!Founded(c)'
    BY <1>a, <1>b, <1>c DEF Supervisor!Founded, Supervisor!Unapproved
  <2> QED
    BY <1>a, <1>b, <1>c, <2>1, GoKeeps
<1>1. CASE Supervisor!Resume(c)
  <2> DEFINE h == [Supervisor!Nothing EXCEPT !.missions = s2, !.risk = s3, !.assessed = s3, !.resumed = TRUE]
  <2>1. /\ "approved" \in s4 /\ s6' = [s6 EXCEPT ![c] = "resume_branch"] /\ s7' = [s7 EXCEPT ![c] = h]
        /\ UNCHANGED <<s1, s2, s3, s4, s5, s8, s9, s10>>
    BY <1>1 DEF Supervisor!Resume, Supervisor!Hold, Supervisor!Go, Supervisor!store_vars,
                Supervisor!history_vars
  <2>2. h \in Supervisor!Held /\ h.resumed
    BY <1>a, NothingIsHeld DEF Supervisor!Held
  <2> HIDE DEF h
  <2>3. s6'[c] = "resume_branch" /\ s7'[c] = h => Supervisor!Founded(c)'
    BY <1>b, <2>1, <2>2 DEF Supervisor!Founded
  <2> QED
    BY <1>a, <1>b, <2>1, <2>2, <2>3, GoKeeps
<1>2. CASE Supervisor!PrepareBranch(c)
  <2>1. UNCHANGED <<s1, s2, s3, s4, s5, s8, s9, s10>>
    BY <1>2 DEF Supervisor!PrepareBranch, Supervisor!store_vars, Supervisor!history_vars
  <2>2. CASE s6[c] = "branch" /\ Supervisor!Goes(c, "generate")
    BY <1>a, <1>b, <1>c, <2>1, <2>2, GoesFacts
  <2>3. CASE s6[c] = "resume_branch" /\ Supervisor!Goes(c, "resume_generate")
    <3>1. s6'[c] = "resume_generate" /\ s7'[c] = s7[c] => Supervisor!Founded(c)'
      BY <1>a, <1>b, <2>1, <2>3 DEF Supervisor!Founded
    <3> QED
      BY <1>a, <1>b, <2>1, <2>3, <3>1, GoesFacts, GoKeeps
  <2>4. CASE Supervisor!Leave(c)
    BY <1>a, <2>1, <2>4, LeaveKeeps
  <2> QED
    BY <1>2, <2>2, <2>3, <2>4 DEF Supervisor!PrepareBranch, Supervisor!Goes
<1>3. CASE Supervisor!Generate(c)
  <2> DEFINE from == IF s6[c] = "generate" THEN "preparing_branch" ELSE "awaiting_approval"
             h == [s7[c] EXCEPT !.todo = s7[c].missions]
  <2>1. /\ s6[c] \in {"generate", "resume_generate"} /\ UNCHANGED <<s3, s4, s5, s8, s9, s10>>
        /\ s1' = IF s1 \in {from, "generating_missions"} THEN "generating_missions" ELSE s1
    BY <1>3 DEF Supervisor!Generate, Supervisor!Reaches, Supervisor!history_vars
  <2>2. CASE s1 \in {from, "generating_missions"}
    <3>1. s2' = s7[c].missions /\ s7' = [s7 EXCEPT ![c] = h] /\ s6' = [s6 EXCEPT ![c] = "generated"]
      BY <1>3, <2>2 DEF Supervisor!Generate, Supervisor!Reaches, Supervisor!Hold, Supervisor!Go
    <3>2. /\ s1' \in Supervisor!Statuses /\ s1' \notin Supervisor!Early /\ s1 \notin Supervisor!Settled
      BY <2>1, <2>2, StatusFacts
    <3>3. h \in Supervisor!Held /\ h.missions = s7[c].missions /\ h.resumed = s7[c].resumed
      BY <1>a DEF Supervisor!Held
    <3>4. ~Supervisor!Unapproved
      BY <1>a, <1>b, <2>1 DEF Supervisor!Founded, Supervisor!Unapproved
    <3>5. s7[c].missions \in Seq(Supervisor!Planned)
      BY <1>a DEF Supervisor!Held
    <3> HIDE DEF h, from
    <3>6. s6'[c] = "generated" /\ s7'[c] = h
      BY <1>a, <3>1
    <3>7. Supervisor!Founded(c)'
      BY <1>a, <1>b, <2>1, <3>2, <3>3, <3>4, <3>6 DEF Supervisor!Founded, Supervisor!Unapproved
    <3>8. Onward
      BY <2>1, <3>2 DEF Onward
    <3> QED
      BY <1>a, <1>b, <2>1, <3>1, <3>2, <3>3, <3>4, <3>5, <3>7, <3>8, ThreadMoves
  <2>3. CASE s1 \notin {from, "generating_missions"}
    <3>1. UNCHANGED s2 /\ Supervisor!Leave(c)
      BY <1>3, <2>3 DEF Supervisor!Generate, Supervisor!Reaches
    <3> QED
      BY <1>a, <2>1, <2>3, <3>1, LeaveKeeps
  <2> QED
    BY <2>2, <2>3
<1>4. CASE Supervisor!StartExecution(c)
  <2>1. /\ Supervisor!Move(c, "generated", "generating_missions", "executing", "execute")
        /\ UNCHANGED <<s8, s9, s10>>
    BY <1>4 DEF Supervisor!StartExecution, Supervisor!history_vars
  <2>2. ASSUME s6[c] = "generated", s1' = "executing",
               s6'[c] = "execute", s7'[c] = s7[c], UNCHANGED <<s4, s9, s10>>
        PROVE  Supervisor!Founded(c)'
    BY <1>a, <1>b, <2>2, StatusFacts DEF Supervisor!Founded, Supervisor!Unapproved
  <2> QED
    BY <1>b, <2>1, <2>2, StatusFacts, MoveKeeps
<1>5. CASE Supervisor!ExecuteMission(c)
  <2>1. s6[c] = "execute" /\ s7[c].todo # <<>> /\ UNCHANGED <<s1, s2, s3, s4, s5, s8, s9, s10>>
    BY <1>5 DEF Supervisor!ExecuteMission, Supervisor!store_vars, Supervisor!history_vars
  <2>2. CASE Supervisor!Leave(c)
    BY <1>a, <2>1, <2>2, LeaveKeeps
  <2> DEFINE H == {Supervisor!LeavesOut(s7[c]), Supervisor!Completes(s7[c]),
                   [s7[c] EXCEPT !.attempt = @ + 1, !.retries = @ + 1]}
  <2>3. ASSUME NEW h \in H, Supervisor!Hold(c, h), UNCHANGED s6
        PROVE  Supervisor!Cleared'
    <3>1. /\ Head(s7[c].todo) \in Supervisor!Planned /\ Tail(s7[c].todo) \in Seq(Supervisor!Planned)
      BY <1>a, <2>1 DEF Supervisor!Held
    <3>2. /\ Supervisor!NextMission(s7[c]) \in Supervisor!Held
          /\ Supervisor!NextMission(s7[c]).missions = s7[c].missions
          /\ Supervisor!NextMission(s7[c]).resumed = s7[c].resumed
      BY <1>a, <3>1 DEF Supervisor!NextMission, Supervisor!Held
    <3>3. ASSUME NEW a \in Nat, NEW r \in Nat
          PROVE  LET g == [s7[c] EXCEPT !.attempt = a, !.retries = r]
                 IN  g \in Supervisor!Held /\ g.missions = s7[c].missions /\ g.resumed = s7[c].resumed
      BY <1>a DEF Supervisor!Held
    <3>4. s7[c].attempt + 1 \in Nat /\ s7[c].retries + 1 \in Nat
      BY <1>a DEF Supervisor!Held
    <3>5. h \in Supervisor!Held /\ h.missions = s7[c].missions /\ h.resumed = s7[c].resumed
      <4> DEFINE g == Supervisor!NextMission(s7[c])
                 m == Head(s7[c].todo)
      <4>1. CASE h \in {[g EXCEPT !.unfinished = @ \cup {m}], [g EXCEPT !.done = @ \cup {m}]}
        <5> HIDE DEF g, m
        <5>1. g \in Supervisor!Held /\ g.missions = s7[c].missions /\ g.resumed = s7[c].resumed
              /\ m \in Supervisor!Planned
          BY <3>1, <3>2 DEF g, m
        <5>2. ASSUME NEW x \in {[g EXCEPT !.unfinished = @ \cup {m}], [g EXCEPT !.done = @ \cup {m}]}
              PROVE  x \in Supervisor!Held /\ x.missions = g.missions /\ x.resumed = g.resumed
          BY <5>1, <5>2 DEF Supervisor!Held
        <5> QED
          BY <4>1, <5>1, <5>2
      <4>2. CASE h = [s7[c] EXCEPT !.attempt = @ + 1, !.retries = @ + 1]
        BY <3>3, <3>4, <4>2
      <4> QED
        BY <4>1, <4>2 DEF Supervisor!LeavesOut, Supervisor!Completes
    <3>6. s6' = [s6 EXCEPT ![c] = "execute"] /\ s7' = [s7 EXCEPT ![c] = h]
      BY <1>a, <2>1, <2>3 DEF Supervisor!Hold
    <3> QED
      BY <1>b, <1>c, <2>1, <3>5, <3>6
  <2> HIDE DEF H
  <2>4. \/ Supervisor!Leave(c)
        \/ \E h \in H : Supervisor!Hold(c, h) /\ UNCHANGED s6
    BY <1>5 DEF Supervisor!ExecuteMission, H
  <2> QED
    BY <2>2, <2>3, <2>4
<1>6. CASE Supervisor!EndExecution(c)
  <2>1. /\ Supervisor!Move(c, "execute", "executing", "validating_results", "validate")
        /\ UNCHANGED <<s8, s9, s10>>
    BY <1>6 DEF Supervisor!EndExecution, Supervisor!history_vars
  <2>2. ASSUME s6[c] = "execute", s1' = "validating_results",
               s6'[c] = "validate", s7'[c] = s7[c], UNCHANGED <<s4, s9, s10>>
        PROVE  Supervisor!Founded(c)'
    BY <1>a, <1>b, <2>2, StatusFacts DEF Supervisor!Founded, Supervisor!Unapproved
  <2> QED
    BY <1>b, <2>1, <2>2, StatusFacts, MoveKeeps
<1>7. ASSUME NEW b \in BOOLEAN, Supervisor!FinalValidation(c, b)
      PROVE  Supervisor!Cleared'
  <2> DEFINE h == [s7[c] EXCEPT !.passed = b]
             place == IF b THEN "ready" ELSE "refuse"
  <2>1. /\ s6[c] = "validate" /\ s6' = [s6 EXCEPT ![c] = place] /\ s7' = [s7 EXCEPT ![c] = h]
        /\ UNCHANGED <<s1, s2, s3, s4, s5, s8, s9, s10>>
    BY <1>7 DEF Supervisor!FinalValidation, Supervisor!Hold, Supervisor!Go, Supervisor!store_vars,
                Supervisor!history_vars
  <2>2. h \in Supervisor!Held /\ h.missions = s7[c].missions /\ h.resumed = s7[c].resumed /\ h.passed = b
    BY <1>a DEF Supervisor!Held
  <2>3. place \in Supervisor!PastPlanning \ {"enter_merge", "merge"} /\ (place = "ready" => b)
    BY <1>b
  <2> HIDE DEF h, place
  <2> QED
    BY <1>b, <1>c, <2>1, <2>2, <2>3
<1> QED
  BY <1>1, <1>2, <1>3, <1>4, <1>5, <1>6, <1>7

(* From the validation to the merge, which rests on what was found then.     *)
LEMMA MergingKeeps ==
    ASSUME Supervisor!Cleared, NEW c \in Callers,
           \/ Supervisor!DecideMerge(c) \/ Supervisor!EnterMerge(c)
           \/ (\E b \in BOOLEAN : Supervisor!AttemptMerge(c, b)) \/ Supervisor!Finish(c)
    PROVE  Supervisor!Cleared'
<1>a. /\ s6 \in [Callers -> Supervisor!Places] /\ s7 \in [Callers -> Supervisor!Held]
      /\ s7[c] \in Supervisor!Held /\ Supervisor!Founded(c)
      /\ s1 \in Supervisor!Statuses /\ s2 \in Seq(Supervisor!Planned)
      /\ s3 \in Supervisor!Levels /\ s5 \in Supervisor!Levels \cup {Supervisor!Unasked}
      /\ Supervisor!Unapproved => s1 \in {"awaiting_approval"} \cup Supervisor!Settled
      /\ Supervisor!MergedWasCleared
  BY ThreadFacts
<1>b. /\ {"ready", "enter_merge", "merge", "merged", "unmerged", "hold", "held"}
         \subseteq Supervisor!PastPlanning
      /\ Supervisor!PastPlanning \subseteq Supervisor!Places
      /\ Supervisor!PastPlanning \cap {"idle", "resume_branch", "resume_generate", "gate", "prepare"} = {}
      /\ Supervisor!Resuming = {"resume_branch", "resume_generate"}
      /\ "idle" \in Supervisor!Places
  BY DEF Supervisor!Places, Supervisor!PastPlanning, Supervisor!Resuming
<1>1. CASE Supervisor!DecideMerge(c)
  <2> DEFINE place == IF Supervisor!MergeReady(c) THEN "enter_merge" ELSE "hold"
  <2>1. /\ s6[c] = "ready" /\ Supervisor!Goes(c, place)
        /\ UNCHANGED <<s1, s2, s3, s4, s5, s8, s9, s10>>
    BY <1>1 DEF Supervisor!DecideMerge, Supervisor!store_vars, Supervisor!history_vars
  <2>2. Supervisor!MergeReady(c) => s7[c].risk \in AutoMerge /\ "rejected" \notin s4
    BY DEF Supervisor!MergeReady
  <2>3. "rejected" \notin s4 /\ c \in s10 => s1 \in Supervisor!Settled
    BY DEF Supervisor!Cleared
  <2>4. s6' = [s6 EXCEPT ![c] = place] /\ s7' = [s7 EXCEPT ![c] = s7[c]]
    BY <2>1, GoesFacts
  <2>5. place \in {"enter_merge", "hold"} /\ (place = "enter_merge" => Supervisor!MergeReady(c))
    OBVIOUS
  <2> HIDE DEF place
  <2>6. s6'[c] = place /\ s7'[c] = s7[c] => Supervisor!Founded(c)'
    BY <1>a, <1>b, <2>1, <2>2, <2>3, <2>5 DEF Supervisor!Founded, Supervisor!Unapproved
  <2> QED
    BY <1>a, <1>b, <2>1, <2>4, <2>5, <2>6, GoKeeps
<1>2. CASE Supervisor!EnterMerge(c)
  <2>1. Supervisor!Move(c, "enter_merge", "validating_results", "merging", "merge") /\ UNCHANGED <<s8, s9, s10>>
    BY <1>2 DEF Supervisor!EnterMerge, Supervisor!history_vars
  <2>2. ASSUME s6[c] = "enter_merge", s1 \in {"validating_results", "merging"}, s1' = "merging",
               s6'[c] = "merge", s7'[c] = s7[c], UNCHANGED <<s4, s9, s10>>
        PROVE  Supervisor!Founded(c)'
    <3>1. c \notin s10 /\ s1' \notin Supervisor!Early
      BY <1>a, <2>2, StatusFacts DEF Supervisor!Founded
    <3> QED
      BY <1>a, <1>b, <2>2, <3>1 DEF Supervisor!Founded, Supervisor!Unapproved
  <2> QED
    BY <1>b, <2>1, <2>2, StatusFacts, MoveKeeps
<1>3. ASSUME NEW b \in BOOLEAN, Supervisor!AttemptMerge(c, b)
      PROVE  Supervisor!Cleared'
  <2> DEFINE place == IF b THEN "merged" ELSE "unmerged"
             cleared == s9 => "approved" \in s4
             m == [risk |-> s7[c].risk, assessed |-> s7[c].assessed, passed |-> s7[c].passed,
                   resumed |-> s7[c].resumed, complete |-> s7[c].missions = MissionPlan,
                   warned |-> c \in s10, cleared |-> cleared]
  <2>1. /\ s6[c] = "merge" /\ Supervisor!Goes(c, place)
        /\ UNCHANGED <<s1, s2, s3, s4, s5, s9, s10>>
    BY <1>3 DEF Supervisor!AttemptMerge, Supervisor!store_vars
  <2>2. s8' = IF ~b THEN s8 ELSE s8 \cup {m}
    BY <1>3 DEF Supervisor!AttemptMerge
  <2>3. /\ s7[c].risk \in AutoMerge /\ s7[c].passed
        /\ (s7[c].missions = MissionPlan) \/ s7[c].resumed
        /\ ~(c \in s10) /\ cleared
    BY <1>a, <1>b, <2>1 DEF Supervisor!Founded, Supervisor!Unapproved
  <2>4. /\ m.risk = s7[c].risk /\ m.passed = s7[c].passed /\ m.resumed = s7[c].resumed
        /\ m.complete = (s7[c].missions = MissionPlan) /\ m.warned = (c \in s10) /\ m.cleared = cleared
    OBVIOUS
  <2> HIDE DEF m, cleared
  <2>5. m.risk \in AutoMerge /\ m.passed /\ m.cleared /\ ~m.warned /\ (m.complete \/ m.resumed)
    BY <2>3, <2>4
  <2>6. Supervisor!MergedWasCleared'
    BY <1>a, <2>2, <2>5 DEF Supervisor!MergedWasCleared
  <2>7. s6' = [s6 EXCEPT ![c] = place] /\ s7' = s7 /\ place \in {"merged", "unmerged"}
    BY <2>1 DEF Supervisor!Goes, Supervisor!Go
  <2> HIDE DEF place
  <2>8. Supervisor!SupervisorTypeOK'
    BY <1>a, <1>b, <2>1, <2>7 DEF Supervisor!SupervisorTypeOK
  <2>9. s6'[c] = place /\ \A k \in Callers : k = c \/ s6'[k] = s6[k]
    BY <1>a, <2>7
  <2>10. Supervisor!Founded(c)'
    BY <1>a, <1>b, <2>1, <2>7, <2>9 DEF Supervisor!Founded, Supervisor!Unapproved
  <2>11. Onward /\ Warned /\ s9' = s9 /\ (Supervisor!Unapproved' => Supervisor!Unapproved)
    BY <2>1 DEF Onward, Warned, Supervisor!Unapproved
  <2> QED
    BY <1>a, <2>1, <2>6, <2>7, <2>8, <2>9, <2>10, <2>11, SupervisorStep
<1>4. CASE Supervisor!Finish(c)
  <2>1. UNCHANGED <<s8, s9, s10>>
    BY <1>4 DEF Supervisor!Finish, Supervisor!history_vars
  <2>2. CASE Supervisor!Move(c, "merged", "merging",
                             IF Supervisor!Deploys(c) THEN "ready_for_deployment" ELSE "completed", "idle")
    BY <1>b, <2>1, <2>2, StatusFacts, MoveKeeps
  <2>3. CASE Supervisor!Move(c, "unmerged", "merging", "ready_for_merge", "idle")
    BY <1>b, <2>1, <2>3, StatusFacts, MoveKeeps
  <2>4. ASSUME NEW place \in {"held", "idle"},
               Supervisor!Move(c, "hold", "validating_results", "ready_for_merge", place)
        PROVE  Supervisor!Cleared'
    <3>1. ASSUME s6[c] = "hold", s1' = "ready_for_merge", s6'[c] = "held", s7'[c] = s7[c],
                 UNCHANGED <<s4, s9, s10>>
          PROVE  Supervisor!Founded(c)'
      BY <1>a, <1>b, <3>1, StatusFacts DEF Supervisor!Founded, Supervisor!Unapproved
    <3> QED
      BY <1>b, <2>1, <2>4, <3>1, StatusFacts, MoveKeeps
  <2>5. CASE Supervisor!Move(c, "held", "ready_for_merge", "ready_for_deployment", "idle")
    BY <1>b, <2>1, <2>5, StatusFacts, MoveKeeps
  <2> QED
    BY <1>4, <2>2, <2>3, <2>4, <2>5 DEF Supervisor!Finish
<1> QED
  BY <1>1, <1>2, <1>3, <1>4

(* Whatever ends a run warns the threads that may still merge it.            *)
LEMMA RunEndsKeeps ==
    ASSUME Supervisor!Cleared, s1' \in Supervisor!Settled,
           s10' \subseteq s10 \cup Supervisor!BeforeMerge,
           UNCHANGED <<s2, s3, s4, s5, s8, s9>>,
           s6' \in [Callers -> Supervisor!Places], s7' \in [Callers -> Supervisor!Held],
           \A k \in Callers : (s6'[k] = s6[k] /\ s7'[k] = s7[k]) \/ s6'[k] = "idle"
    PROVE  Supervisor!Cleared'
<1>1. Supervisor!SupervisorTypeOK'
  BY StatusFacts DEF Supervisor!Cleared, Supervisor!SupervisorTypeOK
<1>2. Onward /\ Warned
  BY StatusFacts DEF Onward, Warned, Supervisor!BeforeMerge
<1>3. \A k \in Callers : s6'[k] = "idle" => Supervisor!Founded(k)'
  BY DEF Supervisor!Founded, Supervisor!PastPlanning, Supervisor!Resuming
<1>4. Supervisor!MergedWasCleared'
  BY DEF Supervisor!Cleared, Supervisor!MergedWasCleared
<1> QED
  BY <1>1, <1>2, <1>3, <1>4, SupervisorStep

(* A rejection that is recorded warns the threads that still ask for it.     *)
LEMMA RejectionKeeps ==
    ASSUME Supervisor!Cleared, UNCHANGED <<s1, s2, s3, s5, s8, s9>>,
           s4 \subseteq s4',
           \/ s10' = s10
           \/ s10' = s10 \cup Supervisor!BeforeReadiness /\ "rejected" \in s4',
           s6' \in [Callers -> Supervisor!Places], s7' \in [Callers -> Supervisor!Held],
           \A k \in Callers : (s6'[k] = s6[k] /\ s7'[k] = s7[k]) \/ s6'[k] = "block"
    PROVE  Supervisor!Cleared'
<1>1. Supervisor!SupervisorTypeOK'
  BY DEF Supervisor!Cleared, Supervisor!SupervisorTypeOK
<1>2. Onward /\ Warned
  BY DEF Onward, Warned, Supervisor!BeforeMerge, Supervisor!BeforeReadiness
<1>3. \A k \in Callers : s6'[k] = "block" => Supervisor!Founded(k)'
  BY DEF Supervisor!Founded, Supervisor!PastPlanning, Supervisor!Resuming
<1>4. Supervisor!MergedWasCleared'
  BY DEF Supervisor!Cleared, Supervisor!MergedWasCleared
<1>5. Supervisor!Unapproved' => s1' \in {"awaiting_approval"} \cup Supervisor!Settled
  BY DEF Supervisor!Cleared, Supervisor!Unapproved
<1> QED
  BY <1>1, <1>2, <1>3, <1>4, <1>5, SupervisorStep

LEMMA ReviewKeeps ==
    ASSUME Supervisor!Cleared, NEW c \in Callers,
           Supervisor!FailValidation(c) \/ Supervisor!Reject(c) \/ Supervisor!Block(c)
    PROVE  Supervisor!Cleared'
<1>a. s6 \in [Callers -> Supervisor!Places] /\ s7 \in [Callers -> Supervisor!Held]
  BY ThreadFacts
<1>b. ASSUME Supervisor!Leave(c)
      PROVE  /\ s6' \in [Callers -> Supervisor!Places] /\ s7' \in [Callers -> Supervisor!Held]
             /\ \A k \in Callers : (s6'[k] = s6[k] /\ s7'[k] = s7[k]) \/ s6'[k] = "idle"
  BY <1>a, <1>b, LeavingFacts, NothingIsHeld
<1>1. CASE Supervisor!FailValidation(c)
  <2>1. /\ s1' = IF s1 \in {"validating_results", "failed"} THEN "failed" ELSE s1
        /\ Supervisor!Leave(c) /\ UNCHANGED <<s2, s3, s4, s5>>
        /\ Supervisor!Warn(IF s1 \in {"validating_results", "failed"}
                           THEN Supervisor!BeforeMerge ELSE {})
    BY <1>1 DEF Supervisor!FailValidation, Supervisor!Move, Supervisor!Transition, Supervisor!Reaches
  <2>2. CASE s1 \in {"validating_results", "failed"}
    BY <1>b, <2>1, <2>2, StatusFacts, RunEndsKeeps DEF Supervisor!Warn
  <2>3. CASE s1 \notin {"validating_results", "failed"}
    <3>1. UNCHANGED <<s1, s8, s9, s10>>
      BY <2>1, <2>3 DEF Supervisor!Warn
    <3> QED
      BY <2>1, <3>1, ThreadFacts, LeaveKeeps
  <2> QED
    BY <2>2, <2>3
<1>2. CASE Supervisor!Reject(c)
  <2>1. /\ s4' = s4 \cup {"rejected"} /\ s10' = s10 \cup Supervisor!BeforeReadiness
        /\ s6' = [s6 EXCEPT ![c] = "block"] /\ s7' = s7 /\ UNCHANGED <<s1, s2, s3, s5, s8, s9>>
    BY <1>2 DEF Supervisor!Reject, Supervisor!Goes, Supervisor!Go, Supervisor!Warn
  <2>2. s6' \in [Callers -> Supervisor!Places]
    BY <1>a, <2>1 DEF Supervisor!Places
  <2>3. \A k \in Callers : (s6'[k] = s6[k] /\ s7'[k] = s7[k]) \/ s6'[k] = "block"
    BY <1>a, <2>1
  <2> QED
    BY <1>a, <2>1, <2>2, <2>3, RejectionKeeps
<1>3. CASE Supervisor!Block(c)
  BY <1>3, <1>b, StatusFacts, RunEndsKeeps DEF Supervisor!Block, Supervisor!Warn
<1> QED
  BY <1>1, <1>2, <1>3

LEMMA SupervisorKeeps ==
    ASSUME Supervisor!Cleared, Supervisor!Next \/ UNCHANGED Supervisor!vars
    PROVE  Supervisor!Cleared'
<1>a. s6 \in [Callers -> Supervisor!Places] /\ s7 \in [Callers -> Supervisor!Held]
      /\ s1 \in Supervisor!Statuses /\ s2 \in Seq(Supervisor!Planned)
      /\ s3 \in Supervisor!Levels /\ s5 \in Supervisor!Levels \cup {Supervisor!Unasked}
  BY DEF Supervisor!Cleared, Supervisor!SupervisorTypeOK
<1>1. ASSUME NEW c \in Callers, Supervisor!Step(c)
      PROVE  Supervisor!Cleared'
  BY <1>1, PlanningKeeps, ExecutionKeeps, MergingKeeps, ReviewKeeps DEF Supervisor!Step
<1>2. CASE Supervisor!Submit
  <2>1. s1 = "none" /\ s1' = "created" /\ UNCHANGED <<s2, s3, s4, s5, s6, s7, s8, s9, s10>>
    BY <1>2 DEF Supervisor!Submit, Supervisor!Create, Supervisor!history_vars
  <2>2. Supervisor!SupervisorTypeOK'
    BY <1>a, <2>1, StatusFacts DEF Supervisor!SupervisorTypeOK
  <2>3. Onward /\ Warned /\ ~Supervisor!Unapproved'
    BY <2>1, StatusFacts DEF Onward, Warned, Supervisor!Cleared, Supervisor!Unapproved
  <2>4. Supervisor!MergedWasCleared'
    BY <2>1 DEF Supervisor!Cleared, Supervisor!MergedWasCleared
  <2> QED
    BY <2>1, <2>2, <2>3, <2>4, SupervisorStep
<1>3. CASE Supervisor!Cancel
  BY <1>3, <1>a, StatusFacts, RunEndsKeeps DEF Supervisor!Cancel, Supervisor!Warn
<1>4. ASSUME NEW decision \in {"approved", "rejected"}, Supervisor!Approve(decision)
      PROVE  Supervisor!Cleared'
  <2>1. /\ s4' = s4 \cup {decision} /\ UNCHANGED <<s1, s2, s3, s5, s6, s7, s8, s9>>
        /\ s10' = s10 \cup (IF decision = "rejected" THEN Supervisor!BeforeReadiness ELSE {})
    BY <1>4 DEF Supervisor!Approve, Supervisor!Warn
  <2> QED
    BY <1>a, <2>1, RejectionKeeps
<1>5. CASE UNCHANGED Supervisor!vars
  <2>1. UNCHANGED <<s1, s2, s3, s4, s5, s6, s7, s8, s9, s10>>
    BY <1>5 DEF Supervisor!vars, Supervisor!store_vars, Supervisor!history_vars
  <2> QED
    BY <1>a, <2>1, RejectionKeeps
<1> QED
  BY <1>1, <1>2, <1>3, <1>4, <1>5 DEF Supervisor!Next

(* For any plan, threads, risk levels and retry limits: what is merged was   *)
(* validated, is of a level that merges by itself, was approved where that   *)
(* was asked for, and is not merged by a call that could still heed a        *)
(* rejection, a cancellation or a failure when it came.                      *)
THEOREM MergesAreCleared == AnySpec => []MergedWasCleared
<1> DEFINE Inv == component = "supervisor" => Supervisor!Cleared
<1>1. AnyInit => Inv
  BY SupervisorBegins DEF AnyInit
<1>2. Inv /\ [AnyNext]_AnyVars => Inv'
  BY Selected, SupervisorKeeps
<1>3. Inv => MergedWasCleared
  BY DEF Supervisor!Cleared, MergedWasCleared
<1> QED
  BY <1>1, <1>2, <1>3, PTL DEF AnySpec, AnyVars

-----------------------------------------------------------------------------
(* The patch engine                                                          *)

(* No line says that a file is absent.                                       *)
LEMMA ContentFacts ==
    /\ "absent" \notin Patching!Lines
    /\ Patching!Absent \in Patching!Contents /\ Patching!Base \in Patching!Contents
    /\ Patching!Base \cup {"latin"} \in Patching!Contents
    /\ {} \in Patching!Contents
    /\ \A x \in Patching!Contents : x \ Patching!Absent \subseteq Patching!Lines
    /\ \A x \in Patching!Contents : x # Patching!Absent => x \ Patching!Absent = x
<1>1. "absent" \notin Patching!Lines
  <2>1. \A text \in Patches : "absent" \notin UNION {text[k].adds : k \in DOMAIN text}
    BY PatchAssumption
  <2> QED
    BY <2>1 DEF Patching!Lines, Patching!Base, Patching!Foreign
<1> QED
  BY <1>1 DEF Patching!Contents, Patching!Absent, Patching!Base, Patching!Foreign, Patching!Lines

(* Reading a file as latin-1 makes another of its lines.                     *)
LEMMA DecodedFacts ==
    ASSUME NEW x \in Patching!Contents
    PROVE  /\ Patching!Decoded(x \ Patching!Absent) \subseteq Patching!Lines
           /\ Patching!Decoded({}) = {}
  BY ContentFacts DEF Patching!Decoded, Patching!Lines, Patching!Foreign

(* The changes of the call are numbered from one, and each is to a file.     *)
LEMMA ChangeFacts ==
    ASSUME Patching!PatchTypeOK
    PROVE  /\ Len(s3) \in Nat /\ DOMAIN s3 = 1 .. Len(s3)
           /\ \A k \in DOMAIN s3 : Patching!Target(s3[k]) \in Paths /\ s3[k].adds \subseteq Patching!Lines
<1>1. CASE s3 = <<>>
  BY <1>1
<1>2. CASE s3 \in Patches
  <2>1. s3 \in Seq({s3[k] : k \in DOMAIN s3})
    BY <1>2, PatchAssumption
  <2>2. Len(s3) \in Nat /\ DOMAIN s3 = 1 .. Len(s3)
    BY <2>1
  <2>3. ASSUME NEW k \in DOMAIN s3
        PROVE  Patching!Target(s3[k]) \in Paths /\ s3[k].adds \subseteq Patching!Lines
    <3>1. Patching!Safe(s3[k])
      BY DEF Patching!PatchTypeOK
    <3>2. Patching!Target(s3[k]) \in Paths
      BY <3>1 DEF Patching!Safe, Patching!Target
    <3>3. s3[k].adds \subseteq UNION {s3[l].adds : l \in DOMAIN s3}
      OBVIOUS
    <3>4. s3[k].adds \subseteq Patching!Lines
      BY <1>2, <3>3 DEF Patching!Lines
    <3> QED
      BY <3>2, <3>4
  <2> QED
    BY <2>2, <2>3
<1> QED
  BY <1>1, <1>2 DEF Patching!PatchTypeOK

(* A clean file is named by one change at most.                              *)
LEMMA NamedOnce ==
    ASSUME NEW k \in DOMAIN s3, NEW l \in DOMAIN s3,
           Patching!Target(s3[k]) = Patching!Target(s3[l]), Patching!Target(s3[k]) \in Patching!Clean
    PROVE  k = l
  BY DEF Patching!Clean, Patching!Twice

(* What was written in order stays so for the files that stay clean.         *)
LEMMA StillWritten ==
    ASSUME Patching!WrittenInOrder, UNCHANGED <<s3, s5, s8, s10>>,
           s2' \in {"write", "replace", "applied"} => s2 \in {"write", "replace", "applied"},
           Patching!Clean' \subseteq Patching!Clean,
           \A p \in Patching!Clean' : s1'[p] = s1[p]
    PROVE  Patching!WrittenInOrder'
<1> SUFFICES ASSUME s2' \in {"write", "replace", "applied"}
             PROVE  /\ \A k \in DOMAIN s3 : k < s5 => Patching!Target(s3[k]) \in s8
                    /\ \A p \in Patching!Clean' \cap s8 : \E k \in DOMAIN s3 :
                          /\ k < s5 /\ Patching!Target(s3[k]) = p
                          /\ s1'[p] = Patching!Result(s3[k], s10[p])
  BY DEF Patching!WrittenInOrder, Patching!Target, Patching!Result, Patching!Decoded
<1> QED
  BY DEF Patching!WrittenInOrder

LEMMA PatchingBegins ==
    ASSUME Patching!Init
    PROVE  Patching!Recoverable
<1> USE DEF Patching!Init
<1>1. s1 \in [Paths -> Patching!Contents]
  <2>1. {Patching!Base, Patching!Base \cup {"latin"}, Patching!Absent} \subseteq Patching!Contents
    BY ContentFacts
  <2> QED
    BY <2>1
<1>a. DOMAIN Patching!None = {} /\ DOMAIN <<>> = {}
  BY DEF Patching!None
<1>2. Patching!PatchTypeOK
  BY <1>1, <1>a DEF Patching!PatchTypeOK
<1>3. Patching!NothingWritten /\ Patching!Previewed /\ Patching!WrittenInOrder /\ Patching!Reversible
  BY <1>1, <1>a DEF Patching!NothingWritten, Patching!Previewed, Patching!WrittenInOrder, Patching!Reversible
<1> QED
  BY <1>2, <1>3 DEF Patching!Recoverable

(* A call that is given up before it wrote anything, or after.               *)
LEMMA GivenUpKeeps ==
    ASSUME Patching!Recoverable, s2 \in {"preview", "write", "replace"}, s2' = "rollback",
           UNCHANGED <<s1, s3, s5, s6, s7, s8, s10, s11>>
    PROVE  Patching!Recoverable'
<1>1. Patching!PatchTypeOK'
  BY DEF Patching!Recoverable, Patching!PatchTypeOK
<1>2. Patching!Clean' = Patching!Clean
  BY DEF Patching!Clean, Patching!Twice
<1>3. Patching!Reversible'
  BY <1>2 DEF Patching!Recoverable, Patching!Reversible
<1> QED
  BY <1>1, <1>3 DEF Patching!Recoverable, Patching!NothingWritten, Patching!Previewed,
                    Patching!WrittenInOrder

LEMMA CallKeeps ==
    ASSUME Patching!Recoverable, NEW text \in Patches, NEW dry_run, Patching!Call(text, dry_run)
    PROVE  Patching!Recoverable'
<1>1. /\ s2 = "idle" /\ s2' = "preview" /\ s3' = text /\ s5' = 1
      /\ \A k \in DOMAIN text : Patching!Safe(text[k])
      /\ UNCHANGED <<s1, s6, s7, s8, s10, s11, s12>>
  BY DEF Patching!Call, Patching!history_vars
<1>2. Patching!PatchTypeOK'
  BY <1>1 DEF Patching!Recoverable, Patching!PatchTypeOK, Patching!Safe
<1>3. Patching!NothingWritten'
  BY <1>1 DEF Patching!Recoverable, Patching!NothingWritten
<1>4. Patching!Previewed'
  <2>1. \A k \in DOMAIN s3' : ~(k < 1)
    BY <1>1, <1>2, ChangeFacts, PatchAssumption
  <2> QED
    BY <1>1, <2>1 DEF Patching!Previewed
<1>5. Patching!Reversible'
  BY <1>1, <1>3 DEF Patching!Reversible, Patching!NothingWritten, Patching!Clean
<1> QED
  BY <1>1, <1>2, <1>3, <1>4, <1>5 DEF Patching!Recoverable, Patching!WrittenInOrder

LEMMA PreviewKeeps ==
    ASSUME Patching!Recoverable, Patching!Preview \/ Patching!EndPreview
    PROVE  Patching!Recoverable'
<1>a. /\ s2 = "preview" /\ s5 > 0 /\ s5 \in Nat /\ Patching!PatchTypeOK
      /\ s8 = {} /\ DOMAIN s7 = {} /\ \A p \in Paths \ s11 : s1[p] = s10[p]
  BY DEF Patching!Preview, Patching!EndPreview, Patching!Recoverable, Patching!NothingWritten,
         Patching!PatchTypeOK
<1>b. /\ Len(s3) \in Nat /\ DOMAIN s3 = 1 .. Len(s3)
      /\ \A k \in DOMAIN s3 : Patching!Target(s3[k]) \in Paths /\ s3[k].adds \subseteq Patching!Lines
  BY <1>a, ChangeFacts
<1>c. UNCHANGED <<s1, s3, s7, s8, s10, s11>>
  BY DEF Patching!Preview, Patching!EndPreview, Patching!history_vars
<1>d. Patching!Clean' = Patching!Clean /\ Patching!Clean \subseteq Paths \ s11
  BY <1>c DEF Patching!Clean, Patching!Twice
<1>1. CASE Patching!Preview
  <2> DEFINE c == s3[s5]
             t == Patching!Target(c)
             new == IF Patching!IsNewFile(c) THEN c.adds ELSE Patching!Changed(c, s1[t])
  <2>1. /\ s5 <= Len(s3) /\ s5' = s5 + 1 /\ s2' = "preview" /\ s6' = Patching!Set(s6, t, new)
        /\ IF Patching!IsNewFile(c) THEN Patching!Creates(c, s1[t]) ELSE Patching!Applies(c, s1[t])
    BY <1>1, <1>a DEF Patching!Preview, Patching!Change
  <2>2. s5 \in DOMAIN s3 /\ t \in Paths /\ c.adds \subseteq Patching!Lines /\ Patching!Safe(c)
    BY <1>a, <1>b, <2>1 DEF Patching!PatchTypeOK
  <2>3. s1[t] \in Patching!Contents
    BY <1>a, <2>2 DEF Patching!PatchTypeOK
  <2>4. new \in Patching!Contents /\ new = Patching!Result(c, s1[t])
    <3>1. CASE Patching!IsNewFile(c)
      <4>1. c.new # Patching!DevNull
        BY <2>2, <3>1 DEF Patching!Safe, Patching!IsNewFile
      <4> QED
        BY <2>1, <2>2, <2>3, <3>1, <4>1, DecodedFacts
        DEF Patching!Contents, Patching!Result, Patching!Creates
    <3>2. CASE ~Patching!IsNewFile(c)
      <4>1. s1[t] # Patching!Absent
        BY <2>1, <3>2 DEF Patching!Applies
      <4>2. s1[t] \ Patching!Absent = s1[t] /\ Patching!Decoded(s1[t]) \subseteq Patching!Lines
        BY <2>3, <4>1, ContentFacts, DecodedFacts
      <4> QED
        BY <2>2, <3>2, <4>2 DEF Patching!Contents, Patching!Result, Patching!Changed
    <3> QED
      BY <3>1, <3>2
  <2>5. t \in Patching!Clean => s1[t] = s10[t]
    BY <1>a, <1>d
  <2>6. Patching!IsNewFile(c) => s1[t] = Patching!Absent
    BY <2>1 DEF Patching!Creates
  <2>7. DOMAIN s6' = DOMAIN s6 \cup {t} /\ s6'[t] = new /\ \A p \in DOMAIN s6 : p # t => s6'[p] = s6[p]
    BY <2>1 DEF Patching!Set
  <2> HIDE DEF new
  <2>8. Patching!PatchTypeOK'
    <3>1. \A p \in DOMAIN s6' : s6'[p] \in Patching!Contents
      BY <1>a, <2>4, <2>7 DEF Patching!PatchTypeOK
    <3>2. \A k \in DOMAIN s3' : Patching!Safe(s3'[k])
      BY <1>a, <1>c DEF Patching!PatchTypeOK
    <3>3. s5' \in Nat
      BY <1>a, <2>1
    <3> QED
      BY <1>a, <1>c, <2>1, <3>1, <3>2, <3>3 DEF Patching!PatchTypeOK, Patching!Safe
  <2>9. Patching!Previewed'
    <3> SUFFICES ASSUME NEW k \in DOMAIN s3, k < s5 + 1
                 PROVE  /\ Patching!Target(s3[k]) \in DOMAIN s6'
                        /\ Patching!Target(s3[k]) \in Patching!Clean =>
                           /\ s6'[Patching!Target(s3[k])]
                              = Patching!Result(s3[k], s10[Patching!Target(s3[k])])
                           /\ Patching!IsNewFile(s3[k]) => s10[Patching!Target(s3[k])] = Patching!Absent
      BY <1>c, <1>d, <2>1 DEF Patching!Previewed, Patching!Target, Patching!Result, Patching!Decoded, Patching!IsNewFile
    <3>1. CASE k = s5
      BY <2>4, <2>5, <2>6, <2>7, <3>1
    <3>2. CASE k # s5
      <4>1. k < s5
        BY <1>a, <1>b, <3>2
      <4>2. /\ Patching!Target(s3[k]) \in DOMAIN s6
            /\ Patching!Target(s3[k]) \in Patching!Clean =>
               /\ s6[Patching!Target(s3[k])] = Patching!Result(s3[k], s10[Patching!Target(s3[k])])
               /\ Patching!IsNewFile(s3[k]) => s10[Patching!Target(s3[k])] = Patching!Absent
        BY <1>a, <4>1 DEF Patching!Recoverable, Patching!Previewed
      <4>3. Patching!Target(s3[k]) \in Patching!Clean => Patching!Target(s3[k]) # t
        BY <2>2, <3>2, NamedOnce
      <4> QED
        BY <2>7, <4>2, <4>3
    <3> QED
      BY <3>1, <3>2
  <2>10. Patching!NothingWritten' /\ Patching!Reversible'
    BY <1>a, <1>c, <1>d, <2>1 DEF Patching!NothingWritten, Patching!Reversible
  <2> QED
    BY <1>a, <2>1, <2>8, <2>9, <2>10 DEF Patching!Recoverable, Patching!WrittenInOrder
<1>2. CASE Patching!EndPreview
  <2>1. /\ s5 > Len(s3) /\ s5' = 1 /\ s2' \in {"dry", "write"} /\ UNCHANGED s6
    BY <1>2 DEF Patching!EndPreview
  <2>2. Patching!PatchTypeOK'
    BY <1>a, <1>c, <2>1 DEF Patching!PatchTypeOK, Patching!Safe
  <2>3. \A k \in DOMAIN s3 : k < s5
    BY <1>a, <1>b, <2>1
  <2>4. Patching!Previewed'
    BY <1>a, <1>c, <1>d, <2>1, <2>3
    DEF Patching!Recoverable, Patching!Previewed, Patching!Target, Patching!Result, Patching!Decoded, Patching!IsNewFile
  <2>5. Patching!NothingWritten' /\ Patching!Reversible'
    BY <1>a, <1>c, <1>d, <2>1 DEF Patching!NothingWritten, Patching!Reversible
  <2>6. Patching!WrittenInOrder'
    <3>1. \A k \in DOMAIN s3' : ~(k < s5')
      BY <1>b, <1>c, <2>1
    <3> QED
      BY <1>a, <1>c, <3>1 DEF Patching!WrittenInOrder
  <2> QED
    BY <2>1, <2>2, <2>4, <2>5, <2>6 DEF Patching!Recoverable
<1> QED
  BY <1>1, <1>2

LEMMA BackupKeeps ==
    ASSUME Patching!Recoverable, Patching!Backup
    PROVE  Patching!Recoverable'
<1> DEFINE c == s3[s5]
           t == Patching!Target(c)
<1>1. /\ s2 = "write" /\ s5 <= Len(s3) /\ ~Patching!IsNewFile(c)
      /\ UNCHANGED <<s1, s3, s5, s6, s8, s10, s11>>
  BY DEF Patching!Backup, Patching!Change, Patching!history_vars
<1>2. CASE s1[t] = Patching!Absent
  BY <1>1, <1>2, GivenUpKeeps DEF Patching!Backup, Patching!Change
<1>3. CASE s1[t] # Patching!Absent
  <2>1. s2' = "replace" /\ s7' = Patching!Set(s7, t, s1[t])
    BY <1>3 DEF Patching!Backup, Patching!Change
  <2>2. DOMAIN s7' = DOMAIN s7 \cup {t} /\ s7'[t] = s1[t] /\ \A p \in DOMAIN s7 : p # t => s7'[p] = s7[p]
    BY <2>1 DEF Patching!Set
  <2>3. Patching!PatchTypeOK /\ s5 \in Nat /\ s5 > 0
    BY <1>1 DEF Patching!Recoverable, Patching!PatchTypeOK
  <2>4. s5 \in DOMAIN s3 /\ t \in Paths
    BY <1>1, <2>3, ChangeFacts
  <2>5. Patching!Clean' = Patching!Clean
    BY <1>1 DEF Patching!Clean, Patching!Twice
  <2>6. Patching!PatchTypeOK'
    <3>1. /\ DOMAIN s7' \subseteq Paths
          /\ \A p \in DOMAIN s7' : s7'[p] \in Patching!Contents
      BY <2>2, <2>3, <2>4 DEF Patching!PatchTypeOK
    <3>2. \A k \in DOMAIN s3' : Patching!Safe(s3'[k])
      BY <1>1, <2>3 DEF Patching!PatchTypeOK
    <3> QED
      BY <1>1, <2>1, <2>3, <3>1, <3>2 DEF Patching!PatchTypeOK, Patching!Safe
  <2>7. t \in Patching!Clean => s1[t] = s10[t]
    <3>1. t \in Patching!Clean => t \notin s8
      <4> SUFFICES ASSUME t \in Patching!Clean, t \in s8
                   PROVE  FALSE
        OBVIOUS
      <4>1. PICK k \in DOMAIN s3 : k < s5 /\ Patching!Target(s3[k]) = t
        BY <1>1 DEF Patching!Recoverable, Patching!WrittenInOrder
      <4> QED
        BY <2>3, <2>4, <4>1, NamedOnce
    <3> QED
      BY <1>1, <2>4, <3>1 DEF Patching!Recoverable, Patching!Reversible
  <2>8. Patching!Reversible'
    BY <1>1, <2>1, <2>2, <2>5, <2>7 DEF Patching!Recoverable, Patching!Reversible
  <2>9. Patching!Previewed'
    BY <1>1, <2>1, <2>5
    DEF Patching!Recoverable, Patching!Previewed, Patching!Target, Patching!Result, Patching!Decoded, Patching!IsNewFile
  <2>10. Patching!WrittenInOrder'
    BY <1>1, <2>1, <2>5, StillWritten DEF Patching!Recoverable
  <2>11. s5' \in DOMAIN s3' /\ ~Patching!IsNewFile(s3[s5])' /\ (Patching!Target(s3[s5]) \in DOMAIN s7)'
    BY <1>1, <2>2, <2>4 DEF Patching!IsNewFile, Patching!Target
  <2> QED
    BY <2>1, <2>6, <2>8, <2>9, <2>10, <2>11 DEF Patching!Recoverable, Patching!NothingWritten
<1> QED
  BY <1>2, <1>3

LEMMA WriteKeeps ==
    ASSUME Patching!Recoverable, Patching!Write
    PROVE  Patching!Recoverable'
<1> DEFINE c == s3[s5]
           t == Patching!Target(c)
<1>1. /\ s2 \in {"write", "replace"} /\ s5 <= Len(s3)
      /\ s2 = "replace" \/ Patching!IsNewFile(c)
      /\ s2' = "write" /\ s5' = s5 + 1 /\ s1' = [s1 EXCEPT ![t] = s6[t]] /\ s8' = s8 \cup {t}
      /\ UNCHANGED <<s3, s6, s7, s10, s11>>
  BY DEF Patching!Write, Patching!Change, Patching!history_vars
<1>2. Patching!PatchTypeOK /\ s5 \in Nat /\ s5 > 0
  <2>1. Patching!PatchTypeOK
    BY DEF Patching!Recoverable
  <2>2. s2 = "replace" => s5 \in 1 .. Len(s3)
    BY <2>1, ChangeFacts DEF Patching!Recoverable
  <2> QED
    BY <1>1, <2>1, <2>2 DEF Patching!Recoverable, Patching!PatchTypeOK
<1>3. Len(s3) \in Nat /\ DOMAIN s3 = 1 .. Len(s3) /\ \A k \in DOMAIN s3 : Patching!Target(s3[k]) \in Paths
  BY <1>2, ChangeFacts
<1>4. s5 \in DOMAIN s3 /\ t \in Paths
  BY <1>1, <1>2, <1>3
<1>5. Patching!Clean' = Patching!Clean /\ Patching!Clean \subseteq Paths
  BY <1>1 DEF Patching!Clean, Patching!Twice
<1>6. /\ t \in DOMAIN s6
      /\ t \in Patching!Clean => /\ s6[t] = Patching!Result(c, s10[t])
                                 /\ Patching!IsNewFile(c) => s10[t] = Patching!Absent
  BY <1>1, <1>4 DEF Patching!Recoverable, Patching!Previewed
<1>7. /\ s1 \in [Paths -> Patching!Contents] /\ s6[t] \in Patching!Contents
      /\ s8 \subseteq Paths
  BY <1>2, <1>6 DEF Patching!PatchTypeOK
<1>8. /\ s1' \in [Paths -> Patching!Contents] /\ s1'[t] = s6[t]
      /\ \A p \in Paths : p # t => s1'[p] = s1[p]
  BY <1>1, <1>4, <1>7
<1>9. Patching!PatchTypeOK'
  <2>1. \A k \in DOMAIN s3' : Patching!Safe(s3'[k])
    BY <1>1, <1>2 DEF Patching!PatchTypeOK
  <2>2. s5' \in Nat
    BY <1>1, <1>2
  <2> QED
    BY <1>1, <1>2, <1>4, <1>7, <1>8, <2>1, <2>2 DEF Patching!PatchTypeOK, Patching!Safe
<1>10. Patching!Previewed'
  BY <1>1, <1>5
  DEF Patching!Recoverable, Patching!Previewed, Patching!Target, Patching!Result, Patching!Decoded, Patching!IsNewFile
<1>11. Patching!WrittenInOrder'
  <2>1. ASSUME NEW k \in DOMAIN s3, k < s5 + 1
        PROVE  Patching!Target(s3[k]) \in s8'
    <3>1. CASE k = s5
      BY <1>1, <3>1
    <3>2. CASE k < s5
      BY <1>1, <3>2 DEF Patching!Recoverable, Patching!WrittenInOrder
    <3> QED
      BY <1>2, <1>3, <2>1, <3>1, <3>2
  <2>2. ASSUME NEW p \in Patching!Clean \cap s8'
        PROVE  \E k \in DOMAIN s3 : /\ k < s5 + 1 /\ Patching!Target(s3[k]) = p
                                    /\ s1'[p] = Patching!Result(s3[k], s10[p])
    <3>1. CASE p = t
      BY <1>2, <1>4, <1>6, <1>8, <3>1
    <3>2. CASE p # t
      <4>1. PICK k \in DOMAIN s3 : /\ k < s5 /\ Patching!Target(s3[k]) = p
                                   /\ s1[p] = Patching!Result(s3[k], s10[p])
        BY <1>1, <3>2 DEF Patching!Recoverable, Patching!WrittenInOrder
      <4>2. k < s5 + 1
        BY <1>2, <1>3, <4>1
      <4> QED
        BY <1>5, <1>8, <3>2, <4>1, <4>2
    <3> QED
      BY <3>1, <3>2
  <2> SUFFICES /\ \A k \in DOMAIN s3 : k < s5 + 1 => Patching!Target(s3[k]) \in s8'
               /\ \A p \in Patching!Clean \cap s8' : \E k \in DOMAIN s3 :
                     /\ k < s5 + 1 /\ Patching!Target(s3[k]) = p
                     /\ s1'[p] = Patching!Result(s3[k], s10[p])
    <3>1. s5' = s5 + 1 /\ s3' = s3 /\ s10' = s10 /\ Patching!Clean' = Patching!Clean
      BY <1>1, <1>5
    <3> HIDE DEF c, t
    <3> QED
      BY <3>1 DEF Patching!WrittenInOrder, Patching!Target, Patching!Result, Patching!Decoded
  <2> QED
    BY <2>1, <2>2
<1>12. Patching!Reversible'
  <2>1. t \in Patching!Clean /\ t \notin DOMAIN s7 => s10[t] = Patching!Absent
    BY <1>1, <1>6 DEF Patching!Recoverable
  <2>2. s2 # "failed" /\ s2' # "failed"
    BY <1>1
  <2> QED
    BY <1>1, <1>5, <1>8, <2>1, <2>2 DEF Patching!Recoverable, Patching!Reversible
<1>13. s5' > 0
  BY <1>1, <1>2
<1> QED
  BY <1>1, <1>9, <1>10, <1>11, <1>12, <1>13 DEF Patching!Recoverable, Patching!NothingWritten

LEMMA EndWriteKeeps ==
    ASSUME Patching!Recoverable, Patching!EndWrite
    PROVE  Patching!Recoverable'
<1>1. /\ s2 = "write" /\ s2' = "applied" /\ s5 > Len(s3)
      /\ UNCHANGED <<s1, s3, s5, s6, s7, s8, s10, s11, s12>>
  BY DEF Patching!EndWrite, Patching!call_vars, Patching!history_vars
<1>2. Patching!PatchTypeOK'
  BY <1>1 DEF Patching!Recoverable, Patching!PatchTypeOK, Patching!Safe
<1>3. Patching!Clean' = Patching!Clean
  BY <1>1 DEF Patching!Clean, Patching!Twice
<1>4. Patching!WrittenInOrder'
  BY <1>1, <1>3, StillWritten DEF Patching!Recoverable
<1>5. Patching!Reversible'
  BY <1>1, <1>3 DEF Patching!Recoverable, Patching!Reversible
<1> QED
  BY <1>1, <1>2, <1>4, <1>5 DEF Patching!Recoverable, Patching!NothingWritten, Patching!Previewed

(* What a rollback does not lose, it puts back.                              *)
LEMMA RollbackKeeps ==
    ASSUME Patching!Recoverable, Patching!Rollback
    PROVE  Patching!Recoverable'
<1>1. PICK lost \in SUBSET (DOMAIN s7 \cup s8) :
          /\ s12' = lost
          /\ s1' = [p \in Paths |-> IF p \in lost THEN s1[p]
                                    ELSE IF p \in DOMAIN s7 THEN s7[p]
                                    ELSE IF p \in s8 THEN Patching!Absent ELSE s1[p]]
  BY DEF Patching!Rollback
<1>2. s2 = "rollback" /\ s2' = "failed" /\ UNCHANGED <<s3, s5, s6, s7, s8, s10, s11>>
  BY DEF Patching!Rollback, Patching!call_vars
<1>3. Patching!PatchTypeOK
  BY DEF Patching!Recoverable
<1>4. s1' \in [Paths -> Patching!Contents]
  <2>1. \A p \in Paths : s1[p] \in Patching!Contents
    BY <1>3 DEF Patching!PatchTypeOK
  <2>2. \A p \in DOMAIN s7 : s7[p] \in Patching!Contents
    BY <1>3 DEF Patching!PatchTypeOK
  <2> QED
    BY <1>1, <2>1, <2>2, ContentFacts
<1>5. Patching!PatchTypeOK'
  BY <1>2, <1>3, <1>4 DEF Patching!PatchTypeOK, Patching!Safe
<1>6. Patching!Clean' = Patching!Clean /\ Patching!Clean \subseteq Paths
  BY <1>2 DEF Patching!Clean, Patching!Twice
<1>7. \A p \in Patching!Clean \ lost : s1'[p] = s10[p]
  BY <1>1, <1>2, <1>6 DEF Patching!Recoverable, Patching!Reversible
<1>8. Patching!Reversible'
  BY <1>2, <1>6 DEF Patching!Recoverable, Patching!Reversible
<1> QED
  BY <1>1, <1>2, <1>5, <1>6, <1>7, <1>8
  DEF Patching!Recoverable, Patching!NothingWritten, Patching!Previewed, Patching!WrittenInOrder

LEMMA ReturnKeeps ==
    ASSUME Patching!Recoverable, Patching!Return
    PROVE  Patching!Recoverable'
<1>1. /\ s2' = "idle" /\ s3' = <<>> /\ s5' = 0 /\ s6' = Patching!None /\ s7' = Patching!None
      /\ s8' = {} /\ s10' = s1 /\ s1' = s1
  BY DEF Patching!Return
<1>2. DOMAIN Patching!None = {} /\ DOMAIN <<>> = {}
  BY DEF Patching!None
<1>3. Patching!PatchTypeOK'
  BY <1>1, <1>2 DEF Patching!Recoverable, Patching!PatchTypeOK
<1>4. \A p \in Patching!Clean' : p \in Paths
  BY DEF Patching!Clean
<1>5. Patching!NothingWritten' /\ Patching!Previewed' /\ Patching!WrittenInOrder' /\ Patching!Reversible'
  BY <1>1, <1>2, <1>4
  DEF Patching!NothingWritten, Patching!Previewed, Patching!WrittenInOrder, Patching!Reversible
<1> QED
  BY <1>1, <1>3, <1>5 DEF Patching!Recoverable

(* What somebody else writes to is no longer clean, and the rest is as it was. *)
LEMMA EditKeeps ==
    ASSUME Patching!Recoverable, NEW p \in Paths, Patching!Edit(p)
    PROVE  Patching!Recoverable'
<1>1. PICK content \in {Patching!Absent, (s1[p] \ Patching!Absent) \cup {"edit"},
                         ((s1[p] \ Patching!Absent) \ {"rest"}) \cup {"edit"}} :
          s1' = [s1 EXCEPT ![p] = content]
  BY DEF Patching!Edit
<1>2. s11' = s11 \cup {p} /\ UNCHANGED <<s2, s3, s5, s6, s7, s8, s10, s12>> /\ s2 # "failed" /\ s2 # "applied"
  BY DEF Patching!Edit, Patching!call_vars
<1>3. Patching!PatchTypeOK /\ s1 \in [Paths -> Patching!Contents]
  BY DEF Patching!Recoverable, Patching!PatchTypeOK
<1>4. content \in Patching!Contents
  <2>1. s1[p] \ Patching!Absent \subseteq Patching!Lines /\ "edit" \in Patching!Lines
    BY <1>3, ContentFacts DEF Patching!Lines
  <2> QED
    BY <2>1 DEF Patching!Contents
<1>5. s1' \in [Paths -> Patching!Contents] /\ \A q \in Paths : q # p => s1'[q] = s1[q]
  BY <1>1, <1>3, <1>4
<1>6. Patching!PatchTypeOK'
  BY <1>2, <1>3, <1>5 DEF Patching!PatchTypeOK, Patching!Safe
<1>7. Patching!Clean' = Patching!Clean \ {p} /\ Patching!Clean \subseteq Paths
  BY <1>2 DEF Patching!Clean, Patching!Twice
<1>8. Patching!NothingWritten'
  BY <1>2, <1>5 DEF Patching!Recoverable, Patching!NothingWritten
<1>9. Patching!Previewed'
  BY <1>2, <1>7
  DEF Patching!Recoverable, Patching!Previewed, Patching!Target, Patching!Result, Patching!Decoded, Patching!IsNewFile
<1>10. Patching!WrittenInOrder'
  BY <1>2, <1>5, <1>7, StillWritten DEF Patching!Recoverable
<1>11. Patching!Reversible'
  BY <1>2, <1>5, <1>7 DEF Patching!Recoverable, Patching!Reversible
<1> QED
  BY <1>2, <1>6, <1>8, <1>9, <1>10, <1>11
  DEF Patching!Recoverable, Patching!Target, Patching!IsNewFile

LEMMA PatchingKeeps ==
    ASSUME Patching!Recoverable, Patching!Next \/ UNCHANGED Patching!vars
    PROVE  Patching!Recoverable'
<1>1. CASE Patching!PreviewFails \/ Patching!WriteFails
  BY <1>1, GivenUpKeeps DEF Patching!PreviewFails, Patching!WriteFails, Patching!call_vars,
                            Patching!history_vars
<1>2. CASE UNCHANGED Patching!vars
  <2>1. UNCHANGED <<s1, s2, s3, s5, s6, s7, s8, s10, s11, s12>>
    BY <1>2 DEF Patching!vars, Patching!call_vars, Patching!history_vars
  <2>2. Patching!PatchTypeOK' /\ Patching!Clean' = Patching!Clean
    BY <2>1 DEF Patching!Recoverable, Patching!PatchTypeOK, Patching!Safe, Patching!Clean, Patching!Twice
  <2>3. Patching!NothingWritten' /\ Patching!Reversible'
    BY <2>1, <2>2 DEF Patching!Recoverable, Patching!NothingWritten, Patching!Reversible
  <2>4. Patching!Previewed'
    BY <2>1, <2>2 DEF Patching!Recoverable, Patching!Previewed, Patching!Target, Patching!Result, Patching!Decoded,
                      Patching!IsNewFile
  <2>5. Patching!WrittenInOrder'
    BY <2>1, <2>2, StillWritten DEF Patching!Recoverable
  <2> QED
    BY <2>1, <2>2, <2>3, <2>4, <2>5 DEF Patching!Recoverable, Patching!Target, Patching!IsNewFile
<1> QED
  BY <1>1, <1>2, CallKeeps, PreviewKeeps, BackupKeeps, WriteKeeps, EndWriteKeeps, RollbackKeeps,
     ReturnKeeps, EditKeeps DEF Patching!Next

(* For any files and patches, with others that write meanwhile and a disk    *)
(* that refuses: a patch is applied to its files as a whole, or each is as   *)
(* it was before the call, but for the four exceptions of WholeOrNothing.    *)
THEOREM PatchesAreWhole == AnySpec => []WholeOrNothing
<1> DEFINE Inv == component = "patching" => Patching!Recoverable
<1>1. AnyInit => Inv
  BY PatchingBegins DEF AnyInit
<1>2. Inv /\ [AnyNext]_AnyVars => Inv'
  BY Selected, PatchingKeeps
<1>3. Inv => WholeOrNothing
  <2> SUFFICES ASSUME Patching!Recoverable
               PROVE  Patching!WholeOrNothing
    BY DEF WholeOrNothing
  <2>1. s2 = "failed" => \A p \in Patching!Clean \ s12 : s1[p] = s10[p]
    BY DEF Patching!Recoverable
  <2>2. s2 = "dry" => \A p \in Paths \ s11 : s1[p] = s10[p]
    BY DEF Patching!Recoverable, Patching!NothingWritten
  <2>3. ASSUME s2 = "applied", NEW p \in Patching!Clean,
               NEW k \in DOMAIN s3, Patching!Target(s3[k]) = p
        PROVE  s1[p] = Patching!Result(s3[k], s10[p])
    <3>1. Patching!PatchTypeOK /\ s5 > Len(s3) /\ s5 \in Nat
      BY <2>3 DEF Patching!Recoverable, Patching!PatchTypeOK
    <3>2. k < s5
      BY <3>1, ChangeFacts
    <3>3. p \in s8
      BY <2>3, <3>2 DEF Patching!Recoverable, Patching!WrittenInOrder
    <3>4. PICK l \in DOMAIN s3 : Patching!Target(s3[l]) = p /\ s1[p] = Patching!Result(s3[l], s10[p])
      BY <2>3, <3>3 DEF Patching!Recoverable, Patching!WrittenInOrder
    <3>5. l = k
      BY <2>3, <3>4, NamedOnce
    <3> QED
      BY <3>4, <3>5
  <2>4. ASSUME s2 = "applied", NEW p \in Patching!Clean,
               ~ \E k \in DOMAIN s3 : Patching!Target(s3[k]) = p
        PROVE  s1[p] = s10[p]
    <3>1. p \notin s8
      BY <2>4 DEF Patching!Recoverable, Patching!WrittenInOrder
    <3> QED
      BY <2>4, <3>1 DEF Patching!Recoverable, Patching!Reversible
  <2>5. ASSUME s2 = "applied", NEW p \in Patching!Clean,
               NEW k \in DOMAIN s3, Patching!Target(s3[k]) = p
        PROVE  LET rewritten == IF "latin" \in s10[p] THEN Patching!Foreign ELSE {}
               IN  s1[p] \ rewritten = Patching!Asked(s3[k], s10[p]) \ rewritten
    BY <2>3, <2>5 DEF Patching!Result, Patching!Decoded, Patching!Asked, Patching!Foreign, Patching!Absent
  <2>6. Patching!Clean = Paths \ (Patching!Twice \cup s11)
    BY DEF Patching!Clean
  <2> QED
    BY <2>1, <2>2, <2>4, <2>5, <2>6 DEF Patching!WholeOrNothing
<1> QED
  BY <1>1, <1>2, <1>3, PTL DEF AnySpec, AnyVars
===============================================================================
