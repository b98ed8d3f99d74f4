------------------------ MODULE AutonomousController ------------------------
(***************************************************************************)
(* The controller of one mission: agent/ai/autonomous_controller.py.  An   *)
(* attempt runs ten stages, each an engine it was given; what an engine    *)
(* does is its own affair, and modelled only as far as the controller sees *)
(* it: it answers or raises, and may change the mission, which all of them *)
(* share.  When an attempt ends early a retry engine is asked for another, *)
(* which begins on what the first one left.                                *)
(***************************************************************************)
EXTENDS Naturals, Sequences

CONSTANTS
    Branches, Protected,     (* names of branches; SAFE_BRANCH_DENYLIST         *)
    MaxAttempts              (* bound on the attempts the retry engine grants   *)

NoBranch == "no_branch"

Stages ==
    <<"planning", "repository_scan", "code_generation", "patch_generation",
      "validation_pre_apply", "patch_application", "validation_post_apply",
      "git_review", "commit", "push">>

VARIABLES
    branch,       (* the mission's                                            *)
    status,       (* final_status, or "running"                               *)
    attempt,
    stage,        (* the number of the stage it is at                         *)
    error,        (* what ended the attempt                                   *)
    answers,      (* of the stages of this attempt                            *)
    reports,      (* attempt_reports: how each attempt ended                  *)
    tree,         (* the attempts whose patches were applied                  *)
    reviewed,     (* the tree the review of this attempt saw                  *)
    commits,      (* history: <<tree, branch, attempt, vetted>>               *)
    pushed        (* how many of the commits were pushed                      *)

run_vars == <<status, attempt, stage, error, answers, reports>>
repo_vars == <<tree, reviewed, commits, pushed>>
vars == <<branch, run_vars, repo_vars>>

Nothing == "nothing"
At(name) == status = "running" /\ error = Nothing /\ Stages[stage] = name
SafeBranch == branch \notin Protected \cup {NoBranch}

(* run: a mission without a branch that may be written to raises.            *)
Init ==
    /\ branch \in Branches \cup {NoBranch}
    /\ status = IF SafeBranch THEN "running" ELSE "raised"
    /\ attempt = 1 /\ stage = 1 /\ error = Nothing
    /\ answers = [s \in {} |-> Nothing]
    /\ reports = <<>>
    /\ tree = {} /\ reviewed = {} /\ commits = <<>> /\ pushed = 0

Answered(name, answer) == answers' = [s \in DOMAIN answers \cup {name} |-> IF s = name THEN answer ELSE answers[s]]

(* _run_stage, when the engine answers.                                      *)
Answer(name, answer) ==
    /\ At(name)
    /\ Answered(name, answer)
    /\ stage' = stage + 1
    /\ UNCHANGED <<status, attempt, error, reports>>

-----------------------------------------------------------------------------
(* The stages                                                                *)

(* Engines that read, plan and generate are given the mission itself.        *)
Prepare ==
    /\ stage <= 4 /\ Answer(Stages[stage], "done")
    /\ branch' \in Branches \cup {NoBranch}
    /\ UNCHANGED repo_vars

(* The answer of a validation is kept, and only what it raises is heeded.    *)
ValidatePatches ==
    /\ \E answer \in {"passed", "not_passed"} : Answer("validation_pre_apply", answer)
    /\ UNCHANGED <<branch, repo_vars>>

ApplyPatches ==
    /\ Answer("patch_application", "done")
    /\ tree' = tree \cup {attempt}
    /\ UNCHANGED <<branch, reviewed, commits, pushed>>

ValidateTree ==
    /\ \E answer \in {"passed", "not_passed"} : Answer("validation_post_apply", answer)
    /\ UNCHANGED <<branch, repo_vars>>

Fails(e) == error' = e /\ UNCHANGED <<status, attempt, stage, answers, reports>>

(* Mutant of Review: the answer is kept like any other.                      *)
ReviewNoted ==
    /\ At("git_review")
    /\ reviewed' = tree
    /\ \/ Answer("git_review", "approved")
       \/ Answer("git_review", "rejected")
    /\ UNCHANGED <<branch, tree, commits, pushed>>

(* Not approved ends the attempt.                                            *)
Review ==
    /\ At("git_review")
    /\ reviewed' = tree
    /\ \/ Answer("git_review", "approved")
       \/ Fails("rejected")
    /\ UNCHANGED <<branch, tree, commits, pushed>>

Vetted ==
    /\ answers["git_review"] = "approved" /\ reviewed = tree
    /\ attempt \in tree
    /\ {"validation_pre_apply", "validation_post_apply"} \subseteq DOMAIN answers

Committed ==
    commits' = Append(commits,
                      [tree |-> tree, branch |-> branch, attempt |-> attempt, vetted |-> Vetted])

(* The branch is looked at again.                                            *)
Commit ==
    /\ At("commit")
    /\ IF SafeBranch
       THEN Answer("commit", "done") /\ Committed
       ELSE Fails("security") /\ UNCHANGED commits
    /\ UNCHANGED <<branch, tree, reviewed, pushed>>

(* The engine pushes the branch, with the commits of earlier attempts.       *)
Push ==
    /\ At("push")
    /\ Answered("push", "done")
    /\ pushed' = Len(commits)
    /\ status' = "success"
    /\ reports' = Append(reports, "success")
    /\ UNCHANGED <<branch, attempt, stage, error, tree, reviewed, commits>>

(* An engine raises, before or after it did what it does.  An answer of the  *)
(* review that is no mapping raises outside of the stage.                    *)
Raise ==
    /\ status = "running" /\ error = Nothing
    /\ At("commit") => SafeBranch
    /\ \E e \in {"security", "validation", "rejected", "stage"}
                \cup (IF At("git_review") THEN {"unexpected"} ELSE {}) : Fails(e)
    /\ tree' \in {tree} \cup (IF At("patch_application") THEN {tree \cup {attempt}} ELSE {})
    /\ UNCHANGED commits \/ (At("commit") /\ Committed)
    /\ pushed' \in {pushed} \cup (IF At("push") THEN {Len(commits)} ELSE {})
    /\ UNCHANGED <<branch, reviewed>>

-----------------------------------------------------------------------------
(* The end of an attempt                                                     *)

Abort ==
    /\ status = "running" /\ error = "security"
    /\ status' = "aborted"
    /\ reports' = Append(reports, error)
    /\ UNCHANGED <<branch, attempt, stage, error, answers, repo_vars>>

(* should_retry says no, or raises.                                          *)
GiveUp ==
    /\ status = "running" /\ error \notin {Nothing, "security"}
    /\ status' = "failed"
    /\ reports' = Append(reports, error)
    /\ UNCHANGED <<branch, attempt, stage, error, answers, repo_vars>>

(* A new attempt has nothing of the context of the one before.               *)
Retry ==
    /\ status = "running" /\ error \notin {Nothing, "security"}
    /\ attempt < MaxAttempts
    /\ reports' = Append(reports, error)
    /\ attempt' = attempt + 1 /\ stage' = 1 /\ error' = Nothing
    /\ answers' = [s \in {} |-> Nothing]
    /\ UNCHANGED <<branch, status, repo_vars>>

(* Between attempts and stages nothing else writes to the repository.        *)
Next ==
    \/ Prepare \/ ValidatePatches \/ ApplyPatches \/ ValidateTree
    \/ Review \/ Commit \/ Push \/ Raise
    \/ Abort \/ GiveUp \/ Retry

Spec == Init /\ [][Next]_vars

-----------------------------------------------------------------------------
(* What is committed was, in the same attempt, approved by the review after  *)
(* both validations had run, as it is committed and on a branch that is not  *)
(* protected, whatever earlier attempts left in the tree and whatever an     *)
(* engine made of the mission; a run that reports success has pushed its     *)
(* last commit; and every attempt is reported once.  What a validation       *)
(* answers, passed or not, is not looked at by the controller, nor here.     *)
CommittedWasReviewed ==
    /\ \A k \in DOMAIN commits : commits[k].vetted /\ commits[k].branch \notin Protected \cup {NoBranch}
    /\ status = "success" => /\ pushed = Len(commits)
                             /\ commits[pushed].attempt = attempt /\ commits[pushed].tree = tree
    /\ Len(reports) = IF status \in {"running", "raised"} THEN attempt - 1 ELSE attempt

-----------------------------------------------------------------------------
(* The inductive invariant: what each stage may rely on of those before it.  *)

ControllerTypeOK ==
    /\ status \in {"running", "raised", "aborted", "failed", "success"}
    /\ attempt \in Nat \ {0} /\ stage \in 1 .. Len(Stages)
    /\ reports \in Seq({"success", "security", "validation", "rejected", "stage", "unexpected"})
    /\ error \in {Nothing, "security", "validation", "rejected", "stage", "unexpected"}
    /\ commits \in Seq([tree : SUBSET Nat, branch : Branches, attempt : Nat, vetted : BOOLEAN])
    /\ tree \subseteq Nat /\ branch \in Branches \cup {NoBranch}

LastCommitIsOurs ==
    /\ commits # <<>>
    /\ commits[Len(commits)].attempt = attempt /\ commits[Len(commits)].tree = tree

StagesDone ==
    status = "running" /\ error = Nothing =>
        /\ stage > 5 => "validation_pre_apply" \in DOMAIN answers
        /\ stage > 6 => attempt \in tree
        /\ stage > 7 => "validation_post_apply" \in DOMAIN answers
        /\ stage > 8 => /\ "git_review" \in DOMAIN answers
                        /\ answers["git_review"] = "approved" /\ reviewed = tree
        /\ stage > 9 => LastCommitIsOurs

Reviewed ==
    ControllerTypeOK /\ StagesDone /\ CommittedWasReviewed
    /\ (status = "success" => commits # <<>>)
=============================================================================
