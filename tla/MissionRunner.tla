--------------------------- MODULE MissionRunner ---------------------------
(***************************************************************************)
(* The native mission runner (agent/ai/mission_runner.py) with its bounded *)
(* self healing (agent/repair/mission_adapter.py, integration.py), as the  *)
(* production controller starts it in the one checkout of the repository:  *)
(* a branch, generated files, validation, up to MaxRepairs rounds of       *)
(* repair, a commit and a push, and the recovery after a failure.  Main    *)
(* does not move here; ManualReviewApproval and MissionExecution have the  *)
(* merges.  What is generated is data: who wrote a file, and in which      *)
(* round.  What .gitignore names, git neither shows, adds nor removes.     *)
(***************************************************************************)
EXTENDS Naturals

CONSTANTS
    Missions,          (* missions whose definitions the API writes           *)
    Files,             (* paths that missions deliver                         *)
    Deliverables,      (* Missions -> SUBSET Files                            *)
    Tracked,           (* files that main has                                 *)
    UnderAgent,        (* files below agent/                                  *)
    Ignored,           (* files that .gitignore names                         *)
    MaxRepairs,        (* MissionRepairAdapter.MAX_ATTEMPTS                   *)
    MaxRuns            (* bound on the runs                                   *)

OfMain == [by |-> "main"]
Absent == [by |-> "nobody"]
MainTree == [f \in Files |-> IF f \in Tracked THEN OfMain ELSE Absent]
NoMission == "no_mission"
Seen == Files \ Ignored

VARIABLES
    tree,           (* the files of the checkout                              *)
    head,           (* the branch it is on: main, or the mission it is for    *)
    definitions,    (* definitions in agent/missions git does not track       *)
    mission, pc,    (* the run                                                *)
    round,          (* 0: the first generation, then repairs                  *)
    left,           (* files of this round that are not written yet           *)
    validated,      (* the tree the last validation that passed has seen      *)
    branch,         (* per mission: its last commit, as a tree                *)
    pushed,         (* missions whose commit is on origin, with what the
                       validation saw and what was committed                  *)
    runs,
    added           (* what the last run delivers is in the index             *)

run_vars == <<mission, pc, round, left>>
vars == <<tree, head, definitions, run_vars, validated, branch, pushed, runs, added>>

Init ==
    /\ tree = MainTree /\ head = "main"
    /\ definitions = {}
    /\ mission = NoMission /\ pc = "idle" /\ round = 0 /\ left = {}
    /\ validated = MainTree
    /\ branch = [m \in Missions |-> MainTree]
    /\ pushed = {}
    /\ runs = 0 /\ added = FALSE

Go(place) == pc' = place /\ UNCHANGED <<mission, round, left>>

(* The API writes a definition, whatever the runner is doing.                *)
Define(m) ==
    /\ m \notin definitions
    /\ definitions' = definitions \cup {m}
    /\ UNCHANGED <<tree, head, run_vars, validated, branch, pushed, runs, added>>

-----------------------------------------------------------------------------
(* Mutant of Clean: what git does not track is not looked at.                *)
CleanEnough(m) == (\A f \in Tracked : tree[f] = OfMain) /\ ~added

(* require_clean_repository(): of what git shows, the only untracked path is *)
(* the definition of this mission.                                           *)
Clean(m) ==
    /\ \A f \in Seen : tree[f] = MainTree[f]
    /\ definitions \subseteq {m} /\ ~added

(* load_mission() to create_branch()                                         *)
Start(m) ==
    /\ pc = "idle"
    /\ m \in definitions
    /\ Clean(m) /\ head = "main"
    /\ runs < MaxRuns
    /\ runs' = runs + 1
    /\ head' = m
    /\ branch' = [branch EXCEPT ![m] = MainTree]
    /\ mission' = m /\ pc' = "generate" /\ round' = 0 /\ left' = {}
    /\ UNCHANGED <<tree, definitions, validated, pushed, added>>

Refuse(m) ==
    /\ pc = "idle"
    /\ m \in definitions
    /\ ~(Clean(m) /\ head = "main")
    /\ runs < MaxRuns
    /\ runs' = runs + 1
    /\ Go("switch")
    /\ UNCHANGED <<tree, head, definitions, validated, branch, pushed, added>>

(* A round that failed before all files were written: the first ends the run,*)
(* a repair is followed by a validation of whatever there is.                *)
RoundFails == IF round = 0 THEN Go("recover") ELSE Go("validate")

(* CodeGenerator.generate() and parse_generation()                           *)
Generate ==
    /\ pc = "generate"
    /\ \/ /\ pc' = "write" /\ left' = Deliverables[mission]
          /\ UNCHANGED <<mission, round>>
       \/ RoundFails
    /\ UNCHANGED <<tree, head, definitions, validated, branch, pushed, runs, added>>

(* write_generated_files(), file by file: a path outside the allowlist or    *)
(* locked, forbidden content, a duplicate or a missing deliverable stops it. *)
Write ==
    /\ pc = "write"
    /\ \E f \in left :
        /\ tree' = [tree EXCEPT ![f] = [by |-> mission, round |-> round]]
        /\ left' = left \ {f}
    /\ UNCHANGED <<mission, pc, round, head, definitions, validated, branch, pushed, runs, added>>

WriteEnds ==
    /\ pc = "write"
    /\ IF left = {} THEN Go("validate") ELSE RoundFails
    /\ UNCHANGED <<tree, head, definitions, validated, branch, pushed, runs, added>>

(* py_compile and the whole test suite, on the checkout as it is.            *)
ValidationPasses ==
    /\ pc \in {"validate", "revalidate"}
    /\ validated' = tree
    /\ Go("add")
    /\ UNCHANGED <<tree, head, definitions, branch, pushed, runs, added>>

(* A failure of the first generation is confirmed once by the coordinator;   *)
(* then come its repairs.                                                    *)
ValidationFails ==
    /\ \/ pc = "validate" /\ round = 0 /\ Go("revalidate")
       \/ pc = "validate" /\ round = MaxRepairs /\ Go("recover")
       \/ /\ \/ pc = "revalidate"
             \/ pc = "validate" /\ round \in 1 .. MaxRepairs - 1
          /\ pc' = "generate" /\ round' = round + 1
          /\ UNCHANGED <<mission, left>>
    /\ UNCHANGED <<tree, head, definitions, validated, branch, pushed, runs, added>>

(* The validation cannot be started at all: no repair.                       *)
ValidationBreaks ==
    /\ pc = "validate" /\ round = 0
    /\ Go("recover")
    /\ UNCHANGED <<tree, head, definitions, validated, branch, pushed, runs, added>>

-----------------------------------------------------------------------------
(* git add of the deliverables and the definition.  It adds what it can, but *)
(* fails when one is ignored, and it may fail before.                        *)
Add ==
    /\ pc = "add"
    /\ \/ /\ added' = TRUE
          /\ Go(IF Deliverables[mission] \subseteq Seen THEN "commit" ELSE "recover")
       \/ added' = added /\ Go("recover")
    /\ UNCHANGED <<tree, head, definitions, validated, branch, pushed, runs>>

(* git commit of what is in the index.                                       *)
Commit ==
    /\ pc = "commit"
    /\ \/ /\ branch' = [branch EXCEPT ![mission] =
                [f \in Files |-> IF f \in Deliverables[mission] THEN tree[f]
                                 ELSE branch[mission][f]]]
          /\ definitions' = definitions \ {mission} /\ added' = FALSE
          /\ Go("push")
       \/ UNCHANGED <<branch, definitions, added>> /\ Go("recover")
    /\ UNCHANGED <<tree, head, validated, pushed, runs>>

Push ==
    /\ pc = "push"
    /\ \/ /\ pushed' = pushed \cup {[seen |-> validated, commit |-> branch[mission]]}
          /\ Go("switch")
       \/ pushed' = pushed /\ Go("recover")
    /\ UNCHANGED <<tree, head, definitions, validated, branch, runs, added>>

(* recover_failed_mission(): reset --hard, which also removes what was added,*)
(* then clean of what git neither tracks nor ignores below agent/,           *)
(* definitions included.  Neither result is looked at.                       *)
Recover ==
    LET base == branch[mission]
        InIndex(f) == base[f] # Absent \/ (added /\ f \in Deliverables[mission] \cap Seen)
        Reset == [f \in Files |-> IF InIndex(f) THEN base[f] ELSE tree[f]]
        Cleaned == [f \in Files |-> IF f \in UnderAgent \cap Seen /\ base[f] = Absent
                                    THEN Absent ELSE Reset[f]]
        Kept == [f \in Files |-> IF f \in UnderAgent \cap Seen /\ ~InIndex(f)
                                 THEN Absent ELSE tree[f]]
        Undefined == IF added THEN {mission} ELSE {}
    IN  /\ pc = "recover"
        /\ \/ tree' = tree /\ UNCHANGED <<definitions, added>>
           \/ tree' = Reset /\ definitions' = definitions \ Undefined /\ added' = FALSE
           \/ tree' = Cleaned /\ definitions' = {} /\ added' = FALSE
           \/ tree' = Kept /\ definitions' = definitions \cap Undefined /\ added' = added
        /\ Go("switch")
        /\ UNCHANGED <<head, validated, branch, pushed, runs>>

-----------------------------------------------------------------------------
(* The controller: a run that takes too long is killed between two of its    *)
(* steps, and main is checked out after every run, which takes along what    *)
(* git does not track and what was changed but not committed.                *)
Timeout ==
    /\ pc \notin {"idle", "switch"}
    /\ Go("switch")
    /\ UNCHANGED <<tree, head, definitions, validated, branch, pushed, runs, added>>

RestoreMain ==
    LET old == IF head = "main" THEN MainTree ELSE branch[head] IN
    /\ pc = "switch"
    /\ \/ /\ head' = "main"
          /\ tree' = [f \in Files |-> IF tree[f] = old[f] THEN MainTree[f] ELSE tree[f]]
       \/ UNCHANGED <<head, tree>>
    /\ mission' = NoMission /\ pc' = "idle" /\ round' = 0 /\ left' = {}
    /\ UNCHANGED <<definitions, validated, branch, pushed, runs, added>>

Next ==
    \/ \E m \in Missions : Define(m) \/ Start(m) \/ Refuse(m)
    \/ Generate \/ Write \/ WriteEnds
    \/ ValidationPasses \/ ValidationFails \/ ValidationBreaks
    \/ Add \/ Commit \/ Push \/ Recover \/ Timeout \/ RestoreMain

Spec == Init /\ [][Next]_vars

-----------------------------------------------------------------------------
(* What is pushed is what was validated: the tests never passed thanks to a  *)
(* file that is not in the commit, left behind by a run that failed or was   *)
(* killed, or by a round of repair that stopped half way.  An ignored file   *)
(* is the exception: one that a run delivered stays, whatever cleans up, and *)
(* the tests of later runs see it.                                           *)
PushedIsWhatPassed == \A p \in pushed : \A f \in Seen : p.seen[f] = p.commit[f]
-----------------------------------------------------------------------------
(* The inductive invariant of PushedIsWhatPassed.                            *)

Contents == {OfMain, Absent} \cup [by : Missions, round : Nat]
BeforeCommit == {"generate", "write", "validate", "revalidate", "add", "commit"}

RunnerTypeOK ==
    /\ tree \in [Files -> Contents] /\ validated \in [Files -> Contents]
    /\ branch \in [Missions -> [Files -> Contents]]
    /\ head \in Missions \cup {"main"}
    /\ pc \in BeforeCommit \cup {"idle", "push", "recover", "switch"}
    /\ pc \notin {"idle", "switch"} => mission \in Missions
    /\ round \in Nat

(* Until it commits, a run has main under it, and in its checkout nothing    *)
(* else than main but what it delivers itself.                               *)
CheckoutIsItsOwn ==
    pc \in BeforeCommit =>
        /\ branch[mission] = MainTree
        /\ left \subseteq Deliverables[mission]
        /\ \A f \in Seen \ Deliverables[mission] : tree[f] = MainTree[f]

PassedIsPushed ==
    /\ RunnerTypeOK /\ CheckoutIsItsOwn
    /\ pc \in {"add", "commit"} => validated = tree
    /\ pc = "push" => \A f \in Seen : validated[f] = branch[mission][f]
    /\ PushedIsWhatPassed
=============================================================================
