------------------------ MODULE TechnologyLifecycle ------------------------
(***************************************************************************)
(* The life of one watched technology (agent/technology,                   *)
(* agent/resilience/replacement_mission_bridge.py and the lifecycle hook   *)
(* of the worker): it is observed, evaluated by a mission, planned for     *)
(* assimilation as one mission per capability, and replaced natively when  *)
(* all of them are merged.  Its record is in a file every process reads    *)
(* once, when it starts, and writes as a whole with every update, without  *)
(* a lock.  Its kind, name, scores and urls are left out.                  *)
(***************************************************************************)
CONSTANTS
    Workers,        (* processes with the lifecycle hook: they reconcile      *)
    Tools,          (* processes that watch and plan                          *)
    Capabilities,   (* what the technology can do                             *)
    Versions,       (* versions that are observed                             *)
    Reasons         (* reasons an assimilation is asked for with              *)

Processes == Workers \cup Tools
Recommendations == {"reject", "watch", "assimilate_candidate"}   (* "sandbox" is as "watch" *)
NoVersion == "no_version"
Evaluation(v) == <<"evaluate", v>>                  (* ids of missions        *)
Replacement(c, reason) == <<"replace", c, reason>>
LifecycleMissions == {Evaluation(v) : v \in Versions}
                     \cup {Replacement(c, s) : c \in Capabilities, s \in Reasons}

Unknown ==
    [state |-> "unknown", evaluation |-> "not_evaluated", assimilation |-> "none",
     version |-> NoVersion, capabilities |-> {}, adopted |-> {}, plan |-> {},
     evaluated |-> <<>>, since |-> {}]   (* since: history, capabilities
                                            observed after the completion     *)

VARIABLES
    file,       (* the record in the registry's file                          *)
    memory,     (* the record each process holds                              *)
    doing,      (* the call each process is in                                *)
    queue,      (* missions that were enqueued                                *)
    report,     (* the last report of each mission                            *)
    merged      (* history: missions with a validated report of their merge   *)

vars == <<file, memory, doing, queue, report, merged>>

Idle == [call |-> "none"]
Free(p) == doing[p] = Idle
Begin(p, d) == doing' = [doing EXCEPT ![p] = d]
Known(p) == memory[p].state # "unknown"

(* TechnologyRegistry.update(): the record in memory changes, then the file. *)
(* If the file cannot be written the call ends, with the memory changed.     *)
Update(p, r, next) ==
    /\ memory' = [memory EXCEPT ![p] = r]
    /\ \/ file' = r /\ Begin(p, next)
       \/ file' = file /\ Begin(p, Idle)

Init ==
    /\ file = Unknown
    /\ memory = [p \in Processes |-> Unknown]
    /\ doing = [p \in Processes |-> Idle]
    /\ queue = {}
    /\ report = [m \in LifecycleMissions |-> "none"]
    /\ merged = {}

-----------------------------------------------------------------------------
(* TechnologyWatcher: a source shows a version with some capabilities.       *)

Observed(r, v, seen) ==
    [r EXCEPT !.state = IF @ = "unknown" THEN "discovered" ELSE @,
              !.version = v,
              !.capabilities = @ \cup seen,
              !.since = IF r.state = "native_replaced"
                        THEN @ \cup (seen \ r.capabilities) ELSE @]

Observe(p, v, seen) ==
    /\ Free(p)
    /\ Observed(memory[p], v, seen) # memory[p]
    /\ Update(p, Observed(memory[p], v, seen), Idle)
    /\ UNCHANGED <<queue, report, merged>>

(* TechnologyEvaluationMissionBridge.enqueue() of a candidate.               *)
RequestEvaluation(p) ==
    LET m == Evaluation(memory[p].version) IN
    /\ Free(p) /\ Known(p)
    /\ m \notin queue
    /\ queue' = queue \cup {m}
    /\ UNCHANGED <<file, memory, doing, report, merged>>

(* The worker executes a mission and persists the report.  A mission that    *)
(* completed is not executed again; it may have completed without a merge.   *)
Execute(m, outcome) ==
    /\ m \in queue
    /\ report[m] \notin {"merged", "unmerged", outcome}
    /\ report' = [report EXCEPT ![m] = outcome]
    /\ merged' = IF outcome = "merged" THEN merged \cup {m} ELSE merged
    /\ UNCHANGED <<file, memory, doing, queue>>

-----------------------------------------------------------------------------
(* TechnologyEvaluationResultReconciler.reconcile(), called by the hook.     *)

Evaluated(r, m, recommendation) ==
    [r EXCEPT !.evaluation = "passed",
              !.evaluated = <<m, recommendation>>,
              !.state = IF recommendation = "reject" THEN "rejected" ELSE @,
              !.assimilation = IF recommendation = "assimilate_candidate"
                               THEN "candidate" ELSE "none"]

(* What the mission of a version left in main: an artifact a model wrote,    *)
(* about this mission or not, with a recommendation or something else, which *)
(* allows the adoption as it is or not.                                      *)
Artifacts(v) ==
    [mission : {Evaluation(v), Evaluation(NoVersion)},
     recommendation : Recommendations \cup {"adopt"},
     adopts : BOOLEAN]

Identified(artifact, m) ==
    artifact.mission = m /\ artifact.recommendation \in Recommendations

HumanReviewed(artifact) == ~artifact.adopts

(* The report is a validated one of a merge, the artifact is in order, and   *)
(* the same result was not the last one applied.                             *)
ReconcileEvaluation(p, v, artifact) ==
    LET m == Evaluation(v) IN
    /\ Free(p) /\ Known(p)
    /\ report[m] = "merged"
    /\ Identified(artifact, m) /\ HumanReviewed(artifact)
    /\ memory[p].evaluated # <<m, artifact.recommendation>>
    /\ Update(p, Evaluated(memory[p], m, artifact.recommendation), Idle)
    /\ UNCHANGED <<queue, report, merged>>

-----------------------------------------------------------------------------
(* NativeAssimilationMissionBridge.enqueue(): the plan is recorded, a        *)
(* mission is queued for each capability, the record moves on.               *)

Admissible(r, wanted) ==
    r.evaluation = "passed" /\ wanted # {} /\ wanted \subseteq r.capabilities

Plan(p, wanted, reason) ==
    LET missions == {Replacement(c, reason) : c \in wanted} IN
    /\ Free(p)
    /\ Admissible(memory[p], wanted)
    /\ Update(p, [memory[p] EXCEPT !.state = "assimilating", !.assimilation = "planned",
                                   !.plan = missions],
              [call |-> "enqueue", missions |-> missions])
    /\ UNCHANGED <<queue, report, merged>>

(* The queue refuses an id it has, and the call ends.                        *)
EnqueueReplacement(p) ==
    /\ doing[p].call = "enqueue"
    /\ \E m \in doing[p].missions :
        /\ queue' = queue \cup {m}
        /\ Begin(p, IF m \in queue THEN Idle
                    ELSE [doing[p] EXCEPT !.missions = @ \ {m}])
    /\ UNCHANGED <<file, memory, report, merged>>

Planned(p) ==
    /\ doing[p].call = "enqueue" /\ doing[p].missions = {}
    /\ Update(p, [memory[p] EXCEPT !.assimilation = "in_progress"], Idle)
    /\ UNCHANGED <<queue, report, merged>>

-----------------------------------------------------------------------------
(* AssimilationLifecycleReconciler.reconcile(), which the hook calls after   *)
(* the report of any mission of the technology.                              *)

(* _classify_report()                                                        *)
Verdict(m) ==
    CASE report[m] \in {"none", "retrying"} -> "pending"
      [] report[m] = "merged" -> "successful"
      [] OTHER -> "failed"

(* The capabilities of a plan whose missions came out so.                    *)
Capable(plan, verdict) == {m[2] : m \in {n \in plan : Verdict(n) = verdict}}

HasPlan(r) == r.plan # {}

Reconcile(p) ==
    LET r == memory[p]
    IN  /\ Free(p)
        /\ HasPlan(r)
        /\ ~(r.assimilation = "complete" /\ r.state = "native_replaced")
        /\ Begin(p, [call |-> "reconcile", adopt |-> Capable(r.plan, "successful") \ r.adopted,
                     open |-> Capable(r.plan, "pending") \cup Capable(r.plan, "failed")])
        /\ UNCHANGED <<file, memory, queue, report, merged>>

(* mark_native_available()                                                   *)
Adopt(p) ==
    /\ doing[p].call = "reconcile"
    /\ \E c \in doing[p].adopt :
        Update(p, [memory[p] EXCEPT !.adopted = @ \cup {c},
                                    !.assimilation = "native_available"],
               [doing[p] EXCEPT !.adopt = @ \ {c}])
    /\ UNCHANGED <<queue, report, merged>>

(* Mutant of IsNative: what the plan wanted is enough.                       *)
IsNativeAsPlanned(r) == r.capabilities # {}

IsNative(r) == r.capabilities # {} /\ r.capabilities \subseteq r.adopted

(* complete(), which refuses while a known capability is not adopted: one    *)
(* that the plan left out, or that was observed since.                       *)
Complete(p) ==
    /\ doing[p].call = "reconcile" /\ doing[p].adopt = {} /\ doing[p].open = {}
    /\ IF IsNative(memory[p])
       THEN Update(p, [memory[p] EXCEPT !.state = "native_replaced",
                                        !.assimilation = "complete", !.since = {}],
                   [call |-> "diagnose"])
       ELSE Begin(p, Idle) /\ UNCHANGED <<file, memory>>
    /\ UNCHANGED <<queue, report, merged>>

(* _persist_diagnostics() writes the record again.                           *)
Diagnose(p) ==
    /\ \/ doing[p].call = "diagnose"
       \/ doing[p].call = "reconcile" /\ doing[p].adopt = {} /\ doing[p].open # {}
    /\ Update(p, memory[p], Idle)
    /\ UNCHANGED <<queue, report, merged>>

-----------------------------------------------------------------------------
(* A process ends, also within a call, and a new one reads the file.         *)
Restart(p) ==
    /\ memory' = [memory EXCEPT ![p] = file]
    /\ Begin(p, Idle)
    /\ UNCHANGED <<file, queue, report, merged>>

ToolStep(p) ==
    \/ \E v \in Versions, seen \in SUBSET Capabilities : Observe(p, v, seen)
    \/ RequestEvaluation(p)
    \/ \E wanted \in SUBSET Capabilities, reason \in Reasons : Plan(p, wanted, reason)
    \/ EnqueueReplacement(p) \/ Planned(p)

WorkerStep(p) ==
    \/ \E v \in Versions : \E artifact \in Artifacts(v) :
            ReconcileEvaluation(p, v, artifact)
    \/ Reconcile(p) \/ Adopt(p) \/ Complete(p) \/ Diagnose(p)

Next ==
    \/ (\E p \in Tools : ToolStep(p)) \/ (\E p \in Workers : WorkerStep(p))
    \/ \E p \in Processes : Restart(p)
    \/ \E m \in LifecycleMissions, outcome \in {"retrying", "failed", "unmerged", "merged"} :
            Execute(m, outcome)

Spec == Init /\ [][Next]_vars

-----------------------------------------------------------------------------
(* A technology a registry calls natively replaced was: every capability it  *)
(* had at that moment was built by a mission whose merge into main was       *)
(* validated, however plans, evaluations, stale writes of other processes    *)
(* and lost updates were interleaved.                                        *)
ReplacedIsNative ==
    \A r \in {file} \cup {memory[p] : p \in Processes} :
        r.state = "native_replaced" =>
            \A c \in r.capabilities \ r.since :
                /\ c \in r.adopted
                /\ \E reason \in Reasons : Replacement(c, reason) \in merged
-----------------------------------------------------------------------------
(* The inductive invariant of ReplacedIsNative.                              *)

Replacements == {Replacement(c, s) : c \in Capabilities, s \in Reasons}
Record ==
    [state : {"unknown", "discovered", "rejected", "assimilating", "native_replaced"},
     evaluation : {"not_evaluated", "passed"},
     assimilation : {"none", "candidate", "planned", "in_progress", "native_available", "complete"},
     version : Versions \cup {NoVersion}, capabilities : SUBSET Capabilities,
     adopted : SUBSET Capabilities, plan : SUBSET Replacements,
     evaluated : {<<>>} \cup (LifecycleMissions \X Recommendations), since : SUBSET Capabilities]
Calls ==
    {Idle, [call |-> "diagnose"]} \cup [call : {"enqueue"}, missions : SUBSET Replacements]
    \cup [call : {"reconcile"}, adopt : SUBSET Capabilities, open : SUBSET Capabilities]

TechnologyTypeOK ==
    /\ file \in Record /\ memory \in [Processes -> Record]
    /\ doing \in [Processes -> Calls]
    /\ report \in [LifecycleMissions -> {"none", "retrying", "failed", "unmerged", "merged"}]

(* The capabilities a merged mission built.                                  *)
Built == {c \in Capabilities : \E s \in Reasons : Replacement(c, s) \in merged}

(* What is adopted was built, and what a complete record has is adopted.     *)
Sound(r) ==
    /\ r.adopted \subseteq Built
    /\ r.state = "native_replaced" => r.capabilities \ r.since \subseteq r.adopted

ReplacedSoundly ==
    /\ TechnologyTypeOK
    /\ \A m \in LifecycleMissions : report[m] = "merged" => m \in merged
    /\ Sound(file) /\ \A p \in Processes : Sound(memory[p])
    /\ \A p \in Processes : doing[p].call = "reconcile" => doing[p].adopt \subseteq Built
=============================================================================
