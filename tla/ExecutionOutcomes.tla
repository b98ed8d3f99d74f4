-------------------------- MODULE ExecutionOutcomes -------------------------
(***************************************************************************)
(* What becomes of the outcome of an execution: the coordinator of         *)
(* agent/execution/execution_outcome_coordinator.py moves the mission,     *)
(* records the usage in the ledger (agent/providers/                       *)
(* provider_usage_ledger.py) and has the report persisted by               *)
(* agent/execution/execution_report_writer.py.  Coordinators live in the   *)
(* memory of their process, the ledger and the reports are shared files,   *)
(* and the same outcome may be delivered again, anywhere, at any time.     *)
(***************************************************************************)
EXTENDS Naturals, FiniteSets

CONSTANTS
    Processes,    (* processes with a coordinator and a report writer         *)
    Workers,      (* their threads                                            *)
    ProcessOf,    (* the process of each thread                               *)
    Executions,
    MaxRestarts   (* bound: how often each process dies                       *)

Nobody == "nobody"
Nothing == "nothing"

VARIABLES
    pc, outcome,      (* of each thread: where it is, with which execution    *)
    inflight,         (* of each coordinator: executions being processed      *)
    results,          (* of each coordinator: executions with a final result  *)
    usage,            (* records in the ledger of each execution, by the
                         process that made them                               *)
    reported,         (* executions whose report is on the disk               *)
    holder,           (* process whose handle holds the lock of the reports   *)
    owner,            (* thread that acquired the lock object of each process *)
    leaked,           (* history: executions an exception left in inflight    *)
    rewritten,        (* history: executions whose report was replaced        *)
    shared,           (* history: a thread entered while one of its own
                         process was inside the lock                          *)
    restarts          (* of each process                                      *)

coordinator_vars == <<inflight, results, leaked>>
writer_vars == <<reported, holder, owner, rewritten, shared>>
vars == <<pc, outcome, coordinator_vars, usage, writer_vars, restarts>>

Go(t, place) == pc' = [pc EXCEPT ![t] = place]
P(t) == ProcessOf[t]

(* The call is over.                                                         *)
Leave(t) ==
    /\ Go(t, "idle")
    /\ outcome' = [outcome EXCEPT ![t] = Nothing]

-----------------------------------------------------------------------------
(* ExecutionOutcomeCoordinator.process().                                    *)

Receive(t, e) ==
    /\ pc[t] = "idle"
    /\ Go(t, "validating")
    /\ outcome' = [outcome EXCEPT ![t] = e]
    /\ UNCHANGED <<coordinator_vars, usage, writer_vars, restarts>>

(* validate_outcome refuses it: the answer says so and nothing changed.      *)
Refuse(t) ==
    /\ pc[t] = "validating"
    /\ Leave(t)
    /\ UNCHANGED <<coordinator_vars, usage, writer_vars, restarts>>

(* Mutant of Reserve: only finished executions count as duplicates.          *)
ReserveFinished(t) ==
    /\ pc[t] = "validating"
    /\ IF outcome[t] \in results[P(t)]
       THEN Leave(t) /\ UNCHANGED inflight
       ELSE /\ inflight' = [inflight EXCEPT ![P(t)] = @ \cup {outcome[t]}]
            /\ Go(t, "resolving")
            /\ UNCHANGED outcome
    /\ UNCHANGED <<results, leaked, usage, writer_vars, restarts>>

(* Under the coordinator's lock: a finished execution is answered with its   *)
(* result, one in flight as a duplicate.                                     *)
Reserve(t) ==
    /\ pc[t] = "validating"
    /\ IF outcome[t] \in results[P(t)] \cup inflight[P(t)]
       THEN Leave(t) /\ UNCHANGED inflight
       ELSE /\ inflight' = [inflight EXCEPT ![P(t)] = @ \cup {outcome[t]}]
            /\ Go(t, "resolving")
            /\ UNCHANGED outcome
    /\ UNCHANGED <<results, leaked, usage, writer_vars, restarts>>

(* _finalize_result: whatever the result is, it is the last word.            *)
Finalize(t) ==
    /\ results' = [results EXCEPT ![P(t)] = @ \cup {outcome[t]}]
    /\ inflight' = [inflight EXCEPT ![P(t)] = @ \ {outcome[t]}]
    /\ Leave(t)
    /\ UNCHANGED <<leaked, restarts>>

(* The project is resolved and the mission moved; either may fail.           *)
UpdateStatus(t) ==
    /\ pc[t] = "resolving"
    /\ \/ Go(t, "recording") /\ UNCHANGED <<outcome, coordinator_vars, restarts>>
       \/ Finalize(t)
    /\ UNCHANGED <<usage, writer_vars>>

(* The status writer's answer is no mapping: looking into it raises, the     *)
(* call ends with an exception, and nobody takes the execution out of        *)
(* inflight.                                                                 *)
StatusRaises(t) ==
    /\ pc[t] = "resolving"
    /\ leaked' = leaked \cup {<<P(t), outcome[t]>>}
    /\ Leave(t)
    /\ UNCHANGED <<inflight, results, usage, writer_vars, restarts>>

(* The ledger takes the record, whose usage id is new, or fails.             *)
RecordUsage(t) ==
    /\ pc[t] = "recording"
    /\ \/ /\ usage' = [usage EXCEPT ![P(t)][outcome[t]] = @ + 1]
          /\ Go(t, "reporting")
          /\ UNCHANGED <<outcome, coordinator_vars, restarts>>
       \/ Finalize(t) /\ UNCHANGED usage
    /\ UNCHANGED writer_vars

(* validate_report refuses the report.                                       *)
ReportRefused(t) ==
    /\ pc[t] = "reporting"
    /\ Finalize(t)
    /\ UNCHANGED <<usage, writer_vars>>

-----------------------------------------------------------------------------
(* ExecutionReportWriter.store_report() and its lock.                        *)

(* A handle of the process that is open already is locked already: flock     *)
(* says yes at once, and the newcomer becomes the owner.                     *)
Acquire(t) ==
    /\ pc[t] = "reporting"
    /\ holder \in {Nobody, P(t)}
    /\ shared' = (shared \/ holder = P(t))
    /\ holder' = P(t)
    /\ owner' = [owner EXCEPT ![P(t)] = t]
    /\ Go(t, "looking")
    /\ UNCHANGED <<outcome, coordinator_vars, usage, reported, rewritten, restarts>>

(* os.path.exists: a report that is there stays, and is the answer.          *)
Look(t) ==
    /\ pc[t] = "looking"
    /\ Go(t, IF outcome[t] \in reported THEN "releasing" ELSE "writing")
    /\ UNCHANGED <<outcome, coordinator_vars, usage, writer_vars, restarts>>

(* _atomic_write: a temporary file is renamed over the target, or fails.     *)
Write(t) ==
    /\ pc[t] = "writing"
    /\ \/ /\ reported' = reported \cup {outcome[t]}
          /\ rewritten' = rewritten \cup ({outcome[t]} \cap reported)
       \/ UNCHANGED <<reported, rewritten>>
    /\ Go(t, "releasing")
    /\ UNCHANGED <<outcome, coordinator_vars, usage, holder, owner, shared, restarts>>

(* Only the owner unlocks; then the answer is final.                         *)
Release(t) ==
    /\ pc[t] = "releasing"
    /\ holder' = IF holder = P(t) /\ owner[P(t)] = t THEN Nobody ELSE holder
    /\ Finalize(t)
    /\ UNCHANGED <<usage, reported, owner, rewritten, shared>>

-----------------------------------------------------------------------------
(* A process dies: its coordinator forgets, its handle is closed.            *)
Restart(p) ==
    /\ restarts[p] < MaxRestarts[p]
    /\ restarts' = [restarts EXCEPT ![p] = @ + 1]
    /\ inflight' = [inflight EXCEPT ![p] = {}]
    /\ results' = [results EXCEPT ![p] = {}]
    /\ leaked' = {x \in leaked : x[1] # p}
    /\ pc' = [t \in Workers |-> IF P(t) = p THEN "idle" ELSE pc[t]]
    /\ holder' = IF holder = p THEN Nobody ELSE holder
    /\ outcome' = [t \in Workers |-> IF P(t) = p THEN Nothing ELSE outcome[t]]
    /\ UNCHANGED <<usage, reported, owner, rewritten, shared>>

Init ==
    /\ pc = [t \in Workers |-> "idle"]
    /\ outcome = [t \in Workers |-> Nothing]
    /\ inflight = [p \in Processes |-> {}]
    /\ results = [p \in Processes |-> {}]
    /\ usage = [p \in Processes |-> [e \in Executions |-> 0]]
    /\ reported = {}
    /\ holder = Nobody
    /\ owner = [p \in Processes |-> Nobody]
    /\ leaked = {}
    /\ rewritten = {}
    /\ shared = FALSE
    /\ restarts = [p \in Processes |-> 0]

Step(t) ==
    \/ \E e \in Executions : Receive(t, e)
    \/ Refuse(t)
    \/ Reserve(t)
    \/ UpdateStatus(t)
    \/ StatusRaises(t)
    \/ RecordUsage(t)
    \/ ReportRefused(t)
    \/ Acquire(t)
    \/ Look(t)
    \/ Write(t)
    \/ Release(t)

Next ==
    \/ \E t \in Workers : Step(t)
    \/ \E p \in Processes : Restart(p)

Spec == Init /\ [][Next]_vars

-----------------------------------------------------------------------------
(* The inductive invariant of OutcomesAreFinal.  What is in flight is with   *)
(* one thread, or was leaked and is with none; a record that was made in     *)
(* this life of the process belongs to a thread past it or to a result; and  *)
(* without two threads of one process inside, who stores has the lock alone. *)
Locked == {"looking", "writing", "releasing"}
Counted == {"reporting"} \cup Locked
Processing == {"resolving", "recording"} \cup Counted

OutcomesTypeOK ==
    /\ pc \in [Workers -> {"idle", "validating"} \cup Processing]
    /\ outcome \in [Workers -> Executions \cup {Nothing}]
    /\ \A t \in Workers : pc[t] # "idle" => outcome[t] \in Executions
    /\ inflight \in [Processes -> SUBSET Executions]
    /\ results \in [Processes -> SUBSET Executions]
    /\ usage \in [Processes -> [Executions -> Nat]]
    /\ restarts \in [Processes -> Nat]
    /\ owner \in [Processes -> Workers \cup {Nobody}]

WorkedOn(p, e) ==
    \E t \in Workers : P(t) = p /\ outcome[t] = e /\ pc[t] \in Processing

WithOneThread ==
    /\ \A t \in Workers : pc[t] \in Processing => outcome[t] \in inflight[P(t)]
    /\ \A t, u \in Workers :
          pc[t] \in Processing /\ pc[u] \in Processing /\ P(t) = P(u) /\ outcome[t] = outcome[u]
             => t = u

InFlight ==
    \A p \in Processes, e \in Executions :
        /\ e \in inflight[p] => e \notin results[p]
        /\ e \in inflight[p] => <<p, e>> \in leaked \/ WorkedOn(p, e)
        /\ <<p, e>> \in leaked => e \in inflight[p] /\ ~WorkedOn(p, e)

CountedOnce ==
    \A p \in Processes, e \in Executions :
        \/ usage[p][e] <= restarts[p]
        \/ /\ usage[p][e] = restarts[p] + 1
           /\ \/ e \in results[p]
              \/ \E t \in Workers : P(t) = p /\ outcome[t] = e /\ pc[t] \in Counted

StoredAlone ==
    ~shared =>
        /\ rewritten = {}
        /\ \A t \in Workers : pc[t] \in Locked => holder = P(t) /\ owner[P(t)] = t
        /\ \A t \in Workers : pc[t] = "writing" => outcome[t] \notin reported

SettledOnce ==
    /\ OutcomesTypeOK /\ WithOneThread /\ InFlight /\ CountedOnce /\ StoredAlone

(* An execution is processed once in the life of a coordinator, however      *)
(* often its outcome is delivered: its usage is in the ledger at most once   *)
(* for each process and each of its restarts, and one that is in flight is   *)
(* being worked on, unless an exception left it there.                       *)
ProcessedOnce ==
    /\ \A p \in Processes : \A e \in Executions : usage[p][e] <= 1 + restarts[p]
    /\ \A p \in Processes : \A e \in inflight[p] :
           \/ <<p, e>> \in leaked
           \/ \E t \in Workers : P(t) = p /\ outcome[t] = e

(* A report that was persisted is never replaced: the second one is told of  *)
(* the first.  That holds between processes, and between threads only if no  *)
(* two of one process store at the same time: the lock they share lets both  *)
(* in, and the one that leaves first unlocks it for every other process.     *)
ReportIsFinal ==
    rewritten # {} => shared

(* What became of an execution is settled once: its outcome is processed     *)
(* once, and its report is not replaced.                                     *)
OutcomesAreFinal == ProcessedOnce /\ ReportIsFinal
=============================================================================
