------------------------- MODULE RequestQueueAdapter ------------------------
(***************************************************************************)
(* Batches of planned missions entering the queue:                         *)
(* ProductionRequestQueueAdapter.enqueue_batch of                          *)
(* agent/runtime/production_request_queue_adapter.py, against a worker     *)
(* that claims from the same queue while a batch is being enqueued.        *)
(*                                                                         *)
(* A mission is two things: the definition file agent/missions/<id>.md and *)
(* the queue record.  Nothing writes both atomically, so each file write,  *)
(* each queue operation and each unlink is a step of its own.  Text,       *)
(* payload checks and rendering are left out: a batch the checks refuse    *)
(* changes nothing.                                                        *)
(***************************************************************************)
EXTENDS Integers, Sequences, FiniteSets

CONSTANTS
    Missions, MaxSeq,
    Submitters,      (* concurrent calls of enqueue_batch, one batch each      *)
    Batches,         (* what each call may submit: a set of sequences of
                        [id, dependencies] records                             *)
    RetryLimit,      (* max_retries of what it enqueues: 0 (MissionQueue), or the
                        default budget of AutonomousMissionQueue               *)
    MaxRecoveries,   (* bound: how often a restarted worker recovers           *)
    MaxCrashes       (* bound: how many submitting processes die               *)

Priorities == {0}
RetryLimits == {RetryLimit}

VARIABLES
    missions, next_seq,
    definitions,     (* the definition files that exist                        *)
    phase,           (* of each submitter                                      *)
    batch,           (* what it submits                                        *)
    position,        (* how many items the current phase has dealt with        *)
    enqueued,        (* how many of its missions it has enqueued               *)
    claimed,         (* history: missions the worker has ever claimed          *)
    blind,           (* history: missions claimed without a definition         *)
    torn,            (* history: missions a failing step left something of: a
                        file of a failed write or unlink, the queue record of
                        a failed dequeue                                       *)
    recoveries, crashes

Q == INSTANCE MissionQueue

queue_vars == <<missions, next_seq>>
call_vars == <<phase, batch, position, enqueued>>
history_vars == <<claimed, blind, torn>>
bound_vars == <<recoveries, crashes>>
vars == <<queue_vars, definitions, call_vars, history_vars, bound_vars>>

Active == {"writing", "enqueueing", "dequeuing", "unlinking"}

Ids(s) == {batch[s][i].id : i \in DOMAIN batch[s]}

Goes(s, place, i) ==
    /\ phase' = [phase EXCEPT ![s] = place]
    /\ position' = [position EXCEPT ![s] = i]

-----------------------------------------------------------------------------
(* enqueue_batch.                                                            *)

(* Every check that precedes the first write: the ids are distinct, no       *)
(* definition exists, and a dependency is in the batch or in the queue.      *)
Acceptable(b) ==
    LET ids == {b[i].id : i \in DOMAIN b}
    IN  /\ Cardinality(ids) = Len(b)
        /\ ids \cap definitions = {}
        /\ \A i \in DOMAIN b : b[i].dependencies \subseteq ids \cup DOMAIN missions

Submit(s) ==
    /\ phase[s] = "idle"
    /\ \E b \in Batches[s] :
          /\ batch' = [batch EXCEPT ![s] = b]
          /\ phase' = [phase EXCEPT ![s] = IF Acceptable(b) THEN "writing" ELSE "refused"]
    /\ UNCHANGED <<queue_vars, definitions, position, enqueued, history_vars, bound_vars>>

WriteDefinition(s) ==
    /\ phase[s] = "writing"
    /\ position[s] < Len(batch[s])
    /\ definitions' = definitions \cup {batch[s][position[s] + 1].id}
    /\ Goes(s, "writing", position[s] + 1)
    /\ UNCHANGED <<queue_vars, batch, enqueued, history_vars, bound_vars>>

(* A write that raises may have created the file, which is not in written.   *)
WriteFails(s) ==
    /\ phase[s] = "writing"
    /\ position[s] < Len(batch[s])
    /\ LET m == batch[s][position[s] + 1].id
       IN  \/ definitions' = definitions \cup {m} /\ torn' = torn \cup {m}
           \/ UNCHANGED <<definitions, torn>>
    /\ Goes(s, "unlinking", position[s])
    /\ UNCHANGED <<queue_vars, batch, enqueued, claimed, blind, bound_vars>>

StartEnqueueing(s) ==
    /\ phase[s] = "writing"
    /\ position[s] = Len(batch[s])
    /\ Goes(s, "enqueueing", 0)
    /\ UNCHANGED <<queue_vars, definitions, batch, enqueued, history_vars, bound_vars>>

EnqueueItem(s) ==
    /\ phase[s] = "enqueueing"
    /\ enqueued[s] < Len(batch[s])
    /\ LET item == batch[s][enqueued[s] + 1]
       IN  Q!Enqueue(item.id, 0, item.dependencies, RetryLimit)
    /\ enqueued' = [enqueued EXCEPT ![s] = @ + 1]
    /\ UNCHANGED <<definitions, phase, batch, position, history_vars, bound_vars>>

(* Mutant of EnqueueFails: the queue is not rolled back.                     *)
EnqueueFailsUnlink(s) ==
    /\ phase[s] = "enqueueing"
    /\ enqueued[s] < Len(batch[s])
    /\ Goes(s, "unlinking", Len(batch[s]))
    /\ UNCHANGED <<queue_vars, definitions, batch, enqueued, history_vars, bound_vars>>

(* enqueue() raises: the id is queued already, a cycle, or the queue file    *)
(* could not be written.                                                     *)
EnqueueFails(s) ==
    /\ phase[s] = "enqueueing"
    /\ enqueued[s] < Len(batch[s])
    /\ Goes(s, "dequeuing", 0)
    /\ UNCHANGED <<queue_vars, definitions, batch, enqueued, history_vars, bound_vars>>

Finish(s) ==
    /\ phase[s] = "enqueueing"
    /\ enqueued[s] = Len(batch[s])
    /\ Goes(s, "done", 0)
    /\ UNCHANGED <<queue_vars, definitions, batch, enqueued, history_vars, bound_vars>>

(* The rollback, last enqueued first; a dequeue that raises, because the     *)
(* queue refuses or its file cannot be written, is passed over.              *)
Dequeueable(m) ==
    /\ Q!Known(m)
    /\ ~Q!Running(m)
    /\ \A n \in DOMAIN missions \ {m} : m \notin missions[n].dependencies

RollBackQueue(s) ==
    /\ phase[s] = "dequeuing"
    /\ enqueued[s] > 0
    /\ LET m == batch[s][enqueued[s]].id
       IN  \/ Dequeueable(m) /\ Q!Dequeue(m) /\ UNCHANGED torn
           \/ ~Dequeueable(m) /\ UNCHANGED <<queue_vars, torn>>
           \/ Dequeueable(m) /\ torn' = torn \cup {m} /\ UNCHANGED queue_vars
    /\ enqueued' = [enqueued EXCEPT ![s] = @ - 1]
    /\ UNCHANGED <<definitions, phase, batch, position, claimed, blind, bound_vars>>

(* Every written definition goes, whatever became of its queue record; one   *)
(* that cannot be removed is passed over.                                    *)
StartUnlinking(s) ==
    /\ phase[s] = "dequeuing"
    /\ enqueued[s] = 0
    /\ Goes(s, "unlinking", Len(batch[s]))
    /\ UNCHANGED <<queue_vars, definitions, batch, enqueued, history_vars, bound_vars>>

UnlinkDefinition(s) ==
    /\ phase[s] = "unlinking"
    /\ position[s] > 0
    /\ LET m == batch[s][position[s]].id
       IN  \/ definitions' = definitions \ {m} /\ UNCHANGED torn
           \/ torn' = torn \cup {m} /\ UNCHANGED definitions
    /\ Goes(s, "unlinking", position[s] - 1)
    /\ UNCHANGED <<queue_vars, batch, enqueued, claimed, blind, bound_vars>>

Reject(s) ==
    /\ phase[s] = "unlinking"
    /\ position[s] = 0
    /\ Goes(s, "rejected", 0)
    /\ UNCHANGED <<queue_vars, definitions, batch, enqueued, history_vars, bound_vars>>

(* The process that serves the request dies: nothing is rolled back.         *)
SubmitterDies(s) ==
    /\ crashes < MaxCrashes
    /\ phase[s] \in Active
    /\ Goes(s, "crashed", 0)
    /\ crashes' = crashes + 1
    /\ UNCHANGED <<queue_vars, definitions, batch, enqueued, history_vars, recoveries>>

-----------------------------------------------------------------------------
(* The worker, at the level of the queue (BackgroundWorker has the steps).   *)

WorkerClaims(m) ==
    /\ Q!Claim(m)
    /\ claimed' = claimed \cup {m}
    /\ blind' = IF m \in definitions THEN blind ELSE blind \cup {m}
    /\ UNCHANGED <<definitions, call_vars, torn, bound_vars>>

WorkerEnds(m) ==
    /\ Q!Complete(m) \/ Q!Fail(m) \/ (Q!Running(m) /\ Q!Block(m))
    /\ UNCHANGED <<definitions, call_vars, history_vars, bound_vars>>

WorkerRestarts ==
    /\ recoveries < MaxRecoveries
    /\ Q!RecoverStale
    /\ recoveries' = recoveries + 1
    /\ UNCHANGED <<definitions, call_vars, history_vars, crashes>>

-----------------------------------------------------------------------------
Init ==
    /\ Q!Init
    /\ definitions = {}
    /\ phase = [s \in Submitters |-> "idle"]
    /\ batch = [s \in Submitters |-> <<>>]
    /\ position = [s \in Submitters |-> 0]
    /\ enqueued = [s \in Submitters |-> 0]
    /\ claimed = {}
    /\ blind = {}
    /\ torn = {}
    /\ recoveries = 0
    /\ crashes = 0

Call(s) ==
    \/ Submit(s)
    \/ WriteDefinition(s)
    \/ WriteFails(s)
    \/ StartEnqueueing(s)
    \/ EnqueueItem(s)
    \/ EnqueueFails(s)
    \/ Finish(s)
    \/ RollBackQueue(s)
    \/ StartUnlinking(s)
    \/ UnlinkDefinition(s)
    \/ Reject(s)

Next ==
    \/ \E s \in Submitters : Call(s) \/ SubmitterDies(s)
    \/ \E m \in Missions : WorkerClaims(m) \/ WorkerEnds(m)
    \/ WorkerRestarts

Spec == Init /\ [][Next]_vars

-----------------------------------------------------------------------------
(* Safety.                                                                   *)

(* A batch that was accepted is in the queue with its definitions, and the   *)
(* worker claims no mission of a call that was accepted, or may still be,    *)
(* without one: that happens only after the call took the road of the        *)
(* rollback.                                                                 *)
AcceptedIsWhole ==
    \A s \in Submitters :
        /\ phase[s] = "done" => Ids(s) \subseteq DOMAIN missions \cap definitions
        /\ phase[s] \in {"writing", "enqueueing", "dequeuing", "done"} =>
               Ids(s) \cap blind = {}

(* Missions some other call depends on, or whose own dequeue failed, and     *)
(* those they depend on in turn: dequeue() may refuse them.                  *)
Wanted(s, m, A) ==
    \E t \in Submitters : \E i \in DOMAIN batch[t] :
        /\ m \in batch[t][i].dependencies
        /\ t # s \/ batch[t][i].id \in A

Adopted(s) ==
    {m \in Ids(s) : \A A \in SUBSET Ids(s) :
        (\A n \in Ids(s) : n \in torn \/ Wanted(s, n, A) => n \in A) => m \in A}

(* A batch that was rejected leaves in the queue only missions the worker    *)
(* claimed before the rollback reached them, those another call depends on,  *)
(* those whose removal itself failed, and what these depend on; and once     *)
(* every call has returned, each definition belongs to a queued mission      *)
(* unless a failing write or unlink left it behind, so the other ids can be  *)
(* submitted again.  (A process that dies in a call does leave such files.)  *)
RejectedLeavesOnlyClaimed ==
    /\ \A s \in Submitters :
          phase[s] = "rejected" =>
              Ids(s) \cap DOMAIN missions \subseteq claimed \cup Adopted(s)
    /\ (\A s \in Submitters : phase[s] \notin Active \cup {"crashed"}) =>
          definitions \subseteq DOMAIN missions \cup torn

(* A batch goes in as a whole or leaves only what is named above.            *)
BatchIsAtomic == AcceptedIsWhole /\ RejectedLeavesOnlyClaimed

-----------------------------------------------------------------------------
(* Why it holds: the inductive invariant.                                    *)

Items == [id : Missions, dependencies : SUBSET Missions]
Started(s) == phase[s] \notin {"idle", "refused"}
First(s, n) == {batch[s][i].id : i \in 1..n}

AdapterShape ==
    /\ phase \in [Submitters -> Active \cup {"idle", "refused", "done", "rejected", "crashed"}]
    /\ batch \in [Submitters -> Seq(Items)]
    /\ position \in [Submitters -> Nat] /\ enqueued \in [Submitters -> Nat]
    /\ \A m \in DOMAIN missions : {"state", "dependencies"} \subseteq DOMAIN missions[m]
    /\ \A s \in Submitters :
          /\ position[s] <= Len(batch[s]) /\ enqueued[s] <= Len(batch[s])
          /\ IF phase[s] = "idle"
             THEN batch[s] = <<>>
             ELSE batch[s] \in Batches[s]
          /\ phase[s] \in {"idle", "writing"} => enqueued[s] = 0
          /\ Started(s) => \A i, j \in DOMAIN batch[s] : batch[s][i].id = batch[s][j].id => i = j

(* Every mission and file came with a call.                                  *)
Owned ==
    /\ DOMAIN missions \cup definitions \cup claimed \cup blind \cup torn
           \subseteq UNION {Ids(s) : s \in {t \in Submitters : Started(t)}}
    /\ \A s \in Submitters : Started(s) => \A i \in DOMAIN batch[s] :
          batch[s][i].id \in DOMAIN missions =>
             missions[batch[s][i].id].dependencies = batch[s][i].dependencies

(* What has ever been claimed is known, and its dependencies were before it. *)
ClaimsKnown ==
    \A m \in DOMAIN missions :
        /\ missions[m].state # "pending" => m \in claimed
        /\ m \in claimed => missions[m].dependencies \subseteq claimed

(* How far a call has come.                                                  *)
SoFar(s) ==
    LET queued == Ids(s) \cap DOMAIN missions
        written == Ids(s) \cap definitions
        kept == claimed \cup Adopted(s)
    IN  /\ phase[s] = "writing" =>
               /\ queued = {} /\ Ids(s) \cap claimed = {}
               /\ written = First(s, position[s])
        /\ phase[s] = "enqueueing" =>
               queued = First(s, enqueued[s]) /\ Ids(s) \cap claimed \subseteq queued
        /\ phase[s] = "dequeuing" => queued \subseteq First(s, enqueued[s]) \cup kept
        /\ phase[s] \in {"unlinking", "rejected"} => queued \subseteq kept
        /\ phase[s] \in {"enqueueing", "dequeuing", "done"} => Ids(s) \subseteq definitions
        /\ phase[s] = "unlinking" => written \subseteq First(s, position[s]) \cup torn
        /\ phase[s] = "rejected" => written \subseteq torn
        /\ phase[s] = "done" => Ids(s) \subseteq DOMAIN missions
        /\ phase[s] \in {"writing", "enqueueing", "dequeuing", "done"} => Ids(s) \cap blind = {}

AdapterInv ==
    /\ AdapterShape
    /\ Owned
    /\ ClaimsKnown
    /\ \A s \in Submitters : SoFar(s)

-----------------------------------------------------------------------------
(* What a comment in enqueue_batch says, and the code does not keep.         *)

(* "the production worker can never claim a mission without its definition   *)
(* existing".                                                                *)
NeverClaimedBlind == blind = {}
=============================================================================
