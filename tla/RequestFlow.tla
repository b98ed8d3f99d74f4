----------------------------- MODULE RequestFlow ----------------------------
(***************************************************************************)
(* A user's request on its way into the queue: the threads of the private  *)
(* API (agent/api/runtime_private_api.py) take it through                  *)
(* UnifiedRequestFlowService.submit, that is RequestGateSelector,          *)
(* PlannerQueueFlowCoordinator with planner and mission builder, and       *)
(* QueueEnqueueCoordinator, to the adapter of RequestQueueAdapter, which   *)
(* this module composes with.  The worker claims from the same queue, and  *)
(* the API process may die and be started again at any point.              *)
(*                                                                         *)
(* Refusals are abstract: whatever a check finds wrong, the thread answers *)
(* and goes.  A plan is one mission, as the production planner makes it.   *)
(***************************************************************************)
EXTENDS Integers, Sequences, FiniteSets

CONSTANTS
    Requests,      (* request ids clients use                                 *)
    Threads,       (* request threads of the API process                      *)
    Missions,      (* 1..n: the ids the mission builder generates, which are
                      points in time                                          *)
    MaxSends,      (* bound: how often each request is sent: a function       *)
    MaxRestarts,   (* bound: how often the API process dies                   *)
    MaxRecoveries, (* bound: how often the worker is restarted                *)
    RetryLimit

MaxSeq == Cardinality(Missions)
MaxCrashes == 0
Submitters == Threads
Batches == [t \in Threads |-> {<<[id |-> m, dependencies |-> {}]>> : m \in Missions}]

VARIABLES
    (* of RequestQueueAdapter *)
    missions, next_seq, definitions, phase, batch, position, enqueued,
    claimed, blind, torn, recoveries, crashes,
    pc, request,   (* of each thread                                          *)
    seen,          (* request ids the gate has reserved since it was built    *)
    limiting,      (* whether the composition got a limiter with a limit, and
                      not the AllowRateLimiter of build_production_runtime    *)
    registered,    (* request ids in the limiter's window, a file             *)
    origin,        (* the request in each generated mission's definition      *)
    sends,         (* how often each request was sent                         *)
    accepted,      (* history: requests answered as accepted                  *)
    raced,         (* history: reservations of an id that was reserved        *)
    restarts

A == INSTANCE RequestQueueAdapter

call_vars == <<phase, batch, position, enqueued>>
adapter_history == <<claimed, blind, torn, recoveries, crashes>>
adapter_vars == <<missions, next_seq, definitions, call_vars, adapter_history>>
gate_vars == <<seen, limiting, registered>>
history_vars == <<origin, sends, accepted, raced, restarts>>
flow_vars == <<pc, request, gate_vars, history_vars>>
vars == <<adapter_vars, flow_vars>>

None == "none"

Go(t, place) == pc' = [pc EXCEPT ![t] = place]

(* The thread has answered; its call of the adapter, if any, is over.        *)
Leave(t) ==
    /\ Go(t, "idle")
    /\ request' = [request EXCEPT ![t] = None]

(* A check raised or said no: the flow answers blocked, without saying more. *)
Refuse(t) ==
    /\ Leave(t)
    /\ UNCHANGED <<adapter_vars, gate_vars, history_vars>>

-----------------------------------------------------------------------------
(* RequestGateSelector.process_request.                                      *)

Receive(t, r) ==
    /\ pc[t] = "idle"
    /\ sends[r] < MaxSends[r]
    /\ Go(t, "validating")
    /\ request' = [request EXCEPT ![t] = r]
    /\ sends' = [sends EXCEPT ![r] = @ + 1]
    /\ UNCHANGED <<adapter_vars, gate_vars, origin, accepted, raced, restarts>>

(* validate_request, up to the look at the ids seen before.                  *)
Validate(t) ==
    /\ pc[t] = "validating"
    /\ \/ Refuse(t)
       \/ /\ request[t] \notin seen
          /\ Go(t, "reserving")
          /\ UNCHANGED <<adapter_vars, request, gate_vars, history_vars>>

(* Mutant of Reserve: only requests that were accepted are remembered.       *)
ReserveNothing(t) ==
    /\ pc[t] = "reserving"
    /\ Go(t, "resolving")
    /\ UNCHANGED <<adapter_vars, request, gate_vars, history_vars>>

(* The id is reserved whatever becomes of the request.                       *)
Reserve(t) ==
    /\ pc[t] = "reserving"
    /\ seen' = seen \cup {request[t]}
    /\ raced' = IF request[t] \in seen THEN [raced EXCEPT ![request[t]] = @ + 1] ELSE raced
    /\ Go(t, "resolving")
    /\ UNCHANGED <<adapter_vars, request, limiting, registered, origin, sends, accepted, restarts>>

Pass(t, from, to) ==
    /\ pc[t] = from
    /\ Go(t, to)
    /\ UNCHANGED <<adapter_vars, request, gate_vars, history_vars>>

(* The project, its conversation and uploads, and the task type.             *)
Resolve(t) == Pass(t, "resolving", "selecting") \/ (pc[t] = "resolving" /\ Refuse(t))

(* The model, its state and its capabilities.                                *)
SelectModel(t) == Pass(t, "selecting", "budgeting") \/ (pc[t] = "selecting" /\ Refuse(t))

(* The budget goes before the limiter, so that a refused request costs none  *)
(* of the limit.                                                             *)
Preflight(t) == Pass(t, "budgeting", "limiting") \/ (pc[t] = "budgeting" /\ Refuse(t))

(* check_and_register of the limiter, under its lock: an id in the window is *)
(* refused, as is any id at capacity; an id that passes is in the window     *)
(* from then on.  The limiter may raise after it registered the id.          *)
Register(t) ==
    /\ pc[t] = "limiting"
    /\ IF limiting
       THEN \/ /\ request[t] \notin registered
               /\ registered' = registered \cup {request[t]}
               /\ (Go(t, "planning") /\ UNCHANGED request) \/ Leave(t)
               /\ UNCHANGED <<adapter_vars, seen, limiting, history_vars>>
            \/ Refuse(t)
       ELSE /\ Go(t, "planning")
            /\ UNCHANGED <<adapter_vars, request, gate_vars, history_vars>>

-----------------------------------------------------------------------------
(* PlannerQueueFlowCoordinator.process.                                      *)

(* The approved request is checked again and the planner asked.              *)
CallPlanner(t) == Pass(t, "planning", "building") \/ (pc[t] = "planning" /\ Refuse(t))

(* The builder refuses the plan.                                             *)
PlanFails(t) == pc[t] = "building" /\ Refuse(t)

(* The builder gives the plan's mission the next id, and                     *)
(* QueueEnqueueCoordinator hands it to enqueue_batch.                        *)
Plan(t) ==
    /\ pc[t] = "building"
    /\ A!Submit(t)
    /\ LET m == batch'[t][1].id
       IN  /\ \A n \in Missions : origin[n] = None <=> n >= m
           /\ origin' = [origin EXCEPT ![m] = request[t]]
    /\ Go(t, "enqueueing")
    /\ UNCHANGED <<request, gate_vars, sends, accepted, raced, restarts>>

(* The steps of enqueue_batch.                                               *)
Enqueue(t) ==
    /\ pc[t] = "enqueueing"
    /\ A!Call(t)
    /\ UNCHANGED flow_vars

(* The call returned or raised; the coordinators pass its verdict on and the *)
(* API answers.                                                              *)
Answer(t) ==
    /\ pc[t] = "enqueueing"
    /\ phase[t] \in {"done", "refused", "rejected"}
    /\ accepted' = IF phase[t] = "done" THEN accepted \cup {request[t]} ELSE accepted
    /\ phase' = [phase EXCEPT ![t] = "idle"]
    /\ batch' = [batch EXCEPT ![t] = <<>>]
    /\ position' = [position EXCEPT ![t] = 0]
    /\ enqueued' = [enqueued EXCEPT ![t] = 0]
    /\ Leave(t)
    /\ UNCHANGED <<missions, next_seq, definitions, adapter_history,
                   gate_vars, origin, sends, raced, restarts>>

-----------------------------------------------------------------------------
(* The API process dies with all its threads and is started again: the gate  *)
(* is built anew, files stay as they are, and clients get no answer.         *)
ApiRestarts ==
    /\ restarts < MaxRestarts
    /\ restarts' = restarts + 1
    /\ seen' = {}
    /\ pc' = [t \in Threads |-> "idle"]
    /\ request' = [t \in Threads |-> None]
    /\ phase' = [t \in Threads |-> "idle"]
    /\ batch' = [t \in Threads |-> <<>>]
    /\ position' = [t \in Threads |-> 0]
    /\ enqueued' = [t \in Threads |-> 0]
    /\ UNCHANGED <<missions, next_seq, definitions, adapter_history,
                   limiting, registered, origin, sends, accepted, raced>>

(* The worker, at the level of the queue.                                    *)
Work ==
    /\ \/ \E m \in Missions : A!WorkerClaims(m) \/ A!WorkerEnds(m)
       \/ A!WorkerRestarts
    /\ UNCHANGED flow_vars

-----------------------------------------------------------------------------
Init ==
    /\ A!Init
    /\ pc = [t \in Threads |-> "idle"]
    /\ request = [t \in Threads |-> None]
    /\ seen = {}
    /\ limiting \in BOOLEAN
    /\ registered = {}
    /\ origin = [m \in Missions |-> None]
    /\ sends = [r \in Requests |-> 0]
    /\ accepted = {}
    /\ raced = [r \in Requests |-> 0]
    /\ restarts = 0

Step(t) ==
    \/ Validate(t)
    \/ Reserve(t)
    \/ Resolve(t)
    \/ SelectModel(t)
    \/ Preflight(t)
    \/ Register(t)
    \/ CallPlanner(t)
    \/ PlanFails(t)
    \/ Plan(t)
    \/ Enqueue(t)
    \/ Answer(t)

Next ==
    \/ \E t \in Threads : Step(t) \/ \E r \in Requests : Receive(t, r)
    \/ ApiRestarts
    \/ Work

Spec == Init /\ [][Next]_vars

-----------------------------------------------------------------------------
(* mission_ids_for_request: the queued missions whose definition file names  *)
(* the request.                                                              *)
MissionsOf(r) == {m \in DOMAIN missions \cap definitions : origin[m] = r}

(* The status get_request_status shows.                                      *)
StatusOf(r) ==
    LET states == {missions[m].state : m \in MissionsOf(r)}
        Shown(ranked) == ranked[CHOOSE i \in DOMAIN ranked :
                             /\ ranked[i] \in states
                             /\ \A j \in 1..(i - 1) : ranked[j] \notin states]
        ranking == <<"running", "retrying", "failed", "blocked", "cancelled">>
    IN  IF states = {} THEN "request_not_found"
        ELSE IF states = {"completed"} THEN "completed"
        ELSE IF states \cap {ranking[i] : i \in DOMAIN ranking} = {} THEN "pending"
        ELSE Shown(ranking)

(* A request is queued once.  The gate remembers request ids in memory, so a *)
(* client that sends one again after the API process died, or at the same    *)
(* moment in two threads, gets it queued again, as often as that happened    *)
(* and no more; with a limiter that enforces a limit, whose window is a file *)
(* under a lock, never.                                                      *)
QueuedOnce ==
    \A r \in Requests :
        Cardinality({m \in DOMAIN missions : origin[m] = r})
            <= IF limiting THEN 1 ELSE 1 + restarts + raced[r]

(* A client that was told its request is accepted can follow it for ever:    *)
(* the status finds it, whatever other threads enqueue, fail to enqueue and  *)
(* roll back, and however often the API process dies.                        *)
AcceptedIsTracked ==
    \A r \in accepted : StatusOf(r) # "request_not_found"

(* A request is tracked from its acceptance on: it became at most one        *)
(* mission, and the status of an accepted one is always found.               *)
RequestsAreTracked == QueuedOnce /\ AcceptedIsTracked

-----------------------------------------------------------------------------
(* Why it holds: the inductive invariant.                                    *)

Admitted == {"resolving", "selecting", "budgeting", "limiting", "planning", "building"}
Limited == {"planning", "building"}

FlowShape ==
    /\ pc \in [Threads -> {"idle", "validating", "reserving", "enqueueing"} \cup Admitted]
    /\ request \in [Threads -> Requests \cup {None}]
    /\ \A t \in Threads : pc[t] # "idle" => request[t] \in Requests
    /\ origin \in [Missions -> Requests \cup {None}]
    /\ accepted \subseteq Requests /\ raced \in [Requests -> Nat] /\ restarts \in Nat
    /\ DOMAIN missions \subseteq Missions
    /\ DOMAIN phase = Threads /\ DOMAIN batch = Threads
    /\ DOMAIN position = Threads /\ DOMAIN enqueued = Threads

(* A thread that is enqueueing has a mission of its own, made of its request, *)
(* with the definition and the record that enqueue_batch has come to.        *)
Its(t) == batch[t][1].id

Enqueueing(t) ==
    /\ batch[t] = <<[id |-> Its(t), dependencies |-> {}]>>
    /\ Its(t) \in Missions /\ origin[Its(t)] = request[t]
    /\ \A u \in Threads \ {t} : pc[u] = "enqueueing" => Its(u) # Its(t)
    /\ position[t] \in 0..1 /\ enqueued[t] \in 0..1
    /\ phase[t] = "writing" => enqueued[t] = 0 /\ (position[t] = 1 => Its(t) \in definitions)
    /\ phase[t] = "enqueueing" => Its(t) \in definitions /\ (enqueued[t] = 1 => Its(t) \in DOMAIN missions)
    /\ phase[t] = "done" => Its(t) \in definitions \cap DOMAIN missions
    /\ phase[t] # "idle"

Resting(t) == phase[t] = "idle" /\ position[t] = 0 /\ enqueued[t] = 0

Underway ==
    \A t \in Threads : IF pc[t] = "enqueueing" THEN Enqueueing(t) ELSE Resting(t)

(* What was accepted is in the queue, and is nobody's any more.              *)
Kept ==
    \A r \in accepted : \E m \in DOMAIN missions \cap definitions :
        /\ origin[m] = r
        /\ \A t \in Threads : pc[t] = "enqueueing" => Its(t) # m

(* Missions made of a request, and threads about to make one.                *)
Made(r) == {m \in Missions : origin[m] = r}
With(r, places) == {t \in Threads : request[t] = r /\ pc[t] \in places}

Counted(r) ==
    /\ Cardinality(Made(r)) + Cardinality(With(r, Admitted))
           <= (IF r \in seen THEN 1 ELSE 0) + restarts + raced[r]
    /\ limiting => Cardinality(Made(r)) + Cardinality(With(r, Limited))
                       <= IF r \in registered THEN 1 ELSE 0

FlowInv == FlowShape /\ Underway /\ Kept /\ \A r \in Requests : Counted(r)
=============================================================================
