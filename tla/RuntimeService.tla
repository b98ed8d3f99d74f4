---------------------------- MODULE RuntimeService --------------------------
(***************************************************************************)
(* The life cycle of the runtime (agent/runtime/runtime_service.py): it    *)
(* builds an application container, starts and stops the container's       *)
(* components on request, and takes all down again.  The lock is held only *)
(* to look at and to change the service's own fields, never while a        *)
(* component starts or stops, so calls of several threads interleave       *)
(* there.  Events, warnings and failure codes are left out.                *)
(***************************************************************************)
EXTENDS Naturals, Sequences, FiniteSets

CONSTANTS
    Callers,      (* threads that call the service                            *)
    AutoStart,    (* the configured components, in the order of start()       *)
    Order,        (* all components, in the order of stop()                   *)
    MaxBuilds     (* bound: how often the builder is called                   *)

Components == {Order[i] : i \in DOMAIN Order}
NoContainer == 0

VARIABLES
    state, container, flag,   (* fields of the service                        *)
    builds,       (* containers built so far: they are numbered               *)
    active,       (* <<container, component>> that are really running         *)
    pc,           (* where each thread is                                     *)
    held,         (* the container each thread looked at under the lock       *)
    todo,         (* the components its call still has to take care of        *)
    captured,     (* of a stop(): bw_to_stop, ac_to_stop and pa_to_stop       *)
    crossed,      (* history: components that two calls, of which one may be
                     stop(), started or stopped at the same time              *)
    stubborn      (* history: components whose stop() raised                  *)

service_vars == <<state, container, flag, builds>>
call_vars == <<pc, held, todo, captured>>
vars == <<service_vars, active, call_vars, crossed, stubborn>>

Go(t, place, rest) ==
    /\ pc' = [pc EXCEPT ![t] = place]
    /\ todo' = [todo EXCEPT ![t] = rest]

Attending == {"component_starts", "component_started",
              "component_stops", "component_stopped"}

(* Thread u is between the check and the flag of a start or stop of c.       *)
Attends(u, c) == pc[u] \in Attending /\ Head(todo[u]) = c

(* Thread t takes care of the components cs from now on.                     *)
Cross(t, cs) ==
    crossed' = crossed \cup {c \in cs : \E u \in Callers \ {t} : Attends(u, c)}

-----------------------------------------------------------------------------
(* start().                                                                  *)

Start(t) ==
    /\ pc[t] = "idle"
    /\ state \in {"created", "stopped"}
    /\ builds < MaxBuilds
    /\ state' = "starting"
    /\ Go(t, "building", <<>>)
    /\ UNCHANGED <<container, flag, builds, active, held, crossed, stubborn, captured>>

(* The container is built, ready and made known; components come next.       *)
Built(t) ==
    /\ pc[t] = "building"
    /\ builds' = builds + 1
    /\ container' = builds'
    /\ state' = "running"
    /\ Go(t, "starting", AutoStart)
    /\ UNCHANGED <<flag, active, held, crossed, stubborn, captured>>

(* The builder raised, or its container is not ready and closed again.       *)
BuildFails(t) ==
    /\ pc[t] = "building"
    /\ builds' = builds + 1
    /\ container' = NoContainer
    /\ state' = "failed"
    /\ Go(t, "idle", <<>>)
    /\ UNCHANGED <<flag, active, held, crossed, stubborn, captured>>

-----------------------------------------------------------------------------
(* _start_component(), called by start() and from outside.                   *)

RequestStart(t, c) ==
    /\ pc[t] = "idle"
    /\ Go(t, "starting", <<c>>)
    /\ UNCHANGED <<service_vars, active, held, crossed, stubborn, captured>>

CheckStart(t) ==
    /\ pc[t] = "starting"
    /\ IF todo[t] = <<>> THEN Go(t, "idle", <<>>) /\ UNCHANGED <<held, crossed>>
       ELSE IF state = "running" /\ ~flag[Head(todo[t])]
            THEN /\ Go(t, "component_starts", todo[t])
                 /\ held' = [held EXCEPT ![t] = container]
                 /\ Cross(t, {Head(todo[t])})
            ELSE Go(t, "starting", Tail(todo[t])) /\ UNCHANGED <<held, crossed>>
    /\ UNCHANGED <<service_vars, active, stubborn, captured>>

ComponentStarts(t) ==
    /\ pc[t] = "component_starts"
    /\ \/ /\ active' = active \cup {<<held[t], Head(todo[t])>>}
          /\ Go(t, "component_started", todo[t])
       \/ /\ Go(t, "starting", Tail(todo[t]))
          /\ UNCHANGED active
    /\ UNCHANGED <<service_vars, held, crossed, stubborn, captured>>

SetFlag(t) ==
    /\ pc[t] = "component_started"
    /\ flag' = [flag EXCEPT ![Head(todo[t])] = TRUE]
    /\ Go(t, "starting", Tail(todo[t]))
    /\ UNCHANGED <<state, container, builds, active, held, crossed, stubborn, captured>>

-----------------------------------------------------------------------------
(* _stop_component().                                                        *)

RequestStop(t, c) ==
    /\ pc[t] = "idle"
    /\ flag[c]
    /\ IF container = NoContainer
       THEN /\ flag' = [flag EXCEPT ![c] = FALSE]
            /\ UNCHANGED <<call_vars, crossed>>
       ELSE /\ held' = [held EXCEPT ![t] = container]
            /\ Go(t, "component_stops", <<c>>)
            /\ Cross(t, {c})
            /\ UNCHANGED <<flag, captured>>
    /\ UNCHANGED <<state, container, builds, active, stubborn>>

(* component.stop() raises or not.                                           *)
Halt(t, c) ==
    \/ /\ active' = active \ {<<held[t], c>>}
       /\ UNCHANGED stubborn
    \/ /\ stubborn' = stubborn \cup {c}
       /\ UNCHANGED active

ComponentStops(t) ==
    /\ pc[t] = "component_stops"
    /\ Halt(t, Head(todo[t]))
    /\ IF stubborn' = stubborn THEN Go(t, "component_stopped", todo[t]) ELSE Go(t, "idle", <<>>)
    /\ UNCHANGED <<service_vars, held, crossed, captured>>

ClearFlag(t) ==
    /\ pc[t] = "component_stopped"
    /\ flag' = [flag EXCEPT ![Head(todo[t])] = FALSE]
    /\ Go(t, "idle", <<>>)
    /\ UNCHANGED <<state, container, builds, active, held, crossed, stubborn, captured>>

-----------------------------------------------------------------------------
(* stop().                                                                   *)

Stop(t) ==
    /\ pc[t] = "idle"
    /\ state \in {"running", "failed"}
    /\ state' = "stopping"
    /\ held' = [held EXCEPT ![t] = container]
    /\ captured' = [captured EXCEPT ![t] =
                       {c \in Components : flag[c] /\ container # NoContainer}]
    /\ Go(t, "stopping", <<>>)
    /\ Cross(t, Components)
    /\ UNCHANGED <<container, flag, builds, active, stubborn>>

(* The components that were captured are stopped in the order of stop().     *)
StopNext(t) ==
    /\ pc[t] = "stopping"
    /\ \E i \in DOMAIN Order :
          /\ Order[i] \in captured[t]
          /\ \A j \in 1..(i - 1) : Order[j] \notin captured[t]
          /\ Halt(t, Order[i])
          /\ captured' = [captured EXCEPT ![t] = @ \ {Order[i]}]
    /\ UNCHANGED <<service_vars, pc, todo, held, crossed>>

(* Mutant of Stopped: the flags of the components are left as they are.      *)
StoppedFlagged(t) ==
    /\ pc[t] = "stopping"
    /\ captured[t] = {}
    /\ container' = NoContainer
    /\ state' = "stopped"
    /\ Go(t, "idle", <<>>)
    /\ UNCHANGED <<flag, builds, active, held, captured, crossed, stubborn>>

(* The container is closed and forgotten, and all flags are cleared.         *)
Stopped(t) ==
    /\ pc[t] = "stopping"
    /\ captured[t] = {}
    /\ container' = NoContainer
    /\ flag' = [c \in Components |-> FALSE]
    /\ state' = "stopped"
    /\ Go(t, "idle", <<>>)
    /\ UNCHANGED <<builds, active, held, captured, crossed, stubborn>>

-----------------------------------------------------------------------------
Init ==
    /\ state = "created"
    /\ container = NoContainer
    /\ flag = [c \in Components |-> FALSE]
    /\ builds = 0
    /\ active = {}
    /\ pc = [t \in Callers |-> "idle"]
    /\ held = [t \in Callers |-> NoContainer]
    /\ todo = [t \in Callers |-> <<>>]
    /\ captured = [t \in Callers |-> {}]
    /\ crossed = {}
    /\ stubborn = {}

Step(t) ==
    \/ Start(t)
    \/ Built(t)
    \/ BuildFails(t)
    \/ CheckStart(t)
    \/ ComponentStarts(t)
    \/ SetFlag(t)
    \/ ComponentStops(t)
    \/ ClearFlag(t)
    \/ Stop(t)
    \/ StopNext(t)
    \/ Stopped(t)
    \/ \E c \in Components : RequestStart(t, c) \/ RequestStop(t, c)

Next == \E t \in Callers : Step(t)

Spec == Init /\ [][Next]_vars

-----------------------------------------------------------------------------
(* What runtime_status() says of the components is so: one that is flagged   *)
(* runs in the current container, and none runs in a container that was      *)
(* taken down.  The exceptions are a component whose own stop() raised, and  *)
(* one that two calls started or stopped at the same time: its flag may then *)
(* outlive it, and every later start of it does nothing.                     *)
ComponentsAttended ==
    \A c \in Components \ (crossed \cup stubborn) :
        /\ flag[c] /\ state = "running" /\ (\A t \in Callers : ~Attends(t, c))
               => <<container, c>> \in active
        /\ \A k \in 1..builds : <<k, c>> \in active => k = container

-----------------------------------------------------------------------------
(* Why ComponentsAttended holds: the inductive invariant.                    *)

Places == {"idle", "building", "starting", "stopping"} \cup Attending

ServiceShape ==
    /\ state \in {"created", "starting", "running", "stopping", "stopped", "failed"}
    /\ builds \in Nat /\ container \in 0..builds
    /\ flag \in [Components -> BOOLEAN]
    /\ active \subseteq (1..builds) \X Components
    /\ pc \in [Callers -> Places]
    /\ held \in [Callers -> 0..builds]
    /\ todo \in [Callers -> Seq(Components)]
    /\ captured \in [Callers -> SUBSET Components]
    /\ \A t \in Callers : pc[t] \in Attending => todo[t] # <<>>

(* One call builds at a time, and one takes down.                            *)
TakesTurns ==
    /\ \A t \in Callers : pc[t] = "building" => state = "starting"
    /\ \A t \in Callers : pc[t] = "stopping" => state = "stopping" /\ held[t] = container
    /\ \A t \in Callers : pc[t] = "component_starts" => held[t] # NoContainer
    /\ \A t, u \in Callers : pc[t] \in {"building", "stopping"} /\ pc[u] = pc[t] => t = u
    /\ state = "running" => container # NoContainer

Runs(c) == <<container, c>> \in active

(* What a call that is between the check and the flag of a component rests on. *)
Attended(t, c) ==
    /\ \A u \in Callers : Attends(u, c) => u = t
    /\ pc[t] = "component_starts" => ~Runs(c)
    /\ pc[t] = "component_started" => Runs(c)
    /\ pc[t] \in {"component_starts", "component_started"} =>
          state = "running" /\ held[t] = container /\ ~flag[c]
    /\ pc[t] = "component_stops" => held[t] = container \/ ~Runs(c)
    /\ pc[t] = "component_stopped" => ~Runs(c)

(* A component that no two calls met at and that stopped when it was told to. *)
Faithful(c) ==
    /\ \A t \in Callers : Attends(t, c) => Attended(t, c)
    /\ \A k \in 1..builds : <<k, c>> \in active => k = container
    /\ state = "running" /\ (\A t \in Callers : ~Attends(t, c)) => (flag[c] <=> Runs(c))
    /\ state \notin {"running", "stopping"} => ~flag[c] /\ ~Runs(c)
    /\ \A t \in Callers : pc[t] = "stopping" /\ Runs(c) => c \in captured[t]

ServiceInv ==
    /\ ServiceShape
    /\ TakesTurns
    /\ \A c \in Components \ (crossed \cup stubborn) : Faithful(c)
=============================================================================
