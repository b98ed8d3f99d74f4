------------------------ MODULE PlatformServicesProofs ------------------------
(***************************************************************************)
(* Proofs, for every value of the constants, of invariants TLC checks on   *)
(* components of MCPlatform that serve and keep: the runtime service, the  *)
(* container of the application, the chat gateway and the memory of        *)
(* projects.  As in PlatformProofs, each proof is about the steps of one   *)
(* component, with the inductive invariant its module states.              *)
(***************************************************************************)
EXTENDS MCPlatform, FiniteSetTheorems, WellFoundedInduction, TLAPS

AnyVars == <<component, queue_vars, After0>>

(* A step of the sum is a step of its component, or changes nothing.         *)
LEMMA Selected ==
    ASSUME [AnyNext]_AnyVars
    PROVE  /\ component' = component
           /\ component = "service" => Service!Next \/ UNCHANGED Service!vars
           /\ component = "container" => Container!Next \/ UNCHANGED Container!vars
           /\ component = "chat" => Chat!Next \/ UNCHANGED Chat!vars
           /\ component = "memory" => Memory!Next \/ UNCHANGED Memory!vars
<1>1. CASE AnyNext
  BY <1>1, Zenon DEF AnyNext
<1>2. CASE UNCHANGED AnyVars
  BY <1>2 DEF AnyVars, After0, After6, After8, After10, After11, After12, After13,
              Service!vars, Service!service_vars, Service!call_vars,
              Container!vars, Container!close_vars,
              Chat!vars, Chat!store_vars, Chat!history_vars,
              Memory!vars, Memory!history_vars
<1> QED
  BY <1>1, <1>2

-----------------------------------------------------------------------------
(* The runtime service                                                       *)

(* s1 state, s2 container, s3 flag, s4 builds, s5 active, s6 pc, s7 held,    *)
(* s8 todo, s9 captured, s10 crossed, s11 stubborn.                          *)

LEMMA ServiceBegins ==
    ASSUME Service!Init
    PROVE  Service!ServiceInv
<1> USE DEF Service!Init, Service!NoContainer
<1>1. Service!ServiceShape
  BY DEF Service!ServiceShape, Service!Places, Service!Attending
<1>2. Service!TakesTurns
  BY DEF Service!TakesTurns
<1>3. \A t \in Callers : \A c : ~Service!Attends(t, c)
  BY DEF Service!Attends, Service!Attending
<1>4. \A c \in Service!Components : Service!Faithful(c)
  BY <1>3 DEF Service!Faithful, Service!Runs
<1> QED
  BY <1>1, <1>2, <1>4 DEF Service!ServiceInv

(* A caller goes to a place; the others stay where they are.                 *)
LEMMA CallerMoves ==
    ASSUME Service!ServiceShape, NEW t \in Callers, NEW place \in Service!Places,
           NEW rest \in Seq(Service!Components), Service!Go(t, place, rest)
    PROVE  /\ s6' \in [Callers -> Service!Places] /\ s8' \in [Callers -> Seq(Service!Components)]
           /\ s6'[t] = place /\ s8'[t] = rest
           /\ \A u \in Callers \ {t} : s6'[u] = s6[u] /\ s8'[u] = s8[u]
           /\ \A u \in Callers \ {t} : \A c : Service!Attends(u, c)' <=> Service!Attends(u, c)
           /\ \A c : Service!Attends(t, c)' <=> place \in Service!Attending /\ Head(rest) = c
<1>1. /\ s6' = [s6 EXCEPT ![t] = place] /\ s8' = [s8 EXCEPT ![t] = rest]
      /\ s6 \in [Callers -> Service!Places] /\ s8 \in [Callers -> Seq(Service!Components)]
  BY DEF Service!Go, Service!ServiceShape
<1>2. /\ s6' \in [Callers -> Service!Places] /\ s8' \in [Callers -> Seq(Service!Components)]
      /\ s6'[t] = place /\ s8'[t] = rest
      /\ \A u \in Callers \ {t} : s6'[u] = s6[u] /\ s8'[u] = s8[u]
  BY <1>1
<1> QED
  BY <1>2 DEF Service!Attends

(* What is left after the first.                                             *)
LEMMA RestOf ==
    ASSUME NEW rest \in Seq(Service!Components), rest # <<>>
    PROVE  Head(rest) \in Service!Components /\ Tail(rest) \in Seq(Service!Components)
OBVIOUS

(* Who is at a component is alone there, unless two calls met at it.         *)
LEMMA AloneThere ==
    ASSUME NEW t \in Callers, NEW c, NEW cs, c \in cs, Service!Cross(t, cs), c \notin s10'
    PROVE  \A u \in Callers \ {t} : ~Service!Attends(u, c)
BY DEF Service!Cross

(* A caller that is at no component at the end of its step, when that leaves *)
(* the components and the service as they are.                               *)
LEMMA CallerWaits ==
    ASSUME Service!ServiceInv, NEW t \in Callers, NEW place \in {"idle", "starting"},
           NEW rest \in Seq(Service!Components), Service!Go(t, place, rest),
           s6[t] \notin Service!Attending,
           UNCHANGED <<s1, s2, s3, s4, s5, s7, s9, s10, s11>>
    PROVE  Service!ServiceInv'
<1>1. place \in Service!Places /\ place \notin Service!Attending
  BY DEF Service!Places, Service!Attending
<1>2. Service!ServiceShape /\ Service!TakesTurns
  BY DEF Service!ServiceInv
<1>3. /\ s6' \in [Callers -> Service!Places] /\ s8' \in [Callers -> Seq(Service!Components)]
      /\ s6'[t] = place /\ s8'[t] = rest
      /\ \A u \in Callers \ {t} : s6'[u] = s6[u] /\ s8'[u] = s8[u]
      /\ \A u \in Callers \ {t} : \A c : Service!Attends(u, c)' <=> Service!Attends(u, c)
      /\ \A c : ~Service!Attends(t, c)'
  BY <1>1, <1>2, CallerMoves
<1>4. Service!ServiceShape'
  BY <1>1, <1>2, <1>3 DEF Service!ServiceShape
<1>5. Service!TakesTurns'
  BY <1>2, <1>3 DEF Service!TakesTurns
<1>6. ASSUME NEW c \in Service!Components, c \notin s10' \cup s11'
      PROVE  Service!Faithful(c)'
  <2>1. Service!Faithful(c)
    BY <1>6 DEF Service!ServiceInv
  <2>2. \A u \in Callers : Service!Attends(u, c)' <=> Service!Attends(u, c)
    BY <1>3 DEF Service!Attends
  <2>3. \A u \in Callers : Service!Attends(u, c) => s6'[u] = s6[u] /\ Service!Attended(u, c)'
    BY <1>3, <2>1, <2>2 DEF Service!Faithful, Service!Attended, Service!Runs, Service!Attends
  <2> QED
    BY <1>3, <2>1, <2>2, <2>3 DEF Service!Faithful, Service!Runs
<1> QED
  BY <1>4, <1>5, <1>6 DEF Service!ServiceInv

LEMMA StartKeeps ==
    ASSUME Service!ServiceInv, NEW t \in Callers, Service!Start(t)
    PROVE  Service!ServiceInv'
<1>1. /\ s6[t] = "idle" /\ s1 \in {"created", "stopped"} /\ s1' = "starting"
      /\ Service!Go(t, "building", <<>>)
      /\ UNCHANGED <<s2, s3, s4, s5, s7, s9, s10, s11>>
  BY DEF Service!Start
<1>2. /\ Service!ServiceShape /\ Service!TakesTurns
      /\ "building" \in Service!Places /\ "building" \notin Service!Attending
      /\ "idle" \notin Service!Attending
      /\ <<>> \in Seq(Service!Components)
  BY DEF Service!ServiceInv, Service!Places, Service!Attending
<1>3. /\ s6' \in [Callers -> Service!Places] /\ s8' \in [Callers -> Seq(Service!Components)]
      /\ s6'[t] = "building" /\ s8'[t] = <<>>
      /\ \A u \in Callers \ {t} : s6'[u] = s6[u] /\ s8'[u] = s8[u]
      /\ \A u \in Callers \ {t} : \A c : Service!Attends(u, c)' <=> Service!Attends(u, c)
      /\ \A c : ~Service!Attends(t, c)'
  BY <1>1, <1>2, CallerMoves
<1>4. Service!ServiceShape'
  BY <1>1, <1>2, <1>3 DEF Service!ServiceShape
<1>5. Service!TakesTurns'
  BY <1>1, <1>2, <1>3 DEF Service!TakesTurns
<1>6. ASSUME NEW c \in Service!Components, c \notin s10' \cup s11'
      PROVE  Service!Faithful(c)'
  <2>1. Service!Faithful(c)
    BY <1>1, <1>6 DEF Service!ServiceInv
  <2>2. \A u \in Callers : Service!Attends(u, c)' <=> Service!Attends(u, c)
    BY <1>1, <1>2, <1>3 DEF Service!Attends
  <2>3. \A u \in Callers : Service!Attends(u, c) => s6'[u] = s6[u] /\ Service!Attended(u, c)'
    BY <1>1, <1>2, <1>3, <2>1, <2>2 DEF Service!Faithful, Service!Attended, Service!Runs, Service!Attends
  <2> QED
    BY <1>1, <1>3, <2>1, <2>2, <2>3 DEF Service!Faithful, Service!Runs
<1> QED
  BY <1>4, <1>5, <1>6 DEF Service!ServiceInv

(* A build succeeds or fails: nothing ran before it, nor runs in the new one. *)
LEMMA BuildKeeps ==
    ASSUME Service!ServiceInv, NEW t \in Callers, s6[t] = "building",
           NEW place \in {"idle", "starting"}, NEW rest \in Seq(Service!Components),
           Service!Go(t, place, rest),
           s4' = s4 + 1, UNCHANGED <<s3, s5, s7, s9, s10, s11>>,
           \/ s2' = s4' /\ s1' = "running"
           \/ s2' = Service!NoContainer /\ s1' = "failed"
    PROVE  Service!ServiceInv'
<1>1. /\ Service!ServiceShape /\ Service!TakesTurns
      /\ place \in Service!Places /\ place \notin Service!Attending
      /\ s6[t] \notin Service!Attending
  BY DEF Service!ServiceInv, Service!Places, Service!Attending
<1>2. s1 = "starting" /\ s4 \in Nat
  BY <1>1 DEF Service!TakesTurns, Service!ServiceShape
<1>3. /\ s6' \in [Callers -> Service!Places] /\ s8' \in [Callers -> Seq(Service!Components)]
      /\ s6'[t] = place /\ s8'[t] = rest
      /\ \A u \in Callers \ {t} : s6'[u] = s6[u] /\ s8'[u] = s8[u]
      /\ \A u \in Callers \ {t} : \A c : Service!Attends(u, c)' <=> Service!Attends(u, c)
      /\ \A c : ~Service!Attends(t, c)'
  BY <1>1, CallerMoves
<1>4. Service!ServiceShape'
  <2>1. 0..s4 \subseteq 0..s4' /\ 1..s4 \subseteq 1..s4' /\ s4' \in Nat /\ s2' \in 0..s4'
    BY <1>2 DEF Service!NoContainer
  <2>2. s7' \in [Callers -> 0..s4']
    <3>1. s7 \in [Callers -> 0..s4]
      BY <1>1 DEF Service!ServiceShape
    <3> QED
      BY <2>1, <3>1
  <2>3. s5' \subseteq (1..s4') \X Service!Components
    <3>1. s5 \subseteq (1..s4) \X Service!Components
      BY <1>1 DEF Service!ServiceShape
    <3> QED
      BY <2>1, <3>1
  <2>4. \A u \in Callers : s6'[u] \in Service!Attending => s8'[u] # <<>>
    BY <1>1, <1>3 DEF Service!ServiceShape
  <2>5. /\ s1' \in {"created", "starting", "running", "stopping", "stopped", "failed"}
        /\ s3' \in [Service!Components -> BOOLEAN]
        /\ s9' \in [Callers -> SUBSET Service!Components]
    BY <1>1 DEF Service!ServiceShape
  <2> QED
    BY <1>3, <2>1, <2>2, <2>3, <2>4, <2>5 DEF Service!ServiceShape
<1>5. Service!TakesTurns'
  <2>1. \A u \in Callers : s6'[u] \notin {"building", "stopping"}
    BY <1>1, <1>2, <1>3 DEF Service!TakesTurns
  <2>2. \A u \in Callers : s6'[u] = "component_starts" => s7'[u] # Service!NoContainer
    BY <1>1, <1>3 DEF Service!TakesTurns
  <2>3. s1' = "running" => s2' # Service!NoContainer
    BY <1>2 DEF Service!NoContainer
  <2> QED
    BY <2>1, <2>2, <2>3 DEF Service!TakesTurns, Service!NoContainer
<1>6. ASSUME NEW c \in Service!Components, c \notin s10' \cup s11'
      PROVE  Service!Faithful(c)'
  <2>1. Service!Faithful(c)
    BY <1>6 DEF Service!ServiceInv
  <2>2. \A u \in Callers : Service!Attends(u, c)' <=> Service!Attends(u, c)
    BY <1>1, <1>3 DEF Service!Attends
  <2>3. ~s3[c] /\ ~Service!Runs(c) /\ \A k \in 1..s4 : <<k, c>> \notin s5
    BY <1>2, <2>1 DEF Service!Faithful, Service!Runs
  <2>4. \A k : <<k, c>> \notin s5
    BY <1>1, <2>3 DEF Service!ServiceShape
  <2>5. \A u \in Callers : Service!Attends(u, c) =>
            /\ s6'[u] = s6[u] /\ s6[u] \in {"component_stops", "component_stopped"}
    BY <1>1, <1>2, <1>3, <2>1 DEF Service!Faithful, Service!Attended, Service!Attends,
                                 Service!Attending
  <2>6. \A u \in Callers : Service!Attends(u, c) => Service!Attended(u, c)'
    BY <2>1, <2>2, <2>4, <2>5 DEF Service!Faithful, Service!Attended, Service!Runs
  <2> QED
    BY <1>3, <2>2, <2>3, <2>4, <2>6 DEF Service!Faithful, Service!Runs
<1> QED
  BY <1>4, <1>5, <1>6 DEF Service!ServiceInv

(* A call enters a component: no other call is there, or the two have met.   *)
LEMMA EnterKeeps ==
    ASSUME Service!ServiceInv, NEW t \in Callers, s6[t] \notin Service!Attending,
           s6[t] \notin {"building", "stopping"},
           NEW place \in {"component_starts", "component_stops"},
           NEW rest \in Seq(Service!Components), rest # <<>>, Service!Go(t, place, rest),
           NEW first, first = Head(rest), Service!Cross(t, {first}),
           s7' = [s7 EXCEPT ![t] = s2], s2 # Service!NoContainer,
           UNCHANGED <<s1, s2, s3, s4, s5, s9, s11>>,
           place = "component_starts" => s1 = "running" /\ ~s3[first]
    PROVE  Service!ServiceInv'
<1>1. /\ Service!ServiceShape /\ Service!TakesTurns
      /\ place \in Service!Places /\ place \in Service!Attending
  BY DEF Service!ServiceInv, Service!Places, Service!Attending
<1>2. /\ s6' \in [Callers -> Service!Places] /\ s8' \in [Callers -> Seq(Service!Components)]
      /\ s6'[t] = place /\ s8'[t] = rest
      /\ \A u \in Callers \ {t} : s6'[u] = s6[u] /\ s8'[u] = s8[u]
      /\ \A u \in Callers \ {t} : \A c : Service!Attends(u, c)' <=> Service!Attends(u, c)
      /\ \A c : Service!Attends(t, c)' <=> c = first
  BY <1>1, CallerMoves
<1>3. /\ s7' \in [Callers -> 0..s4] /\ s7'[t] = s2
      /\ \A u \in Callers \ {t} : s7'[u] = s7[u]
  BY <1>1 DEF Service!ServiceShape
<1>4. Service!ServiceShape'
  BY <1>1, <1>2, <1>3 DEF Service!ServiceShape
<1>5. Service!TakesTurns'
  <2>1. \A u \in Callers : s6'[u] \in {"building", "stopping"} => u # t /\ s6'[u] = s6[u]
    BY <1>2
  <2>2. \A u \in Callers : s6'[u] = "component_starts" => s7'[u] # Service!NoContainer
    BY <1>1, <1>2, <1>3 DEF Service!TakesTurns
  <2> QED
    BY <1>1, <2>1, <2>2 DEF Service!TakesTurns, Service!NoContainer
<1>6. ASSUME NEW c \in Service!Components, c \notin s10' \cup s11'
      PROVE  Service!Faithful(c)'
  <2>1. Service!Faithful(c)
    BY <1>6 DEF Service!ServiceInv, Service!Cross
  <2>2. ~Service!Attends(t, c)
    BY DEF Service!Attends
  <2>3. CASE c = first
    <3>1. \A u \in Callers \ {t} : ~Service!Attends(u, c)
      BY <1>6, <2>3, AloneThere
    <3>2. \A u \in Callers : Service!Attends(u, c)' <=> u = t
      BY <1>2, <2>3, <3>1
    <3>3. place = "component_starts" => ~Service!Runs(c)
      BY <2>1, <2>2, <2>3, <3>1 DEF Service!Faithful
    <3>4. Service!Attended(t, c)'
      BY <1>2, <1>3, <2>3, <3>2, <3>3 DEF Service!Attended, Service!Runs
    <3> QED
      BY <1>1, <1>2, <2>1, <3>2, <3>4 DEF Service!Faithful, Service!Runs, Service!Attending
  <2>4. CASE c # first
    <3>1. \A u \in Callers : Service!Attends(u, c)' <=> Service!Attends(u, c)
      BY <1>2, <2>2, <2>4
    <3>2. \A u \in Callers : Service!Attends(u, c) => u # t /\ s6'[u] = s6[u] /\ s7'[u] = s7[u]
      BY <1>2, <1>3, <2>2
    <3>3. \A u \in Callers : Service!Attends(u, c) => Service!Attended(u, c)'
      BY <2>1, <3>1, <3>2 DEF Service!Faithful, Service!Attended, Service!Runs
    <3> QED
      BY <1>1, <1>2, <2>1, <3>1, <3>3 DEF Service!Faithful, Service!Runs, Service!Attending
  <2> QED
    BY <2>3, <2>4
<1> QED
  BY <1>4, <1>5, <1>6 DEF Service!ServiceInv

(* The component t is at, and that its place is not one of a build or a stop. *)
LEMMA TheComponent ==
    ASSUME Service!ServiceShape, NEW t \in Callers, s6[t] \in Service!Attending
    PROVE  /\ Head(s8[t]) \in Service!Components /\ s8[t] # <<>>
           /\ s8[t] \in Seq(Service!Components) /\ Tail(s8[t]) \in Seq(Service!Components)
           /\ Service!Attends(t, Head(s8[t]))
           /\ \A c : Service!Attends(t, c) => c = Head(s8[t])
BY RestOf DEF Service!ServiceShape, Service!Attends

(* A call goes from one place at its component to the next, or away from it. *)
LEMMA WithinKeeps ==
    ASSUME Service!ServiceInv, NEW t \in Callers, s6[t] \in Service!Attending,
           NEW place \in Service!Places \ {"building", "stopping", "component_starts"},
           NEW rest \in Seq(Service!Components), Service!Go(t, place, rest),
           NEW first, first = Head(s8[t]),
           place \in Service!Attending => rest = s8[t],
           UNCHANGED <<s1, s2, s4, s7, s9, s10>>,
           s3' \in [Service!Components -> BOOLEAN],
           \A c \in Service!Components \ {first} : s3'[c] = s3[c],
           s5' \subseteq (1..s4) \X Service!Components,
           \A k \in 1..s4 : \A c \in Service!Components \ {first} : <<k, c>> \in s5' <=> <<k, c>> \in s5,
           s11 \subseteq s11',
           first \notin s10' \cup s11' =>
               /\ place \in Service!Attending => Service!Attended(t, first)'
               /\ \A k \in 1..s4 : <<k, first>> \in s5' => k = s2
               /\ s1 = "running" /\ place \notin Service!Attending =>
                     (s3'[first] <=> Service!Runs(first)')
               /\ s1 \notin {"running", "stopping"} => ~s3'[first] /\ ~Service!Runs(first)'
               /\ Service!Runs(first)' => Service!Runs(first) \/ s1 # "stopping"
    PROVE  Service!ServiceInv'
<1>1. /\ Service!ServiceShape /\ Service!TakesTurns
      /\ s6[t] \notin {"building", "stopping"} /\ place \in Service!Places
  BY DEF Service!ServiceInv, Service!Attending
<1>2. /\ s6' \in [Callers -> Service!Places] /\ s8' \in [Callers -> Seq(Service!Components)]
      /\ s6'[t] = place /\ s8'[t] = rest
      /\ \A u \in Callers \ {t} : s6'[u] = s6[u] /\ s8'[u] = s8[u]
      /\ \A u \in Callers \ {t} : \A c : Service!Attends(u, c)' <=> Service!Attends(u, c)
      /\ \A c : Service!Attends(t, c)' <=> place \in Service!Attending /\ Head(rest) = c
  BY <1>1, CallerMoves
<1>3. /\ first \in Service!Components /\ s8[t] # <<>> /\ Service!Attends(t, first)
      /\ \A c : Service!Attends(t, c) => c = first
  BY <1>1, TheComponent
<1>4. Service!ServiceShape'
  BY <1>1, <1>2, <1>3 DEF Service!ServiceShape
<1>5. Service!TakesTurns'
  <2>1. \A u \in Callers : s6'[u] \in {"building", "stopping", "component_starts"} =>
            u # t /\ s6'[u] = s6[u]
    BY <1>2
  <2> QED
    BY <1>1, <2>1 DEF Service!TakesTurns, Service!NoContainer
<1>6. ASSUME NEW c \in Service!Components, c \notin s10' \cup s11'
      PROVE  Service!Faithful(c)'
  <2>1. Service!Faithful(c)
    BY <1>6 DEF Service!ServiceInv
  <2>2. CASE c = first
    <3>1. \A u \in Callers \ {t} : ~Service!Attends(u, c)
      BY <1>3, <2>1, <2>2 DEF Service!Faithful, Service!Attended
    <3>2. \A u \in Callers : Service!Attends(u, c)' => u = t /\ place \in Service!Attending
      BY <1>2, <3>1
    <3>3. place \in Service!Attending => Service!Attends(t, c)'
      BY <1>2, <2>2
    <3>4. \A u \in Callers : s6'[u] = "stopping" => u # t /\ s6'[u] = s6[u] /\ s1 = "stopping"
      BY <1>1, <1>2 DEF Service!TakesTurns
    <3> QED
      BY <1>6, <2>1, <2>2, <3>2, <3>3, <3>4 DEF Service!Faithful, Service!Runs
  <2>3. CASE c # first
    <3>1. \A u \in Callers : Service!Attends(u, c)' <=> Service!Attends(u, c)
      BY <1>2, <1>3, <2>3
    <3>2. /\ \A u \in Callers : Service!Attends(u, c) => u # t /\ s6'[u] = s6[u]
          /\ \A u \in Callers : s6'[u] = "stopping" => s6[u] = "stopping"
      BY <1>2, <1>3, <2>3
    <3>3. (Service!Runs(c)' <=> Service!Runs(c)) /\ s3'[c] = s3[c]
      <4>1. s2 \in 1..s4 \/ s2 = 0
        BY <1>1 DEF Service!ServiceShape
      <4>2. <<0, c>> \notin s5 /\ <<0, c>> \notin s5'
        BY <1>1 DEF Service!ServiceShape
      <4> QED
        BY <2>3, <4>1, <4>2 DEF Service!Runs
    <3>4. \A u \in Callers : Service!Attends(u, c) => Service!Attended(u, c)'
      BY <2>1, <3>1, <3>2, <3>3 DEF Service!Faithful, Service!Attended
    <3>5. \A k \in 1..s4 : <<k, c>> \in s5' => k = s2
      BY <2>1, <2>3 DEF Service!Faithful
    <3> QED
      BY <2>1, <3>1, <3>2, <3>3, <3>4, <3>5 DEF Service!Faithful
  <2> QED
    BY <2>2, <2>3
<1> QED
  BY <1>4, <1>5, <1>6 DEF Service!ServiceInv

LEMMA CheckStartKeeps ==
    ASSUME Service!ServiceInv, NEW t \in Callers, Service!CheckStart(t)
    PROVE  Service!ServiceInv'
<1>1. /\ s6[t] = "starting" /\ UNCHANGED <<s1, s2, s3, s4, s5, s9, s11>>
      /\ "starting" \notin Service!Attending /\ "starting" \notin {"building", "stopping"}
  BY DEF Service!CheckStart, Service!service_vars, Service!Attending
<1>2. s8[t] \in Seq(Service!Components) /\ (s1 = "running" => s2 # Service!NoContainer)
  BY DEF Service!ServiceInv, Service!ServiceShape, Service!TakesTurns
<1>3. CASE s8[t] = <<>>
  <2>1. Service!Go(t, "idle", <<>>) /\ UNCHANGED <<s7, s10>>
    BY <1>3 DEF Service!CheckStart
  <2>2. <<>> \in Seq(Service!Components) /\ "idle" \in {"idle", "starting"}
    OBVIOUS
  <2> QED
    BY <1>1, <2>1, <2>2, CallerWaits
<1>4. CASE s8[t] # <<>> /\ s1 = "running" /\ ~s3[Head(s8[t])]
  <2>1. /\ Service!Go(t, "component_starts", s8[t]) /\ s7' = [s7 EXCEPT ![t] = s2]
        /\ Service!Cross(t, {Head(s8[t])})
    BY <1>4 DEF Service!CheckStart
  <2> QED
    BY <1>1, <1>2, <1>4, <2>1, EnterKeeps
<1>5. CASE s8[t] # <<>> /\ ~(s1 = "running" /\ ~s3[Head(s8[t])])
  <2>1. Service!Go(t, "starting", Tail(s8[t])) /\ UNCHANGED <<s7, s10>>
    BY <1>5 DEF Service!CheckStart
  <2>2. Tail(s8[t]) \in Seq(Service!Components) /\ "starting" \in {"idle", "starting"}
    BY <1>2, <1>5
  <2> QED
    BY <1>1, <2>1, <2>2, CallerWaits
<1> QED
  BY <1>3, <1>4, <1>5

LEMMA ComponentStartsKeeps ==
    ASSUME Service!ServiceInv, NEW t \in Callers, Service!ComponentStarts(t)
    PROVE  Service!ServiceInv'
<1>0. PICK first : first = Head(s8[t])
  OBVIOUS
<1>1. /\ s6[t] = "component_starts" /\ UNCHANGED <<s1, s2, s3, s4, s7, s9, s10, s11>>
      /\ "component_starts" \in Service!Attending
  BY <1>0 DEF Service!ComponentStarts, Service!service_vars, Service!Attending
<1>2. Service!ServiceShape /\ s7[t] \in 1..s4
  BY <1>0, <1>1 DEF Service!ServiceInv, Service!ServiceShape, Service!TakesTurns, Service!NoContainer
<1>3. /\ first \in Service!Components /\ s8[t] # <<>>
      /\ s8[t] \in Seq(Service!Components) /\ Tail(s8[t]) \in Seq(Service!Components)
      /\ Service!Attends(t, first)
  BY <1>0, <1>1, <1>2, TheComponent
<1>4. s3 \in [Service!Components -> BOOLEAN] /\ s5 \subseteq (1..s4) \X Service!Components
  BY <1>0, <1>2 DEF Service!ServiceShape
<1>5. first \notin s10' \cup s11' =>
          /\ Service!Faithful(first)
          /\ \A u \in Callers : Service!Attends(u, first) => u = t
          /\ s1 = "running" /\ s7[t] = s2 /\ ~s3[first] /\ ~Service!Runs(first)
  BY <1>0, <1>1, <1>3 DEF Service!ServiceInv, Service!Faithful, Service!Attended
<1>6. CASE s5' = s5 \cup {<<s7[t], first>>} /\ Service!Go(t, "component_started", s8[t])
  <2>1. "component_started" \in Service!Places \ {"building", "stopping", "component_starts"}
    BY DEF Service!Places, Service!Attending
  <2>2. "component_started" \in Service!Attending
    BY DEF Service!Attending
  <2>3. /\ s5' \subseteq (1..s4) \X Service!Components
        /\ \A k \in 1..s4 : \A c \in Service!Components \ {first} : <<k, c>> \in s5' <=> <<k, c>> \in s5
    BY <1>0, <1>2, <1>3, <1>4, <1>6
  <2>4. ASSUME first \notin s10' \cup s11'
        PROVE  /\ Service!Attended(t, first)' /\ s1 # "stopping"
               /\ \A k \in 1..s4 : <<k, first>> \in s5' => k = s2
               /\ s1 = "running"
    <3>1. Service!Runs(first)' /\ \A k \in 1..s4 : <<k, first>> \in s5' => k = s2
      BY <1>0, <1>1, <1>5, <1>6, <2>4 DEF Service!Runs, Service!Faithful
    <3>2. s6'[t] = "component_started" /\ \A u \in Callers \ {t} : \A c : Service!Attends(u, c)' <=> Service!Attends(u, c)
      <4>1. "component_started" \in Service!Places
        BY <1>0, <2>1
      <4> QED
        BY <1>0, <1>2, <1>3, <1>6, <4>1, CallerMoves
    <3>3. \A u \in Callers : Service!Attends(u, first)' => u = t
      BY <1>0, <1>5, <2>4, <3>2
    <3> QED
      BY <1>0, <1>1, <1>5, <2>4, <3>1, <3>2, <3>3 DEF Service!Attended
  <2> QED
    BY <1>0, <1>1, <1>3, <1>4, <1>6, <2>1, <2>2, <2>3, <2>4, WithinKeeps
<1>7. CASE s5' = s5 /\ Service!Go(t, "starting", Tail(s8[t]))
  <2>1. "starting" \in Service!Places \ {"building", "stopping", "component_starts"}
    BY DEF Service!Places
  <2>2. "starting" \notin Service!Attending
    BY DEF Service!Attending
  <2>3. first \notin s10' \cup s11' =>
            /\ \A k \in 1..s4 : <<k, first>> \in s5' => k = s2
            /\ ~s3'[first] /\ ~Service!Runs(first)'
    BY <1>0, <1>1, <1>5, <1>7 DEF Service!Faithful, Service!Runs
  <2> QED
    BY <1>0, <1>1, <1>3, <1>4, <1>7, <2>1, <2>2, <2>3, WithinKeeps
<1> QED
  BY <1>0, <1>6, <1>7 DEF Service!ComponentStarts

LEMMA SetFlagKeeps ==
    ASSUME Service!ServiceInv, NEW t \in Callers, Service!SetFlag(t)
    PROVE  Service!ServiceInv'
<1>0. PICK first : first = Head(s8[t])
  OBVIOUS
<1>1. /\ s6[t] = "component_started" /\ UNCHANGED <<s1, s2, s4, s5, s7, s9, s10, s11>>
      /\ Service!Go(t, "starting", Tail(s8[t]))
      /\ "component_started" \in Service!Attending
  BY <1>0 DEF Service!SetFlag, Service!Attending
<1>2. Service!ServiceShape
  BY DEF Service!ServiceInv
<1>3. /\ first \in Service!Components /\ s8[t] # <<>>
      /\ s8[t] \in Seq(Service!Components) /\ Tail(s8[t]) \in Seq(Service!Components)
      /\ Service!Attends(t, first)
  BY <1>0, <1>1, <1>2, TheComponent
<1>4. s3 \in [Service!Components -> BOOLEAN] /\ s5 \subseteq (1..s4) \X Service!Components
  BY <1>0, <1>2 DEF Service!ServiceShape
<1>5. first \notin s10' \cup s11' =>
          Service!Faithful(first) /\ s1 = "running" /\ Service!Runs(first)
  BY <1>0, <1>1, <1>3 DEF Service!ServiceInv, Service!Faithful, Service!Attended
<1>6. /\ s3' \in [Service!Components -> BOOLEAN] /\ s3'[first] = TRUE
      /\ \A c \in Service!Components \ {first} : s3'[c] = s3[c]
  BY <1>0, <1>3, <1>4 DEF Service!SetFlag
<1>7. "starting" \in Service!Places \ {"building", "stopping", "component_starts"}
  BY DEF Service!Places
<1>8. "starting" \notin Service!Attending
  BY DEF Service!Attending
<1>9. first \notin s10' \cup s11' =>
          /\ "starting" \in Service!Attending => Service!Attended(t, first)'
          /\ \A k \in 1..s4 : <<k, first>> \in s5' => k = s2
          /\ s1 = "running" /\ "starting" \notin Service!Attending =>
                (s3'[first] <=> Service!Runs(first)')
          /\ s1 \notin {"running", "stopping"} => ~s3'[first] /\ ~Service!Runs(first)'
          /\ Service!Runs(first)' => Service!Runs(first) \/ s1 # "stopping"
  BY <1>1, <1>5, <1>6, <1>8 DEF Service!Faithful, Service!Runs
<1>10. s3' \in [Service!Components -> BOOLEAN] /\ \A c \in Service!Components \ {first} : s3'[c] = s3[c]
  BY <1>6
<1> QED
  BY <1>0, <1>1, <1>3, <1>4, <1>7, <1>8, <1>9, <1>10, WithinKeeps

LEMMA ClearFlagKeeps ==
    ASSUME Service!ServiceInv, NEW t \in Callers, Service!ClearFlag(t)
    PROVE  Service!ServiceInv'
<1>0. PICK first : first = Head(s8[t])
  OBVIOUS
<1>1. /\ s6[t] = "component_stopped" /\ UNCHANGED <<s1, s2, s4, s5, s7, s9, s10, s11>>
      /\ Service!Go(t, "idle", <<>>)
      /\ "component_stopped" \in Service!Attending
  BY <1>0 DEF Service!ClearFlag, Service!Attending
<1>2. Service!ServiceShape
  BY DEF Service!ServiceInv
<1>3. /\ first \in Service!Components /\ <<>> \in Seq(Service!Components)
      /\ Service!Attends(t, first)
  BY <1>0, <1>1, <1>2, TheComponent
<1>4. s3 \in [Service!Components -> BOOLEAN] /\ s5 \subseteq (1..s4) \X Service!Components
  BY <1>0, <1>2 DEF Service!ServiceShape
<1>5. first \notin s10' \cup s11' => Service!Faithful(first) /\ ~Service!Runs(first)
  BY <1>0, <1>1, <1>3 DEF Service!ServiceInv, Service!Faithful, Service!Attended
<1>6. /\ s3' \in [Service!Components -> BOOLEAN] /\ ~s3'[first]
      /\ \A c \in Service!Components \ {first} : s3'[c] = s3[c]
  BY <1>0, <1>3, <1>4 DEF Service!ClearFlag
<1>7. "idle" \in Service!Places \ {"building", "stopping", "component_starts"}
  BY DEF Service!Places
<1>8. "idle" \notin Service!Attending
  BY DEF Service!Attending
<1>9. first \notin s10' \cup s11' =>
          /\ "idle" \in Service!Attending => Service!Attended(t, first)'
          /\ \A k \in 1..s4 : <<k, first>> \in s5' => k = s2
          /\ s1 = "running" /\ "idle" \notin Service!Attending =>
                (s3'[first] <=> Service!Runs(first)')
          /\ s1 \notin {"running", "stopping"} => ~s3'[first] /\ ~Service!Runs(first)'
          /\ Service!Runs(first)' => Service!Runs(first) \/ s1 # "stopping"
  BY <1>1, <1>5, <1>6, <1>8 DEF Service!Faithful, Service!Runs
<1>10. s3' \in [Service!Components -> BOOLEAN] /\ \A c \in Service!Components \ {first} : s3'[c] = s3[c]
  BY <1>6
<1> QED
  BY <1>0, <1>1, <1>3, <1>4, <1>7, <1>8, <1>9, <1>10, WithinKeeps

LEMMA ComponentStopsKeeps ==
    ASSUME Service!ServiceInv, NEW t \in Callers, Service!ComponentStops(t)
    PROVE  Service!ServiceInv'
<1>0. PICK first : first = Head(s8[t])
  OBVIOUS
<1>1. /\ s6[t] = "component_stops" /\ UNCHANGED <<s1, s2, s3, s4, s7, s9, s10>>
      /\ "component_stops" \in Service!Attending
      /\ Service!Halt(t, first)
      /\ \/ s11' = s11 /\ Service!Go(t, "component_stopped", s8[t])
         \/ s11' # s11 /\ Service!Go(t, "idle", <<>>)
  BY <1>0 DEF Service!ComponentStops, Service!service_vars, Service!Attending
<1>2. Service!ServiceShape
  BY DEF Service!ServiceInv
<1>3. /\ first \in Service!Components /\ <<>> \in Seq(Service!Components)
      /\ s8[t] \in Seq(Service!Components)
      /\ Service!Attends(t, first)
  BY <1>0, <1>1, <1>2, TheComponent
<1>4. s3 \in [Service!Components -> BOOLEAN] /\ s5 \subseteq (1..s4) \X Service!Components
  BY <1>0, <1>2 DEF Service!ServiceShape
<1>5. /\ s11 \subseteq s11' /\ s5' \subseteq s5
      /\ first \notin s11' => s11' = s11 /\ s5' = s5 \ {<<s7[t], first>>}
      /\ \A k : \A c : c # first => (<<k, c>> \in s5' <=> <<k, c>> \in s5)
  BY <1>0, <1>1 DEF Service!Halt
<1>6. first \notin s10' \cup s11' =>
          /\ Service!Faithful(first)
          /\ \A u \in Callers : Service!Attends(u, first) => u = t
          /\ ~Service!Runs(first)'
          /\ \A k \in 1..s4 : <<k, first>> \in s5' => k = s2
  BY <1>0, <1>1, <1>3, <1>5 DEF Service!ServiceInv, Service!Faithful, Service!Attended, Service!Runs
<1>7. s5' \subseteq (1..s4) \X Service!Components
  BY <1>0, <1>4, <1>5
<1>8. CASE s11' = s11 /\ Service!Go(t, "component_stopped", s8[t])
  <2>1. "component_stopped" \in Service!Places \ {"building", "stopping", "component_starts"}
    BY DEF Service!Places, Service!Attending
  <2>2. "component_stopped" \in Service!Attending
    BY DEF Service!Attending
  <2>3. ASSUME first \notin s10' \cup s11' PROVE Service!Attended(t, first)'
    <3>1. s6'[t] = "component_stopped" /\ \A u \in Callers \ {t} : \A c : Service!Attends(u, c)' <=> Service!Attends(u, c)
      <4>1. "component_stopped" \in Service!Places
        BY <1>0, <2>1
      <4> QED
        BY <1>0, <1>2, <1>3, <1>8, <4>1, CallerMoves
    <3> QED
      BY <1>0, <1>6, <2>3, <3>1 DEF Service!Attended
  <2>4. ASSUME first \notin s10' \cup s11', s1 \notin {"running", "stopping"}
        PROVE  ~s3'[first]
    BY <1>0, <1>1, <1>6, <2>4 DEF Service!Faithful
  <2> QED
    BY <1>0, <1>1, <1>3, <1>4, <1>5, <1>6, <1>7, <1>8, <2>1, <2>2, <2>3, <2>4, WithinKeeps
<1>9. CASE s11' # s11 /\ Service!Go(t, "idle", <<>>)
  <2>1. "idle" \in Service!Places \ {"building", "stopping", "component_starts"}
    BY DEF Service!Places
  <2>2. "idle" \notin Service!Attending
    BY DEF Service!Attending
  <2>3. first \in s11'
    BY <1>0, <1>5, <1>9
  <2> QED
    BY <1>0, <1>1, <1>3, <1>4, <1>5, <1>7, <1>9, <2>1, <2>2, <2>3, WithinKeeps
<1> QED
  BY <1>0, <1>1, <1>8, <1>9

LEMMA StopBegins ==
    ASSUME Service!ServiceInv, NEW t \in Callers, Service!Stop(t)
    PROVE  Service!ServiceInv'
<1>1. /\ s6[t] = "idle" /\ s1 \in {"running", "failed"} /\ s1' = "stopping"
      /\ s7' = [s7 EXCEPT ![t] = s2]
      /\ s9' = [s9 EXCEPT ![t] = {c \in Service!Components : s3[c] /\ s2 # Service!NoContainer}]
      /\ Service!Go(t, "stopping", <<>>) /\ Service!Cross(t, Service!Components)
      /\ UNCHANGED <<s2, s3, s4, s5, s11>>
  BY DEF Service!Stop
<1>2. /\ Service!ServiceShape /\ Service!TakesTurns
      /\ "stopping" \in Service!Places /\ "stopping" \notin Service!Attending
      /\ "idle" \notin Service!Attending
      /\ <<>> \in Seq(Service!Components)
  BY DEF Service!ServiceInv, Service!Places, Service!Attending
<1>3. /\ s6' \in [Callers -> Service!Places] /\ s8' \in [Callers -> Seq(Service!Components)]
      /\ s6'[t] = "stopping" /\ s8'[t] = <<>>
      /\ \A u \in Callers \ {t} : s6'[u] = s6[u] /\ s8'[u] = s8[u]
      /\ \A u \in Callers \ {t} : \A c : Service!Attends(u, c)' <=> Service!Attends(u, c)
      /\ \A c : ~Service!Attends(t, c)'
  BY <1>1, <1>2, CallerMoves
<1>4. /\ s7' \in [Callers -> 0..s4] /\ s7'[t] = s2
      /\ \A u \in Callers \ {t} : s7'[u] = s7[u]
  BY <1>1, <1>2 DEF Service!ServiceShape
<1>5. /\ s9' \in [Callers -> SUBSET Service!Components]
      /\ s9'[t] = {c \in Service!Components : s3[c] /\ s2 # Service!NoContainer}
  BY <1>1, <1>2 DEF Service!ServiceShape
<1>6. Service!ServiceShape'
  BY <1>1, <1>2, <1>3, <1>4, <1>5 DEF Service!ServiceShape
<1>7. Service!TakesTurns'
  <2>1. \A u \in Callers : s6'[u] # "building" /\ (s6'[u] = "stopping" => u = t)
    BY <1>1, <1>2, <1>3 DEF Service!TakesTurns
  <2>2. \A u \in Callers : s6'[u] = "component_starts" => s7'[u] # Service!NoContainer
    BY <1>2, <1>3, <1>4 DEF Service!TakesTurns
  <2> QED
    BY <1>1, <1>4, <2>1, <2>2 DEF Service!TakesTurns, Service!NoContainer
<1>8. ASSUME NEW c \in Service!Components, c \notin s10' \cup s11'
      PROVE  Service!Faithful(c)'
  <2>1. Service!Faithful(c)
    BY <1>1, <1>8 DEF Service!ServiceInv, Service!Cross
  <2>2. \A u \in Callers : ~Service!Attends(u, c)
    BY <1>1, <1>2, <1>8, AloneThere DEF Service!Attends
  <2>3. \A u \in Callers : ~Service!Attends(u, c)'
    BY <1>3, <2>2
  <2>4. Service!Runs(c) => c \in s9'[t]
    <3>1. ASSUME Service!Runs(c) PROVE s3[c] /\ s2 # Service!NoContainer
      <4>1. s1 = "running"
        BY <1>1, <2>1, <3>1 DEF Service!Faithful
      <4> QED
        BY <1>2, <2>1, <2>2, <3>1, <4>1 DEF Service!Faithful, Service!TakesTurns
    <3> QED
      BY <1>5, <3>1
  <2>5. \A u \in Callers : s6'[u] = "stopping" => u = t
    BY <1>1, <1>2, <1>3 DEF Service!TakesTurns
  <2> QED
    BY <1>1, <2>1, <2>3, <2>4, <2>5 DEF Service!Faithful, Service!Runs
<1> QED
  BY <1>6, <1>7, <1>8 DEF Service!ServiceInv

LEMMA StopNextKeeps ==
    ASSUME Service!ServiceInv, NEW t \in Callers, Service!StopNext(t)
    PROVE  Service!ServiceInv'
<1>1. /\ s6[t] = "stopping" /\ UNCHANGED <<s1, s2, s3, s4, s6, s7, s8, s10>>
  BY DEF Service!StopNext, Service!service_vars
<1>2. PICK first : /\ first \in s9[t] /\ Service!Halt(t, first)
                   /\ s9' = [s9 EXCEPT ![t] = s9[t] \ {first}]
  BY DEF Service!StopNext
<1>3. Service!ServiceShape /\ Service!TakesTurns /\ s1 = "stopping"
  BY <1>1 DEF Service!ServiceInv, Service!TakesTurns
<1>4. /\ s9' \in [Callers -> SUBSET Service!Components]
      /\ s9'[t] = s9[t] \ {first} /\ first \in Service!Components
  BY <1>2, <1>3 DEF Service!ServiceShape
<1>5. /\ s11 \subseteq s11' /\ s5' \subseteq s5
      /\ first \notin s11' => s5' = s5 \ {<<s7[t], first>>}
      /\ \A k : \A c : c # first => (<<k, c>> \in s5' <=> <<k, c>> \in s5)
  BY <1>2 DEF Service!Halt
<1>6. Service!ServiceShape'
  BY <1>1, <1>3, <1>4, <1>5 DEF Service!ServiceShape
<1>7. Service!TakesTurns'
  BY <1>1, <1>3 DEF Service!TakesTurns
<1>8. \A u \in Callers : \A c : Service!Attends(u, c)' <=> Service!Attends(u, c)
  BY <1>1 DEF Service!Attends
<1>9. ASSUME NEW c \in Service!Components, c \notin s10' \cup s11'
      PROVE  Service!Faithful(c)'
  <2>1. Service!Faithful(c)
    BY <1>1, <1>5, <1>9 DEF Service!ServiceInv
  <2>2. Service!Runs(c)' => Service!Runs(c)
    BY <1>1, <1>5 DEF Service!Runs
  <2>3. \A u \in Callers : Service!Attends(u, c) => Service!Attended(u, c)'
    BY <1>1, <1>3, <1>8, <2>1, <2>2 DEF Service!Faithful, Service!Attended
  <2>4. \A k \in 1..s4 : <<k, c>> \in s5' => k = s2
    BY <1>5, <2>1 DEF Service!Faithful
  <2>5. \A u \in Callers : s6[u] = "stopping" => u = t
    BY <1>1, <1>3 DEF Service!TakesTurns
  <2>6. Service!Runs(c)' => c \in s9'[t]
    <3>1. CASE c # first
      BY <1>1, <1>4, <2>1, <2>2, <3>1 DEF Service!Faithful
    <3>2. CASE c = first
      <4>1. s7[t] = s2
        BY <1>1, <1>3 DEF Service!TakesTurns
      <4> QED
        BY <1>1, <1>5, <1>9, <3>2, <4>1 DEF Service!Runs
    <3> QED
      BY <3>1, <3>2
  <2> QED
    BY <1>1, <1>3, <1>8, <2>3, <2>4, <2>5, <2>6 DEF Service!Faithful
<1> QED
  BY <1>6, <1>7, <1>9 DEF Service!ServiceInv

LEMMA StoppedKeeps ==
    ASSUME Service!ServiceInv, NEW t \in Callers, Service!Stopped(t)
    PROVE  Service!ServiceInv'
<1>1. /\ s6[t] = "stopping" /\ s9[t] = {} /\ s2' = Service!NoContainer /\ s1' = "stopped"
      /\ s3' = [c \in Service!Components |-> FALSE]
      /\ Service!Go(t, "idle", <<>>) /\ UNCHANGED <<s4, s5, s7, s9, s10, s11>>
  BY DEF Service!Stopped
<1>2. /\ Service!ServiceShape /\ Service!TakesTurns /\ s1 = "stopping"
      /\ "idle" \in Service!Places /\ "idle" \notin Service!Attending
      /\ "stopping" \notin Service!Attending
      /\ <<>> \in Seq(Service!Components)
  BY <1>1 DEF Service!ServiceInv, Service!TakesTurns, Service!Places, Service!Attending
<1>3. /\ s6' \in [Callers -> Service!Places] /\ s8' \in [Callers -> Seq(Service!Components)]
      /\ s6'[t] = "idle" /\ s8'[t] = <<>>
      /\ \A u \in Callers \ {t} : s6'[u] = s6[u] /\ s8'[u] = s8[u]
      /\ \A u \in Callers \ {t} : \A c : Service!Attends(u, c)' <=> Service!Attends(u, c)
      /\ \A c : ~Service!Attends(t, c)'
  BY <1>1, <1>2, CallerMoves
<1>4. Service!ServiceShape'
  <2>1. s2' \in 0..s4'
    BY <1>1, <1>2 DEF Service!ServiceShape, Service!NoContainer
  <2> QED
    BY <1>1, <1>2, <1>3, <2>1 DEF Service!ServiceShape
<1>5. \A u \in Callers : s6'[u] \notin {"building", "stopping"}
  BY <1>1, <1>2, <1>3 DEF Service!TakesTurns
<1>6. Service!TakesTurns'
  <2>1. \A u \in Callers : s6'[u] = "component_starts" => s7'[u] # Service!NoContainer
    BY <1>1, <1>2, <1>3 DEF Service!TakesTurns
  <2> QED
    BY <1>1, <1>5, <2>1 DEF Service!TakesTurns, Service!NoContainer
<1>7. ASSUME NEW c \in Service!Components, c \notin s10' \cup s11'
      PROVE  Service!Faithful(c)'
  <2>1. Service!Faithful(c)
    BY <1>1, <1>7 DEF Service!ServiceInv
  <2>2. \A k : <<k, c>> \notin s5
    <3>1. ~Service!Runs(c)
      BY <1>1, <2>1 DEF Service!Faithful
    <3>2. \A k \in 1..s4 : <<k, c>> \notin s5
      BY <2>1, <3>1 DEF Service!Faithful, Service!Runs
    <3> QED
      BY <1>2, <3>2 DEF Service!ServiceShape
  <2>3. \A u \in Callers : Service!Attends(u, c)' <=> Service!Attends(u, c)
    BY <1>1, <1>2, <1>3 DEF Service!Attends
  <2>4. \A u \in Callers : Service!Attends(u, c) =>
            s6'[u] = s6[u] /\ s6[u] \in {"component_stops", "component_stopped"}
    BY <1>1, <1>2, <1>3, <2>1, <2>3 DEF Service!Faithful, Service!Attended, Service!Attends,
                                 Service!Attending
  <2>5. \A u \in Callers : Service!Attends(u, c) => Service!Attended(u, c)'
    BY <1>1, <2>1, <2>2, <2>3, <2>4 DEF Service!Faithful, Service!Attended, Service!Runs
  <2>6. ~s3'[c]
    BY <1>1
  <2> QED
    BY <1>1, <1>5, <2>2, <2>3, <2>5, <2>6 DEF Service!Faithful, Service!Runs
<1> QED
  BY <1>4, <1>6, <1>7 DEF Service!ServiceInv

(* Without a container a stop only clears the flag.                          *)
LEMMA RequestStopKeeps ==
    ASSUME Service!ServiceInv, NEW t \in Callers, NEW first \in Service!Components,
           Service!RequestStop(t, first)
    PROVE  Service!ServiceInv'
<1>1. /\ s6[t] = "idle" /\ UNCHANGED <<s1, s2, s4, s5, s11>>
      /\ "idle" \notin Service!Attending /\ "idle" \notin {"building", "stopping"}
  BY DEF Service!RequestStop, Service!Attending
<1>2. Service!ServiceShape /\ Service!TakesTurns
  BY DEF Service!ServiceInv
<1>3. CASE s2 = Service!NoContainer
  <2>1. s3' = [s3 EXCEPT ![first] = FALSE] /\ UNCHANGED <<s6, s7, s8, s9, s10>>
    BY <1>3 DEF Service!RequestStop, Service!call_vars
  <2>2. /\ s3' \in [Service!Components -> BOOLEAN]
        /\ \A c \in Service!Components : s3'[c] => s3[c]
    BY <1>2, <2>1 DEF Service!ServiceShape
  <2>3. s1 # "running"
    BY <1>2, <1>3 DEF Service!TakesTurns
  <2>4. Service!ServiceShape'
    BY <1>1, <1>2, <2>1, <2>2 DEF Service!ServiceShape
  <2>5. Service!TakesTurns'
    BY <1>1, <1>2, <2>1 DEF Service!TakesTurns
  <2>6. ASSUME NEW c \in Service!Components, c \notin s10' \cup s11'
        PROVE  Service!Faithful(c)'
    <3>1. Service!Faithful(c)
      BY <1>1, <2>1, <2>6 DEF Service!ServiceInv
    <3>2. \A u \in Callers : Service!Attends(u, c)' <=> Service!Attends(u, c)
      BY <2>1 DEF Service!Attends
    <3>3. \A u \in Callers : Service!Attends(u, c) => Service!Attended(u, c)'
      BY <1>1, <2>1, <2>2, <3>1, <3>2 DEF Service!Faithful, Service!Attended, Service!Runs
    <3> QED
      BY <1>1, <2>1, <2>2, <2>3, <3>1, <3>2, <3>3 DEF Service!Faithful, Service!Runs
  <2> QED
    BY <2>4, <2>5, <2>6 DEF Service!ServiceInv
<1>4. CASE s2 # Service!NoContainer
  <2>1. /\ s7' = [s7 EXCEPT ![t] = s2] /\ Service!Go(t, "component_stops", <<first>>)
        /\ Service!Cross(t, {first}) /\ UNCHANGED <<s3, s9>>
    BY <1>4 DEF Service!RequestStop
  <2>2. <<first>> \in Seq(Service!Components) /\ <<first>> # <<>> /\ first = Head(<<first>>)
    OBVIOUS
  <2> QED
    BY <1>1, <1>4, <2>1, <2>2, EnterKeeps
<1> QED
  BY <1>3, <1>4

LEMMA ServiceKeeps ==
    ASSUME Service!ServiceInv, Service!Next \/ UNCHANGED Service!vars
    PROVE  Service!ServiceInv'
<1>1. CASE UNCHANGED Service!vars
  BY <1>1 DEF Service!vars, Service!service_vars, Service!call_vars, Service!ServiceInv,
              Service!ServiceShape, Service!TakesTurns, Service!Faithful, Service!Attended,
              Service!Attends, Service!Runs
<1>2. ASSUME NEW t \in Callers, Service!Step(t)
      PROVE  Service!ServiceInv'
  <2>1. Service!Start(t) => Service!ServiceInv'
    BY StartKeeps
  <2>2. ASSUME Service!Built(t) PROVE Service!ServiceInv'
    <3>1. /\ s6[t] = "building" /\ s4' = s4 + 1 /\ s2' = s4' /\ s1' = "running"
          /\ Service!Go(t, "starting", AutoStart)
          /\ UNCHANGED <<s3, s5, s7, s9, s10, s11>>
      BY <2>2 DEF Service!Built
    <3> QED
      BY <3>1, BuildKeeps, ServiceAssumption
  <2>3. ASSUME Service!BuildFails(t) PROVE Service!ServiceInv'
    <3>1. /\ s6[t] = "building" /\ s4' = s4 + 1 /\ s2' = Service!NoContainer /\ s1' = "failed"
          /\ Service!Go(t, "idle", <<>>) /\ <<>> \in Seq(Service!Components)
          /\ UNCHANGED <<s3, s5, s7, s9, s10, s11>>
      BY <2>3 DEF Service!BuildFails
    <3> QED
      BY <3>1, BuildKeeps
  <2>4. ASSUME NEW c \in Service!Components, Service!RequestStart(t, c) PROVE Service!ServiceInv'
    <3>1. /\ s6[t] = "idle" /\ "idle" \notin Service!Attending
          /\ Service!Go(t, "starting", <<c>>) /\ <<c>> \in Seq(Service!Components)
          /\ UNCHANGED <<s1, s2, s3, s4, s5, s7, s9, s10, s11>>
      BY <2>4 DEF Service!RequestStart, Service!service_vars, Service!Attending
    <3> QED
      BY <3>1, CallerWaits
  <2> QED
    BY <1>2, <2>1, <2>2, <2>3, <2>4, CheckStartKeeps, ComponentStartsKeeps, SetFlagKeeps,
       ComponentStopsKeeps, ClearFlagKeeps, StopBegins, StopNextKeeps, StoppedKeeps,
       RequestStopKeeps
       DEF Service!Step
<1> QED
  BY <1>1, <1>2 DEF Service!Next

LEMMA InvIsAttended ==
    ASSUME Service!ServiceInv
    PROVE  Service!ComponentsAttended
BY DEF Service!ServiceInv, Service!Faithful, Service!Runs, Service!ComponentsAttended

(* For any callers and components and any order of their calls: a component  *)
(* that is flagged runs in the current container, and none runs on in one    *)
(* that was taken down, but for components whose stop() raised and those     *)
(* that two calls met at.                                                    *)
THEOREM StatusIsTrue == AnySpec => []ComponentsAttended
<1> DEFINE Inv == component = "service" => Service!ServiceInv
<1>1. AnyInit => Inv
  BY ServiceBegins DEF AnyInit
<1>2. Inv /\ [AnyNext]_AnyVars => Inv'
  BY Selected, ServiceKeeps
<1>3. Inv => ComponentsAttended
  BY InvIsAttended DEF ComponentsAttended
<1> QED
  BY <1>1, <1>2, <1>3, PTL DEF AnySpec, AnyVars

-----------------------------------------------------------------------------
(* The application container                                                 *)

LEMMA ServicesFacts ==
    /\ Container!Places = 1 .. 17 /\ Len(Container!Services) = 17
    /\ \A i, j \in 1 .. 17 : Container!Services[i] = Container!Services[j] => i = j
<1>1. Len(Container!Services) = 17
  BY DEF Container!Services
<1>2. ASSUME NEW i \in 1 .. 17, NEW j \in 1 .. 17, Container!Services[i] = Container!Services[j]
      PROVE  i = j
  BY <1>2 DEF Container!Services
<1> QED
  BY <1>1, <1>2 DEF Container!Places

LEMMA UsesAreBefore ==
    ASSUME NEW i \in 1 .. 17, NEW m \in Container!Uses(Container!Services[i])
    PROVE  \/ \E j \in 1 .. 17 : j < i /\ Container!Services[j] = m
           \/ m = "autonomous_controller" /\ Container!Services[i] = "background_worker"
<1> USE DEF Container!Services, Container!Uses, Container!StubUses, Container!WorkerUses
<1>1. CASE i \in 1 .. 5
  BY <1>1
<1>2. CASE i \in 6 .. 10
  BY <1>2
<1>3. CASE i \in 11 .. 14
  BY <1>3
<1>4. CASE i \in 15 .. 17
  BY <1>4
<1> QED
  BY <1>1, <1>2, <1>3, <1>4

LEMMA ContainerBegins ==
    ASSUME Container!Init
    PROVE  Container!TakenDown
<1> USE DEF Container!Init
<1>1. s4 = <<>> /\ DOMAIN s4 = {} /\ Len(s4) = 0 /\ \A t \in Container!CloserThreads : s7[t] = 0
  BY DEF Container!CloserThreads
<1>2. Container!ContainerTypeOK
  <2>1. s4 \in Seq({Container!Object(Container!Services[i]) : i \in Container!Places})
    BY <1>1
  <2>2. DOMAIN s7 = Container!CloserThreads /\ DOMAIN s8 = Container!CloserThreads
    BY DEF Container!CloserThreads
  <2>3. \A t \in Container!CloserThreads : s7[t] \in 0 .. Len(s4)
    BY <1>1
  <2>4. Len(s4) <= Len(Container!Services)
    BY <1>1, ServicesFacts
  <2>5. \A i \in DOMAIN s4 : s4[i] = Container!Object(Container!Services[i])
    BY <1>1
  <2> QED
    BY <2>1, <2>2, <2>3, <2>4, <2>5 DEF Container!ContainerTypeOK
<1>3. Container!NobodyCloses /\ Container!ClosedInPhase
  BY <1>1 DEF Container!NobodyCloses, Container!ClosedInPhase, Container!Closing, Container!CloserThreads
<1>4. Container!Untouched /\ Container!LeftDown /\ Container!Alone /\ Container!InOrder
  BY <1>1, <1>3 DEF Container!Untouched, Container!LeftDown, Container!Alone, Container!InOrder,
                    Container!Closing, Container!NobodyCloses
<1> QED
  BY <1>2, <1>3, <1>4 DEF Container!TakenDown

(* Phases change nothing for what is closed and by whom.                     *)
LEMMA OnlyThePhase ==
    ASSUME Container!TakenDown, UNCHANGED <<s2, s4, s5, s6, s7, s8, s10, s11>>,
           s1' \in {"called", "refused", "building", "failing", "ready", "failed"},
           Container!ClosedInPhase'
    PROVE  Container!TakenDown'
<1>1. Container!ContainerTypeOK'
  BY DEF Container!TakenDown, Container!ContainerTypeOK, Container!Object
<1>2. Container!Untouched' /\ Container!LeftDown' /\ Container!Alone'
  BY DEF Container!TakenDown, Container!Untouched, Container!LeftDown, Container!Alone,
         Container!Down, Container!Closing, Container!NobodyCloses
<1>3. Container!InOrder'
  BY DEF Container!TakenDown, Container!InOrder, Container!Down
<1> QED
  BY <1>1, <1>2, <1>3 DEF Container!TakenDown

LEMMA PhaseSteps ==
    ASSUME Container!TakenDown,
           \/ \E config \in Configs : Container!Begin(config)
           \/ Container!Complete
           \/ \E p \in Projects : Container!ForProject(p)
           \/ UNCHANGED Container!vars
    PROVE  Container!TakenDown'
<1>1. /\ UNCHANGED <<s2, s4, s5, s6, s7, s8, s10, s11>>
      /\ \/ s1' = s1
         \/ s1 = "called" /\ s1' \in {"building", "refused"}
         \/ s1 = "building" /\ s1' = "ready"
  BY DEF Container!Begin, Container!Complete, Container!ForProject, Container!vars, Container!close_vars
<1>2. s1' \in {"called", "refused", "building", "failing", "ready", "failed"}
  BY <1>1 DEF Container!TakenDown, Container!ContainerTypeOK
<1>3. Container!ClosedInPhase'
  BY <1>1 DEF Container!TakenDown, Container!ClosedInPhase, Container!NobodyCloses, Container!Closing,
              Container!CloserThreads
<1> QED
  BY <1>1, <1>2, <1>3, OnlyThePhase

LEMMA FailEmptyKeeps ==
    ASSUME Container!TakenDown, Container!FailEmpty
    PROVE  Container!TakenDown'
<1>1. /\ s1 = "failing" /\ s4 = <<>> /\ s1' = "failed" /\ s6' = TRUE
      /\ UNCHANGED <<s2, s4, s5, s7, s8, s10, s11>>
  BY DEF Container!FailEmpty
<1>2. DOMAIN s4 = {} /\ Len(s4) = 0
  BY <1>1
<1>3. \A t \in Container!CloserThreads : s7[t] = 0
  BY <1>2 DEF Container!TakenDown, Container!ContainerTypeOK
<1>4. Container!ContainerTypeOK'
  BY <1>1 DEF Container!TakenDown, Container!ContainerTypeOK, Container!Object
<1>5. Container!ClosedInPhase' /\ Container!Untouched' /\ Container!LeftDown' /\ Container!Alone'
  BY <1>1, <1>2, <1>3
  DEF Container!TakenDown, Container!ClosedInPhase, Container!Untouched, Container!LeftDown,
      Container!Alone, Container!Down, Container!Closing, Container!NobodyCloses
<1>6. Container!InOrder'
  BY <1>1, <1>2 DEF Container!InOrder
<1> QED
  BY <1>1, <1>4, <1>5, <1>6 DEF Container!TakenDown

LEMMA ConstructKeeps ==
    ASSUME Container!TakenDown, Container!Construct
    PROVE  Container!TakenDown'
<1> DEFINE n == Len(s4) + 1
           o == Container!Object(Container!Services[n])
<1>1. /\ s1 = "building" /\ Len(s4) < Len(Container!Services) /\ s4' = Append(s4, o) /\ s5' = s5 \cup {o}
      /\ UNCHANGED <<s1, s2, s6, s7, s8, s10, s11>>
  BY DEF Container!Construct, Container!Building, Container!NextService
<1>2. Container!ContainerTypeOK /\ Len(s4) \in Nat /\ n \in Container!Places /\ DOMAIN s4 = 1 .. Len(s4)
  BY <1>1, ServicesFacts DEF Container!TakenDown, Container!ContainerTypeOK
<1>3. /\ s4' \in Seq({Container!Object(Container!Services[i]) : i \in Container!Places})
      /\ Len(s4') = n /\ DOMAIN s4' = 1 .. n
      /\ s4'[n] = o /\ \A i \in 1 .. Len(s4) : s4'[i] = s4[i]
  BY <1>1, <1>2 DEF Container!ContainerTypeOK
<1>4. \A i \in 1 .. n : i = n \/ i \in 1 .. Len(s4)
  BY <1>2
<1>5. Container!ContainerTypeOK'
  <2>1. \A i \in DOMAIN s4' : s4'[i] = Container!Object(Container!Services[i])'
    BY <1>1, <1>2, <1>3, <1>4 DEF Container!ContainerTypeOK, Container!Object
  <2>2. Len(s4') <= Len(Container!Services) /\ \A t \in Container!CloserThreads : s7'[t] \in 0 .. Len(s4')
    BY <1>1, <1>2, <1>3, ServicesFacts DEF Container!ContainerTypeOK
  <2>3. {Container!Object(Container!Services[i])' : i \in Container!Places}
        = {Container!Object(Container!Services[i]) : i \in Container!Places}
    BY <1>1 DEF Container!Object
  <2> QED
    BY <1>1, <1>2, <1>3, <2>1, <2>2, <2>3 DEF Container!ContainerTypeOK
<1>6. ~s6 /\ Container!NobodyCloses /\ Container!NobodyCloses' /\ Container!ClosedInPhase'
  BY <1>1 DEF Container!TakenDown, Container!ClosedInPhase, Container!NobodyCloses, Container!Closing
<1>7. \A i \in DOMAIN s4' : s4'[i] \in s5'
  BY <1>1, <1>2, <1>3, <1>4, <1>6 DEF Container!TakenDown, Container!Untouched
<1>8. Container!Untouched' /\ Container!LeftDown' /\ Container!InOrder'
  BY <1>1, <1>6, <1>7
  DEF Container!Untouched, Container!LeftDown, Container!InOrder, Container!NobodyCloses
<1>9. Container!Alone'
  BY <1>1, <1>2, <1>6 DEF Container!Alone, Container!NobodyCloses, Container!Closing, Container!ContainerTypeOK
<1> QED
  BY <1>1, <1>5, <1>6, <1>8, <1>9 DEF Container!TakenDown

LEMMA ConstructFailsKeeps ==
    ASSUME Container!TakenDown, Container!ConstructFails
    PROVE  Container!TakenDown'
<1>1. /\ s1 = "building" /\ s1' = "failing" /\ s7' = [s7 EXCEPT ![Container!Builder] = Len(s4)]
      /\ UNCHANGED <<s2, s4, s5, s6, s8, s10, s11>>
  BY DEF Container!ConstructFails, Container!Building
<1>2. Container!ContainerTypeOK /\ Len(s4) \in Nat /\ DOMAIN s4 = 1 .. Len(s4)
  BY DEF Container!TakenDown, Container!ContainerTypeOK
<1>3. /\ Container!Builder \in Container!CloserThreads
      /\ Container!Builder \notin Closers
  BY ContainerAssumption DEF Container!CloserThreads
<1>4. /\ DOMAIN s7' = Container!CloserThreads /\ s7'[Container!Builder] = Len(s4)
      /\ \A t \in Container!CloserThreads : t # Container!Builder => s7'[t] = s7[t]
  BY <1>1, <1>2, <1>3 DEF Container!ContainerTypeOK
<1>5. Container!ContainerTypeOK'
  BY <1>1, <1>2, <1>4 DEF Container!ContainerTypeOK, Container!Object
<1>6. /\ ~s6 /\ s8[Container!Builder] = {} /\ \A t \in Container!CloserThreads : s7[t] = 0
      /\ \A i \in DOMAIN s4 : s4[i] \in s5
  BY <1>1, <1>2 DEF Container!TakenDown, Container!ClosedInPhase, Container!NobodyCloses, Container!Closing,
                    Container!Untouched, Container!ContainerTypeOK
<1>7. Container!ClosedInPhase'
  <2>1. Len(s4) = 0 => s4 = <<>>
    BY <1>2 DEF Container!ContainerTypeOK
  <2>2. Len(s4) > 0 \/ s4 = <<>>
    BY <1>2, <2>1
  <2>3. \A t \in Closers : s7'[t] = 0
    BY <1>3, <1>4, <1>6 DEF Container!CloserThreads
  <2> QED
    BY <1>1, <1>4, <1>6, <2>2, <2>3 DEF Container!ClosedInPhase, Container!Closing
<1>8. Container!Untouched' /\ Container!InOrder'
  BY <1>1, <1>6 DEF Container!Untouched, Container!InOrder
<1>9. Container!LeftDown'
  BY <1>1, <1>2, <1>4, <1>6 DEF Container!LeftDown, Container!Closing
<1>10. Container!Alone'
  BY <1>1, <1>2, <1>4, <1>6 DEF Container!Alone, Container!Closing
<1> QED
  BY <1>1, <1>5, <1>7, <1>8, <1>9, <1>10 DEF Container!TakenDown

LEMMA BeginCloseKeeps ==
    ASSUME Container!TakenDown, NEW t \in Container!CloserThreads, Container!BeginClose(t)
    PROVE  Container!TakenDown'
<1> DEFINE Gone(x) == x \notin s5' \/ x \in Refusing
<1>1. /\ s1 = "ready" /\ ~s6 /\ t \in Closers /\ ~Container!Closing(t)
      /\ s7' = [s7 EXCEPT ![t] = Len(s4)] /\ s8' = [s8 EXCEPT ![t] = {}]
      /\ s10' = (s10 \/ \E u \in Closers : Container!Closing(u))
      /\ UNCHANGED <<s1, s2, s4, s5, s6, s11>>
  BY DEF Container!BeginClose
<1>2. Container!ContainerTypeOK /\ Len(s4) \in Nat /\ DOMAIN s4 = 1 .. Len(s4)
  BY DEF Container!TakenDown, Container!ContainerTypeOK
<1>3. /\ DOMAIN s7' = Container!CloserThreads /\ DOMAIN s8' = Container!CloserThreads
      /\ s7'[t] = Len(s4) /\ s8'[t] = {}
      /\ \A u \in Container!CloserThreads : u # t => s7'[u] = s7[u] /\ s8'[u] = s8[u]
  BY <1>1, <1>2 DEF Container!ContainerTypeOK
<1>4. Container!ContainerTypeOK'
  <2>1. s10' \in BOOLEAN
    BY <1>1, Zenon
  <2>2. \A u \in Container!CloserThreads : s7'[u] \in 0 .. Len(s4')
    BY <1>1, <1>2, <1>3 DEF Container!ContainerTypeOK
  <2> QED
    BY <1>1, <1>2, <1>3, <2>1, <2>2 DEF Container!ContainerTypeOK, Container!Object
<1>5. Container!ClosedInPhase'
  BY <1>1, <1>3, ContainerAssumption
  DEF Container!TakenDown, Container!ClosedInPhase, Container!Closing, Container!CloserThreads
<1>6. Container!LeftDown'
  <2>1. ASSUME NEW u \in Container!CloserThreads, Container!Closing(u)'
        PROVE  /\ \A i \in DOMAIN s4' : i > s7'[u] => Gone(s4'[i])
               /\ \A o \in s8'[u] : Gone(o)
    <3>1. CASE u = t
      BY <1>1, <1>2, <1>3, <3>1
    <3>2. CASE u # t
      BY <1>1, <1>3, <2>1, <3>2 DEF Container!TakenDown, Container!LeftDown, Container!Closing, Container!Down
    <3> QED
      BY <3>1, <3>2
  <2> QED
    BY <1>1, <2>1 DEF Container!LeftDown, Container!Down, Container!Closing
<1>7. Container!Untouched'
  <2>1. CASE s4 = <<>>
    BY <1>1, <2>1 DEF Container!Untouched
  <2>2. CASE Container!Closing(t)'
    BY <2>2 DEF Container!Untouched, Container!NobodyCloses
  <2>3. Len(s4) = 0 => s4 = <<>>
    BY <1>2 DEF Container!ContainerTypeOK
  <2> QED
    BY <1>2, <1>3, <2>1, <2>2, <2>3 DEF Container!Closing
<1>8. Container!Alone'
  <2> SUFFICES ASSUME ~s10'
               PROVE  Container!Alone'
    BY DEF Container!Alone
  <2>1. \A u \in Container!CloserThreads : ~Container!Closing(u)
    BY <1>1 DEF Container!TakenDown, Container!ClosedInPhase, Container!CloserThreads
  <2>2. \A i \in DOMAIN s4 : s4[i] \in s5
    BY <1>1, <2>1 DEF Container!TakenDown, Container!Untouched, Container!NobodyCloses
  <2>3. \A u \in Container!CloserThreads : u # t => s7'[u] = 0
    BY <1>2, <1>3, <2>1 DEF Container!Closing, Container!ContainerTypeOK
  <2> QED
    BY <1>1, <1>2, <1>3, <2>2, <2>3 DEF Container!Alone, Container!Closing
<1>9. Container!InOrder'
  BY <1>1 DEF Container!TakenDown, Container!InOrder, Container!Down
<1> QED
  BY <1>1, <1>4, <1>5, <1>6, <1>7, <1>8, <1>9 DEF Container!TakenDown

(* The next object on a thread's way down is closed, was, or refuses.        *)
LEMMA CloseNextKeeps ==
    ASSUME Container!TakenDown, NEW t \in Container!CloserThreads, Container!CloseNext(t)
    PROVE  Container!TakenDown'
<1> DEFINE p == s7[t]
           o == s4[p]
           Gone(x) == x \notin s5' \/ x \in Refusing
<1>1. /\ p > 0 /\ s8' = [s8 EXCEPT ![t] = @ \cup {o}] /\ s7' = [s7 EXCEPT ![t] = @ - 1]
      /\ \/ o \in s8[t] \cup Refusing /\ s5' = s5 /\ s11' = s11
         \/ /\ o \notin s8[t] \cup Refusing /\ s5' = s5 \ {o}
            /\ s11' = (s11 \/ (~s10 /\ o \notin s5))
      /\ s6' = (s6 \/ p = 1)
      /\ s1' = IF t = Container!Builder /\ p = 1 THEN "failed" ELSE s1
      /\ UNCHANGED <<s2, s4, s10>>
  BY DEF Container!CloseNext, Container!Closing
<1>2. Container!ContainerTypeOK /\ Len(s4) \in Nat /\ DOMAIN s4 = 1 .. Len(s4) /\ p \in DOMAIN s4
  BY <1>1 DEF Container!TakenDown, Container!ContainerTypeOK
<1>3. /\ DOMAIN s7' = Container!CloserThreads /\ DOMAIN s8' = Container!CloserThreads
      /\ s7'[t] = p - 1 /\ s8'[t] = s8[t] \cup {o}
      /\ \A u \in Container!CloserThreads : u # t => s7'[u] = s7[u] /\ s8'[u] = s8[u]
  BY <1>1, <1>2 DEF Container!ContainerTypeOK
<1>4. /\ s5' \subseteq s5 /\ \A x : x \notin s5' => x \notin s5 \/ x = o
      /\ \A x : Container!Down(x) => Gone(x)
  BY <1>1 DEF Container!Down
<1>5. Gone(o) /\ Container!Closing(t)
  BY <1>1 DEF Container!TakenDown, Container!LeftDown, Container!Closing, Container!Down
<1>6. Container!ContainerTypeOK'
  <2>1. s6' \in BOOLEAN /\ s11' \in BOOLEAN
    BY <1>1, <1>2, Zenon DEF Container!ContainerTypeOK
  <2>2. \A u \in Container!CloserThreads : s7'[u] \in 0 .. Len(s4')
    <3>1. p - 1 \in 0 .. Len(s4)
      BY <1>1, <1>2
    <3> QED
      BY <1>1, <1>2, <1>3, <3>1 DEF Container!ContainerTypeOK
  <2>3. s1' \in {"called", "refused", "building", "failing", "ready", "failed"}
    BY <1>1, <1>2 DEF Container!ContainerTypeOK
  <2> QED
    BY <1>1, <1>2, <1>3, <2>1, <2>2, <2>3 DEF Container!ContainerTypeOK, Container!Object
<1>7. /\ s1 \in {"failing", "ready"} /\ (s1 = "failing" <=> t = Container!Builder)
      /\ s1 = "failing" => ~s6 /\ \A u \in Closers : ~Container!Closing(u)
      /\ s1 = "ready" => ~Container!Closing(Container!Builder)
  BY <1>2, <1>5, ContainerAssumption
  DEF Container!TakenDown, Container!ClosedInPhase, Container!NobodyCloses, Container!ContainerTypeOK,
      Container!CloserThreads
<1>8. /\ Container!Closing(t)' <=> p # 1
      /\ \A u \in Container!CloserThreads : u # t => (Container!Closing(u)' <=> Container!Closing(u))
  BY <1>1, <1>2, <1>3 DEF Container!Closing
<1>9. Container!ClosedInPhase'
  BY <1>1, <1>7, <1>8, ContainerAssumption
  DEF Container!ClosedInPhase, Container!NobodyCloses, Container!CloserThreads
<1>10. Container!Untouched'
  <2>1. CASE p = 1
    BY <1>1, <2>1 DEF Container!Untouched
  <2>2. CASE p # 1
    BY <1>8, <2>2 DEF Container!Untouched, Container!NobodyCloses
  <2> QED
    BY <2>1, <2>2
<1>11. /\ \A i \in DOMAIN s4 : i > p - 1 => Gone(s4[i])
       /\ \A x \in s8'[t] : Gone(x)
  <2>1. \A i \in DOMAIN s4 : i > p - 1 => i = p \/ i > p
    BY <1>1, <1>2
  <2> QED
    BY <1>2, <1>3, <1>4, <1>5, <2>1 DEF Container!TakenDown, Container!LeftDown
<1>12. Container!LeftDown'
  <2>1. s6' => \A i \in DOMAIN s4 : Gone(s4[i])
    <3>1. CASE s6
      BY <1>4, <3>1 DEF Container!TakenDown, Container!LeftDown
    <3>2. CASE p = 1
      BY <1>2, <1>11, <3>2
    <3> QED
      BY <1>1, <3>1, <3>2
  <2>2. ASSUME NEW u \in Container!CloserThreads, Container!Closing(u)'
        PROVE  /\ \A i \in DOMAIN s4 : i > s7'[u] => Gone(s4[i])
               /\ \A x \in s8'[u] : Gone(x)
    <3>1. CASE u = t
      BY <1>3, <1>11, <3>1
    <3>2. CASE u # t
      BY <1>3, <1>4, <1>8, <2>2, <3>2 DEF Container!TakenDown, Container!LeftDown
    <3> QED
      BY <3>1, <3>2
  <2> QED
    BY <1>1, <2>1, <2>2 DEF Container!LeftDown, Container!Down, Container!Closing
<1>13. ~s10 => /\ \A u \in Container!CloserThreads : u # t => ~Container!Closing(u)
               /\ \A i \in 1 .. p : s4[i] \in s5 \cup s8[t]
  BY <1>5 DEF Container!TakenDown, Container!Alone
<1>14. Container!Alone'
  <2> SUFFICES ASSUME ~s10
               PROVE  /\ \A u, v \in Container!CloserThreads :
                            Container!Closing(u)' /\ Container!Closing(v)' => u = v
                      /\ \A u \in Container!CloserThreads : \A i \in 1 .. s7'[u] : s4[i] \in s5' \cup s8'[u]
    BY <1>1 DEF Container!Alone, Container!Closing
  <2>1. \A u \in Container!CloserThreads : u # t => s7'[u] = 0
    BY <1>2, <1>3, <1>13 DEF Container!Closing, Container!ContainerTypeOK
  <2>2. \A i \in 1 .. p - 1 : i \in 1 .. p
    BY <1>2
  <2>3. \A i \in 1 .. p - 1 : s4[i] \in s5' \cup s8'[t]
    BY <1>3, <1>4, <1>13, <2>2
  <2>4. \A u \in Container!CloserThreads : u # t => 1 .. s7'[u] = {}
    BY <2>1
  <2> QED
    BY <1>3, <1>8, <1>13, <2>3, <2>4
<1>15. Container!InOrder'
  <2> SUFFICES ASSUME NEW i \in DOMAIN s4, s4[i] \notin s5'
               PROVE  \E j \in DOMAIN s4 :
                         s4[j] = s4[i] /\ \A k \in j .. Len(s4) : Gone(s4[k])
    BY <1>1 DEF Container!InOrder, Container!Down
  <2>1. CASE s4[i] = o
    <3>1. \A k \in p .. Len(s4) : k \in DOMAIN s4 /\ k > p - 1
      BY <1>2
    <3> QED
      BY <1>2, <1>11, <2>1, <3>1
  <2>2. CASE s4[i] \notin s5
    BY <1>4, <2>2 DEF Container!TakenDown, Container!InOrder
  <2> QED
    BY <1>4, <2>1, <2>2
<1>16. ~s11'
  <2>1. ~s10 => o \in s5 \cup s8[t]
    BY <1>1, <1>2, <1>13
  <2> HIDE DEF o
  <2> QED
    BY <1>1, <2>1, Zenon DEF Container!TakenDown
<1> QED
  BY <1>6, <1>9, <1>10, <1>12, <1>14, <1>15, <1>16 DEF Container!TakenDown

LEMMA ContainerKeeps ==
    ASSUME Container!TakenDown, Container!Next \/ UNCHANGED Container!vars
    PROVE  Container!TakenDown'
  BY PhaseSteps, FailEmptyKeeps, ConstructKeeps, ConstructFailsKeeps, BeginCloseKeeps, CloseNextKeeps
  DEF Container!Next, Container!CloserThreads

(* A used service was made before, and an object goes down at one place with *)
(* all that was made after it.                                               *)
LEMMA OrderIsKept ==
    ASSUME Container!TakenDown
    PROVE  Container!TornDownInOrder
<1>1. Container!ContainerTypeOK /\ Len(s4) \in Nat /\ DOMAIN s4 = 1 .. Len(s4) /\ Len(s4) <= 17
  BY ServicesFacts DEF Container!TakenDown, Container!ContainerTypeOK
<1>2. ASSUME NEW n \in Container!Registered, Container!Object(n) \in s5 \ Refusing,
             NEW m \in Container!Uses(n) \cap Container!Registered, Container!Object(m) \notin s5,
             ~(m = "autonomous_controller" /\ n = "background_worker")
      PROVE  Container!Shared(Container!Object(m))
  <2>1. PICK a \in DOMAIN s4 : n = Container!Services[a]
    BY DEF Container!Registered
  <2>2. PICK b \in DOMAIN s4 : m = Container!Services[b]
    BY DEF Container!Registered
  <2>3. s4[a] = Container!Object(n) /\ s4[b] = Container!Object(m)
    BY <1>1, <2>1, <2>2 DEF Container!ContainerTypeOK
  <2>a. \A k \in DOMAIN s4 : k \in 1 .. 17
    BY <1>1
  <2>4. a \in 1 .. 17 /\ b \in 1 .. 17
    BY <2>a
  <2>5. b < a
    <3>1. PICK j \in 1 .. 17 : j < a /\ Container!Services[j] = m
      BY <1>2, <2>1, <2>4, UsesAreBefore
    <3> QED
      BY <2>2, <2>4, <3>1, ServicesFacts
  <2>6. PICK j \in DOMAIN s4 : s4[j] = s4[b] /\ \A k \in j .. Len(s4) : Container!Down(s4[k])
    BY <1>2, <2>3 DEF Container!TakenDown, Container!InOrder
  <2>7. ~Container!Down(s4[a])
    BY <1>2, <2>3 DEF Container!Down
  <2>8. a < j
    BY <1>1, <2>6, <2>7
  <2>9. j # b /\ j \in 1 .. 17
    <3>1. j \in 1 .. 17
      BY <2>a
    <3> QED
      BY <2>4, <2>5, <2>8, <3>1
  <2>10. Container!Services[j] # Container!Services[b]
    BY <2>4, <2>9, ServicesFacts
  <2>11. Container!Object(Container!Services[j]) = Container!Object(m)
    BY <1>1, <2>3, <2>6 DEF Container!ContainerTypeOK
  <2> QED
    BY <2>2, <2>10, <2>11 DEF Container!Shared, Container!Registered
<1>3. s6 => \A n \in Container!Registered : Container!Object(n) \in s5 => Container!Object(n) \in Refusing
  BY <1>1 DEF Container!TakenDown, Container!LeftDown, Container!Down, Container!Registered,
              Container!ContainerTypeOK
<1>4. ~s11
  BY DEF Container!TakenDown
<1> QED
  BY <1>2, <1>3, <1>4 DEF Container!TornDownInOrder

(* For any configuration, overrides, services that refuse to be closed and   *)
(* threads that close: the container closes dependents before what they use, *)
(* all that does not refuse is closed when one of the threads is through,    *)
(* and nothing again after that.  The exceptions are an object that serves   *)
(* two names, the worker and the controller it is made with, and threads     *)
(* that close at a time, which may close an object twice.                    *)
THEOREM TeardownsAreOrdered == AnySpec => []TornDownInOrder
<1> DEFINE Inv == component = "container" => Container!TakenDown
<1>1. AnyInit => Inv
  BY ContainerBegins DEF AnyInit
<1>2. Inv /\ [AnyNext]_AnyVars => Inv'
  BY Selected, ContainerKeeps
<1>3. Inv => TornDownInOrder
  BY OrderIsKept DEF TornDownInOrder
<1> QED
  BY <1>1, <1>2, <1>3, PTL DEF AnySpec, AnyVars

-----------------------------------------------------------------------------
(* The chat gateway                                                          *)

LEMMA EmptyFacts ==
    /\ Chat!Empty \in Chat!Held /\ Chat!Empty.message = Chat!Nothing
    /\ Chat!NoMessage \in Chat!MessageRecords /\ Chat!NoMessage.images = {}
    /\ Chat!Nothing \notin Messages /\ Chat!Nothing \notin Images /\ Chat!Nothing \notin ImageContents
<1>1. Chat!NoMessage \in Chat!MessageRecords /\ Chat!NoMessage.images = {}
  BY DEF Chat!NoMessage, Chat!MessageRecords, Chat!Nothing
<1>2. Chat!Empty \in Chat!Held /\ Chat!Empty.message = Chat!Nothing
  <2> HIDE DEF Chat!NoMessage
  <2> QED
    BY <1>1 DEF Chat!Empty, Chat!Held
<1> QED
  BY <1>1, <1>2, ChatAssumption

LEMMA ChatBegins ==
    ASSUME Chat!Init
    PROVE  Chat!Attached
<1>1. /\ s1 = [status |-> s1.status, message |-> s1.message] /\ s3 = s1 /\ s4 = s2
      /\ s1.message = [m \in Messages |-> Chat!NoMessage]
      /\ s2 = [i \in Images |-> Chat!Nothing]
      /\ s8 = [t \in Threads |-> "idle"] /\ s9 = [t \in Threads |-> Chat!Empty]
      /\ s11 = {}
  BY DEF Chat!Init
<1>2. Chat!ChatTypeOK
  <2>1. s1.message \in [Messages -> Chat!MessageRecords]
    BY <1>1, EmptyFacts
  <2>2. s9 \in [Threads -> Chat!Held]
    BY <1>1, EmptyFacts
  <2>3. s8 \in [Threads -> Chat!Places]
    BY <1>1 DEF Chat!Places
  <2> QED
    BY <1>1, <2>1, <2>2, <2>3 DEF Chat!ChatTypeOK
<1>3. Chat!UploadsApart
  BY <1>1 DEF Chat!UploadsApart, Chat!Uploading
<1>4. Chat!MessagesApart
  BY <1>1, EmptyFacts DEF Chat!MessagesApart, Chat!Sending
<1>5. \A m \in Messages : s1.message[m].images = {} /\ s3.message[m].images = {}
  BY <1>1, EmptyFacts
<1>6. Chat!FileBehind
  BY <1>1, <1>5 DEF Chat!FileBehind
<1>7. Chat!ImagesKnown /\ Chat!ContentsThere /\ Chat!ShownAreThere
  BY <1>1, <1>5 DEF Chat!ImagesKnown, Chat!ContentsThere, Chat!ShownAreThere
<1>8. Chat!RemovalsApart
  BY <1>1 DEF Chat!RemovalsApart
<1> QED
  BY <1>2, <1>3, <1>4, <1>6, <1>7, <1>8 DEF Chat!Attached

LEMMA ChatGo ==
    ASSUME Chat!ChatTypeOK, NEW t \in Threads, NEW place \in Chat!Places, NEW m \in Chat!Held,
           Chat!Go(t, place, m)
    PROVE  /\ s8' \in [Threads -> Chat!Places] /\ s8'[t] = place
           /\ s9' \in [Threads -> Chat!Held] /\ s9'[t] = m
           /\ \A u \in Threads \ {t} : s8'[u] = s8[u] /\ s9'[u] = s9[u]
  BY DEF Chat!Go, Chat!ChatTypeOK

(* A thread goes on: the others are where they were, as long as what they    *)
(* rely on is there, and the thread's own draws are its own.                 *)
LEMMA ThreadGoes ==
    ASSUME Chat!Attached, NEW t \in Threads, NEW place \in Chat!Places, NEW m \in Chat!Held,
           Chat!Go(t, place, m),
           \A u \in Threads \ {t} :
              /\ Chat!Uploading(u) => s9[u].image \notin s11'
              /\ s8[u] = "put_image" => /\ s2'[s9[u].image] = Chat!Nothing
                                        /\ s9[u].content \in s5' \/ s9[u].image \in s13'
              /\ Chat!Sending(u) => s1'.message[s9[u].message].images = s1.message[s9[u].message].images,
           s11 \subseteq s11',
           place \in {"put_image", "save_upload"} =>
              /\ m.image \in Images \ s11' /\ m.content \in ImageContents
              /\ \A u \in Threads \ {t} : Chat!Uploading(u) => s9[u].image # m.image,
           place = "put_image" => /\ s2'[m.image] = Chat!Nothing
                                  /\ m.content \in s5' \/ m.image \in s13',
           place = "drop_image" => m.image \in s11',
           place \in {"put_message", "save_message", "plan", "enqueue"} => m.message # Chat!Nothing,
           m.message # Chat!Nothing =>
              /\ s1'.message[m.message].images = IF place = "put_message" THEN {} ELSE m.body.images
              /\ m.body.images \subseteq s11'
              /\ \A u \in Threads \ {t} : s9[u].message # m.message
    PROVE  /\ s8' \in [Threads -> Chat!Places] /\ s9' \in [Threads -> Chat!Held]
           /\ Chat!UploadsApart' /\ Chat!MessagesApart'
<1>1. /\ s8' \in [Threads -> Chat!Places] /\ s8'[t] = place
      /\ s9' \in [Threads -> Chat!Held] /\ s9'[t] = m
      /\ \A u \in Threads \ {t} : s8'[u] = s8[u] /\ s9'[u] = s9[u]
  BY ChatGo DEF Chat!Attached
<1>2. Chat!UploadsApart'
  <2>1. ASSUME NEW v \in Threads, v # t
        PROVE  /\ Chat!Uploading(v)' =>
                    /\ s9'[v].image \in Images \ s11' /\ s9'[v].content \in ImageContents
                    /\ \A u \in Threads \ {v} : Chat!Uploading(u)' => s9'[u].image # s9'[v].image
               /\ s8'[v] = "put_image" =>
                    /\ s2'[s9'[v].image] = Chat!Nothing
                    /\ s9'[v].content \in s5' \/ s9'[v].image \in s13'
               /\ s8'[v] = "drop_image" => s9'[v].image \in s11'
    BY <1>1, <2>1 DEF Chat!Attached, Chat!UploadsApart, Chat!Uploading
  <2>2. /\ Chat!Uploading(t)' =>
              /\ s9'[t].image \in Images \ s11' /\ s9'[t].content \in ImageContents
              /\ \A u \in Threads \ {t} : Chat!Uploading(u)' => s9'[u].image # s9'[t].image
        /\ s8'[t] = "put_image" =>
              /\ s2'[s9'[t].image] = Chat!Nothing
              /\ s9'[t].content \in s5' \/ s9'[t].image \in s13'
        /\ s8'[t] = "drop_image" => s9'[t].image \in s11'
    BY <1>1 DEF Chat!Uploading
  <2> QED
    BY <2>1, <2>2 DEF Chat!UploadsApart, Chat!Uploading
<1>3. Chat!MessagesApart'
  <2>1. ASSUME NEW v \in Threads, v # t
        PROVE  /\ s8'[v] \in {"put_message", "save_message", "plan", "enqueue"} => s9'[v].message # Chat!Nothing
               /\ s9'[v].message # Chat!Nothing =>
                    /\ s1'.message[s9'[v].message].images
                          = IF s8'[v] = "put_message" THEN {} ELSE s9'[v].body.images
                    /\ s9'[v].body.images \subseteq s11'
                    /\ \A u \in Threads \ {v} : s9'[u].message # s9'[v].message
    BY <1>1, <2>1 DEF Chat!Attached, Chat!MessagesApart, Chat!Sending
  <2>2. /\ s8'[t] \in {"put_message", "save_message", "plan", "enqueue"} => s9'[t].message # Chat!Nothing
        /\ s9'[t].message # Chat!Nothing =>
              /\ s1'.message[s9'[t].message].images
                    = IF s8'[t] = "put_message" THEN {} ELSE s9'[t].body.images
              /\ s9'[t].body.images \subseteq s11'
              /\ \A u \in Threads \ {t} : s9'[u].message # s9'[t].message
    BY <1>1
  <2> QED
    BY <2>1, <2>2 DEF Chat!MessagesApart, Chat!Sending
<1> QED
  BY <1>1, <1>2, <1>3

(* Who is about to remove a content still finds no image with it.            *)
LEMMA RemovalsStay ==
    ASSUME Chat!Attached, NEW t \in Threads, NEW place \in Chat!Places, NEW m \in Chat!Held,
           Chat!Go(t, place, m), s13 \subseteq s13',
           place \in {"save_drop", "unlink", "remove"} => m.content \in ImageContents,
           \A u \in Threads \ {t} : s8[u] = "remove" =>
              /\ \A i \in Images \ s13' : s2'[i] # s9[u].content
              /\ place = "put_image" /\ m.content = s9[u].content => m.image \in s13',
           place = "remove" =>
              /\ \A i \in Images \ s13' : s2'[i] # m.content
              /\ \A u \in Threads \ {t} :
                    s8[u] = "put_image" /\ s9[u].content = m.content => s9[u].image \in s13'
    PROVE  Chat!RemovalsApart'
<1>1. /\ s8'[t] = place /\ s9'[t] = m
      /\ \A u \in Threads \ {t} : s8'[u] = s8[u] /\ s9'[u] = s9[u]
  BY ChatGo DEF Chat!Attached
<1>2. ASSUME NEW u \in Threads
      PROVE  s8'[u] \in {"save_drop", "unlink", "remove"} => s9'[u].content \in ImageContents
  BY <1>1 DEF Chat!Attached, Chat!RemovalsApart
<1>3. ASSUME NEW u \in Threads, s8'[u] = "remove", NEW i \in Images \ s13'
      PROVE  s2'[i] # s9'[u].content
  BY <1>1, <1>3
<1>4. ASSUME NEW u \in Threads, s8'[u] = "remove",
             NEW v \in Threads, s8'[v] = "put_image", s9'[v].content = s9'[u].content
      PROVE  s9'[v].image \in s13'
  <2>1. u # t /\ v # t => s9[v].image \in s13
    BY <1>1, <1>4 DEF Chat!Attached, Chat!RemovalsApart, Chat!Arriving
  <2> QED
    BY <1>1, <1>4, <2>1
<1>5. ASSUME NEW u \in Threads, s8'[u] = "remove"
      PROVE  Chat!Arriving(s9[u].content)' \subseteq s13'
  BY <1>4, <1>5 DEF Chat!Arriving
<1> QED
  BY <1>2, <1>3, <1>5 DEF Chat!RemovalsApart

(* A thread goes on, and the stores are what they were.                      *)
LEMMA StoresStay ==
    ASSUME Chat!Attached, NEW t \in Threads, NEW place \in Chat!Places, NEW m \in Chat!Held,
           Chat!Go(t, place, m),
           s1' = [status |-> s1'.status, message |-> s1.message],
           UNCHANGED <<s2, s3, s4, s11, s12>>, s5 \subseteq s5', s13 \subseteq s13',
           place \notin {"save_drop", "unlink", "remove"},
           place = "put_image" /\ Chat!Doomed(m.content) => m.image \in s13',
           place \in {"put_image", "save_upload"} =>
              /\ m.image \in Images \ s11 /\ m.content \in ImageContents
              /\ \A u \in Threads \ {t} : Chat!Uploading(u) => s9[u].image # m.image,
           place = "put_image" => s2[m.image] = Chat!Nothing /\ m.content \in s5',
           place = "drop_image" => m.image \in s11,
           place \in {"put_message", "save_message", "plan", "enqueue"} => m.message # Chat!Nothing,
           m.message # Chat!Nothing =>
              /\ s1.message[m.message].images = IF place = "put_message" THEN {} ELSE m.body.images
              /\ m.body.images \subseteq s11
              /\ \A u \in Threads \ {t} : s9[u].message # m.message,
           place = "put_message" => \A i \in m.body.images : s2[i] # Chat!Nothing
    PROVE  Chat!Attached'
<1>1. s1'.message = s1.message
  OBVIOUS
<1>2. /\ s8' \in [Threads -> Chat!Places] /\ s9' \in [Threads -> Chat!Held]
      /\ Chat!UploadsApart' /\ Chat!MessagesApart'
  <2>1. \A u \in Threads \ {t} :
           /\ Chat!Uploading(u) => s9[u].image \notin s11'
           /\ s8[u] = "put_image" => /\ s2'[s9[u].image] = Chat!Nothing
                                     /\ s9[u].content \in s5' \/ s9[u].image \in s13'
           /\ Chat!Sending(u) => s1'.message[s9[u].message].images = s1.message[s9[u].message].images
    BY <1>1 DEF Chat!Attached, Chat!UploadsApart
  <2> QED
    BY <1>1, <2>1, ThreadGoes
<1>3. /\ s8'[t] = place /\ s9'[t] = m
      /\ \A u \in Threads \ {t} : s8'[u] = s8[u] /\ s9'[u] = s9[u]
  BY ChatGo DEF Chat!Attached
<1>4. Chat!ChatTypeOK'
  <2>1. s1' = [status |-> s1'.status, message |-> s1'.message]
    BY <1>1
  <2> QED
    BY <1>1, <1>2, <2>1 DEF Chat!Attached, Chat!ChatTypeOK
<1>5. Chat!FileBehind' /\ Chat!ImagesKnown' /\ Chat!ContentsThere'
  BY <1>1 DEF Chat!Attached, Chat!FileBehind, Chat!ImagesKnown, Chat!ContentsThere
<1>6. Chat!ShownAreThere'
  BY <1>1, <1>3 DEF Chat!Attached, Chat!ShownAreThere
<1>7. Chat!RemovalsApart'
  <2>1. \A u \in Threads \ {t} : s8[u] = "remove" =>
           /\ \A i \in Images \ s13' : s2'[i] # s9[u].content
           /\ place = "put_image" /\ m.content = s9[u].content => m.image \in s13'
    BY DEF Chat!Attached, Chat!RemovalsApart, Chat!Doomed
  <2> QED
    BY <2>1, RemovalsStay
<1> QED
  BY <1>2, <1>4, <1>5, <1>6, <1>7 DEF Chat!Attached

(* A thread that has nothing in its hands any more.                          *)
LEMMA LetsGo ==
    ASSUME Chat!Attached, NEW t \in Threads, NEW place \in {"idle", "save_chats"},
           Chat!Go(t, place, Chat!Empty),
           s1' = [status |-> s1'.status, message |-> s1.message],
           UNCHANGED <<s2, s3, s4, s5, s11, s12, s13>>
    PROVE  Chat!Attached'
  BY StoresStay, EmptyFacts DEF Chat!Places

LEMMA SetStatusKeeps ==
    ASSUME Chat!Attached, NEW t \in Threads, NEW c \in Conversations, NEW status,
           Chat!SetStatus(t, c, status)
    PROVE  Chat!Attached'
<1>1. /\ s1' = [s1 EXCEPT !.status[c] = status] /\ Chat!Go(t, "save_chats", Chat!Empty)
      /\ UNCHANGED <<s2, s3, s4, s5, s11, s12, s13>>
  BY DEF Chat!SetStatus, Chat!history_vars
<1>2. s1' = [status |-> s1'.status, message |-> s1.message]
  BY <1>1 DEF Chat!Attached, Chat!ChatTypeOK
<1> QED
  BY <1>1, <1>2, LetsGo

LEMMA UploadBytesKeeps ==
    ASSUME Chat!Attached, NEW t \in Threads, NEW i \in Images, NEW x \in ImageContents,
           Chat!UploadBytes(t, i, x)
    PROVE  Chat!Attached'
<1> DEFINE m == [Chat!Empty EXCEPT !.image = i, !.content = x]
<1>1. /\ i \in Chat!FreshImages /\ s5' = s5 \cup {x} /\ Chat!Go(t, "put_image", m)
      /\ s13' = (IF Chat!Doomed(x) THEN s13 \cup {i} ELSE s13)
      /\ UNCHANGED <<s1, s2, s3, s4, s11, s12>>
  BY DEF Chat!UploadBytes
<1>2. /\ m \in Chat!Held /\ m.image = i /\ m.content = x /\ m.message = Chat!Nothing
  BY EmptyFacts DEF Chat!Held
<1>3. s2[i] = Chat!Nothing /\ i \notin s11 /\ \A u \in Threads : s9[u].image # i
  BY <1>1 DEF Chat!FreshImages
<1>4. s1' = [status |-> s1'.status, message |-> s1.message]
  BY <1>1 DEF Chat!Attached, Chat!ChatTypeOK
<1> HIDE DEF m
<1>5. "put_image" \in Chat!Places
  BY DEF Chat!Places
<1>6. s13 \subseteq s13' /\ (Chat!Doomed(x) => i \in s13')
  BY <1>1
<1> QED
  BY <1>1, <1>2, <1>3, <1>4, <1>5, <1>6, StoresStay

LEMMA CheckImageKeeps ==
    ASSUME Chat!Attached, NEW t \in Threads, NEW i \in Images, NEW force \in BOOLEAN,
           Chat!CheckImage(t, i, force)
    PROVE  Chat!Attached'
<1> DEFINE m == [Chat!Empty EXCEPT !.image = i, !.force = force]
<1>1. /\ i \in s11 /\ Chat!Go(t, "drop_image", m)
      /\ UNCHANGED <<s1, s2, s3, s4, s5, s11, s12, s13>>
  BY DEF Chat!CheckImage, Chat!OnlyThread, Chat!store_vars, Chat!history_vars
<1>2. m \in Chat!Held /\ m.image = i /\ m.message = Chat!Nothing
  BY EmptyFacts DEF Chat!Held
<1>3. s1' = [status |-> s1'.status, message |-> s1.message]
  BY <1>1 DEF Chat!Attached, Chat!ChatTypeOK
<1>4. "drop_image" \in Chat!Places
  BY DEF Chat!Places
<1> HIDE DEF m
<1> QED
  BY <1>1, <1>2, <1>3, <1>4, StoresStay

LEMMA ValidateKeeps ==
    ASSUME Chat!Attached, NEW t \in Threads, NEW n \in Messages, NEW c \in Conversations,
           NEW attached \in SUBSET Images, NEW mode \in {"analysis", "planning", "plan_and_enqueue"},
           Chat!Validate(t, n, c, attached, mode)
    PROVE  Chat!Attached'
<1> DEFINE b == [chat |-> c, images |-> attached, status |-> "received"]
           m == [Chat!Empty EXCEPT !.message = n, !.mode = mode, !.body = b]
<1>1. /\ n \in Chat!FreshMessages /\ attached \subseteq s11 /\ \A i \in attached : s2[i] # Chat!Nothing
      /\ Chat!Go(t, "put_message", m)
      /\ UNCHANGED <<s1, s2, s3, s4, s5, s11, s12, s13>>
  BY DEF Chat!Validate, Chat!OnlyThread, Chat!store_vars, Chat!history_vars
<1>2. b \in Chat!MessageRecords
  BY DEF Chat!MessageRecords
<1>3. m \in Chat!Held /\ m.message = n /\ n # Chat!Nothing /\ m.body.images = attached
  BY <1>2, EmptyFacts DEF Chat!Held
<1>4. s1.message[n].images = {} /\ \A u \in Threads : s9[u].message # n
  BY <1>1, EmptyFacts DEF Chat!FreshMessages
<1>5. s1' = [status |-> s1'.status, message |-> s1.message]
  BY <1>1 DEF Chat!Attached, Chat!ChatTypeOK
<1>6. "put_message" \in Chat!Places
  BY DEF Chat!Places
<1> HIDE DEF m
<1> QED
  BY <1>1, <1>3, <1>4, <1>5, <1>6, StoresStay

LEMMA SaveFailsKeeps ==
    ASSUME Chat!Attached, NEW t \in Threads, Chat!SaveFails(t)
    PROVE  Chat!Attached'
<1>1. Chat!Go(t, "idle", Chat!Empty) /\ UNCHANGED <<s1, s2, s3, s4, s5, s11, s12, s13>>
  BY DEF Chat!SaveFails, Chat!Return, Chat!store_vars, Chat!history_vars
<1>2. s1' = [status |-> s1'.status, message |-> s1.message]
  BY <1>1 DEF Chat!Attached, Chat!ChatTypeOK
<1> QED
  BY <1>1, <1>2, LetsGo

LEMMA PutImageKeeps ==
    ASSUME Chat!Attached, NEW t \in Threads, Chat!PutImage(t)
    PROVE  Chat!Attached'
<1> DEFINE i == s9[t].image
           x == s9[t].content
<1>1. /\ s8[t] = "put_image" /\ s2' = [s2 EXCEPT ![i] = x] /\ Chat!Go(t, "save_upload", s9[t])
      /\ UNCHANGED <<s1, s3, s4, s5, s11, s12, s13>>
  BY DEF Chat!PutImage, Chat!At, Chat!history_vars
<1>2. /\ i \in Images \ s11 /\ x \in ImageContents /\ s2[i] = Chat!Nothing /\ (x \in s5 \/ i \in s13)
      /\ \A u \in Threads \ {t} : Chat!Uploading(u) => s9[u].image # i
  BY <1>1 DEF Chat!Attached, Chat!UploadsApart, Chat!Uploading
<1>3. s9[t] \in Chat!Held /\ "save_upload" \in Chat!Places
  BY DEF Chat!Attached, Chat!ChatTypeOK, Chat!Places
<1>4. /\ s2' \in [Images -> ImageContents \cup {Chat!Nothing}] /\ s2'[i] = x
      /\ \A k \in Images : k # i => s2'[k] = s2[k]
  BY <1>1, <1>2 DEF Chat!Attached, Chat!ChatTypeOK
<1>5. /\ s8' \in [Threads -> Chat!Places] /\ s9' \in [Threads -> Chat!Held]
      /\ Chat!UploadsApart' /\ Chat!MessagesApart'
  <2>1. \A u \in Threads \ {t} :
           /\ Chat!Uploading(u) => s9[u].image \notin s11'
           /\ s8[u] = "put_image" => /\ s2'[s9[u].image] = Chat!Nothing
                                     /\ s9[u].content \in s5' \/ s9[u].image \in s13'
           /\ Chat!Sending(u) => s1'.message[s9[u].message].images = s1.message[s9[u].message].images
    BY <1>1, <1>2, <1>4 DEF Chat!Attached, Chat!UploadsApart, Chat!Uploading
  <2>2. s9[t].message # Chat!Nothing =>
           /\ s1'.message[s9[t].message].images = s9[t].body.images
           /\ s9[t].body.images \subseteq s11'
           /\ \A u \in Threads \ {t} : s9[u].message # s9[t].message
    BY <1>1 DEF Chat!Attached, Chat!MessagesApart, Chat!Sending
  <2> QED
    BY <1>1, <1>2, <1>3, <2>1, <2>2, ThreadGoes
<1>6. Chat!ChatTypeOK'
  BY <1>1, <1>4, <1>5 DEF Chat!Attached, Chat!ChatTypeOK
<1>7. s4[i] = Chat!Nothing
  BY <1>2 DEF Chat!Attached, Chat!ImagesKnown
<1>8. x # Chat!Nothing
  BY <1>2, EmptyFacts
<1>9. Chat!FileBehind' /\ Chat!ImagesKnown' /\ Chat!ContentsThere'
  BY <1>1, <1>2, <1>4, <1>7, <1>8
  DEF Chat!Attached, Chat!FileBehind, Chat!ImagesKnown, Chat!ContentsThere
<1>10. Chat!ShownAreThere'
  <2>1. \A k \in Images : s2[k] # Chat!Nothing => s2'[k] # Chat!Nothing
    BY <1>2, <1>4
  <2>2. \A n \in Messages : s1.message[n].images \subseteq Images
    BY DEF Chat!Attached, Chat!ChatTypeOK, Chat!MessageRecords
  <2>3. \A u \in Threads : s9[u].body.images \subseteq Images
    BY DEF Chat!Attached, Chat!ChatTypeOK, Chat!Held, Chat!MessageRecords
  <2>4. s8'[t] = "save_upload" /\ \A u \in Threads \ {t} : s8'[u] = s8[u] /\ s9'[u] = s9[u]
    BY <1>1, <1>3, ChatGo DEF Chat!Attached
  <2> QED
    BY <1>1, <2>1, <2>2, <2>3, <2>4 DEF Chat!Attached, Chat!ShownAreThere
<1>11. Chat!RemovalsApart'
  <2>1. ASSUME NEW u \in Threads \ {t}, s8[u] = "remove", NEW k \in Images \ s13'
        PROVE  s2'[k] # s9[u].content
    <3>1. s9[u].content = x => i \in s13
      BY <1>1, <2>1 DEF Chat!Attached, Chat!RemovalsApart, Chat!Arriving
    <3>2. s2[k] # s9[u].content
      BY <1>1, <2>1 DEF Chat!Attached, Chat!RemovalsApart
    <3> QED
      BY <1>1, <1>4, <3>1, <3>2
  <2> QED
    BY <1>1, <1>3, <2>1, RemovalsStay
<1> QED
  BY <1>5, <1>6, <1>9, <1>10, <1>11 DEF Chat!Attached

(* What is dropped is nobody's, or raced.                                    *)
LEMMA DropImageKeeps ==
    ASSUME Chat!Attached, NEW t \in Threads, Chat!DropImage(t)
    PROVE  Chat!Attached'
<1> DEFINE i == s9[t].image
           m == [s9[t] EXCEPT !.content = s2[i]]
<1>1. s8[t] = "drop_image" /\ i \in s11 /\ i \in Images
  BY DEF Chat!DropImage, Chat!At, Chat!Attached, Chat!UploadsApart, Chat!ChatTypeOK
<1>2. CASE s2[i] = Chat!Nothing
  <2>1. Chat!Go(t, "idle", Chat!Empty) /\ UNCHANGED <<s1, s2, s3, s4, s5, s11, s12, s13>>
    BY <1>2 DEF Chat!DropImage, Chat!Return, Chat!OnlyThread, Chat!store_vars, Chat!history_vars
  <2>2. s1' = [status |-> s1'.status, message |-> s1.message]
    BY <2>1 DEF Chat!Attached, Chat!ChatTypeOK
  <2> QED
    BY <2>1, <2>2, LetsGo
<1>3. CASE s2[i] # Chat!Nothing
  <2>1. /\ s2' = [s2 EXCEPT ![i] = Chat!Nothing] /\ Chat!Go(t, "save_drop", m)
        /\ s13' = IF Chat!InUse(i) THEN s13 \cup {i} ELSE s13
        /\ s12 \subseteq s12'
        /\ UNCHANGED <<s1, s3, s4, s5, s11>>
    BY <1>3 DEF Chat!DropImage
  <2>2. /\ m \in Chat!Held /\ m.message = s9[t].message /\ m.body = s9[t].body /\ "save_drop" \in Chat!Places
    BY <1>1 DEF Chat!Attached, Chat!ChatTypeOK, Chat!Held, Chat!Places
  <2>3. /\ s2' \in [Images -> ImageContents \cup {Chat!Nothing}] /\ s2'[i] = Chat!Nothing
        /\ \A k \in Images : k # i => s2'[k] = s2[k]
    BY <1>1, <2>1 DEF Chat!Attached, Chat!ChatTypeOK
  <2>4. s13 \subseteq s13'
    BY <2>1
  <2> HIDE DEF m
  <2>5. /\ s8' \in [Threads -> Chat!Places] /\ s9' \in [Threads -> Chat!Held]
        /\ Chat!UploadsApart' /\ Chat!MessagesApart'
    <3>1. \A u \in Threads \ {t} :
             /\ Chat!Uploading(u) => s9[u].image \notin s11'
             /\ s8[u] = "put_image" => /\ s2'[s9[u].image] = Chat!Nothing
                                       /\ s9[u].content \in s5' \/ s9[u].image \in s13'
             /\ Chat!Sending(u) => s1'.message[s9[u].message].images = s1.message[s9[u].message].images
      BY <2>1, <2>3, <2>4 DEF Chat!Attached, Chat!UploadsApart, Chat!Uploading
    <3>2. m.message # Chat!Nothing =>
             /\ s1'.message[m.message].images = m.body.images
             /\ m.body.images \subseteq s11'
             /\ \A u \in Threads \ {t} : s9[u].message # m.message
      BY <1>1, <2>1, <2>2 DEF Chat!Attached, Chat!MessagesApart, Chat!Sending
    <3> QED
      BY <2>1, <2>2, <3>1, <3>2, ThreadGoes
  <2>6. Chat!ChatTypeOK'
    BY <2>1, <2>3, <2>5 DEF Chat!Attached, Chat!ChatTypeOK
  <2>7. Chat!FileBehind' /\ Chat!ImagesKnown' /\ Chat!ContentsThere'
    BY <1>1, <2>1, <2>3, <2>4
    DEF Chat!Attached, Chat!FileBehind, Chat!ImagesKnown, Chat!ContentsThere
  <2>8. /\ \A n \in Messages : i \in s1.message[n].images => i \in s13'
        /\ \A u \in Threads : s8[u] = "put_message" /\ i \in s9[u].body.images => i \in s13'
    BY <2>1 DEF Chat!InUse, Chat!Referenced
  <2>9. Chat!ShownAreThere'
    <3>1. \A n \in Messages : s1.message[n].images \subseteq Images
      BY DEF Chat!Attached, Chat!ChatTypeOK, Chat!MessageRecords
    <3>2. \A u \in Threads : s9[u].body.images \subseteq Images
      BY DEF Chat!Attached, Chat!ChatTypeOK, Chat!Held, Chat!MessageRecords
    <3>3. s8'[t] = "save_drop" /\ \A u \in Threads \ {t} : s8'[u] = s8[u] /\ s9'[u] = s9[u]
      BY <2>1, <2>2, ChatGo DEF Chat!Attached
    <3> QED
      BY <2>1, <2>3, <2>4, <2>8, <3>1, <3>2, <3>3 DEF Chat!Attached, Chat!ShownAreThere
  <2>10. m.content \in ImageContents
    BY <1>1, <1>3 DEF m, Chat!Attached, Chat!ChatTypeOK, Chat!Held
  <2>11. Chat!RemovalsApart'
    <3>1. ASSUME NEW u \in Threads \ {t}, s8[u] = "remove", NEW k \in Images \ s13'
          PROVE  s2'[k] # s9[u].content
      <4>1. s2[k] # s9[u].content /\ s9[u].content # Chat!Nothing
        BY <2>4, <3>1, EmptyFacts DEF Chat!Attached, Chat!RemovalsApart
      <4> QED
        BY <2>3, <4>1
    <3> QED
      BY <2>1, <2>2, <2>4, <2>10, <3>1, RemovalsStay
  <2> QED
    BY <2>5, <2>6, <2>7, <2>9, <2>11 DEF Chat!Attached
<1> QED
  BY <1>2, <1>3

(* Nobody has the content, or who is about to have it races.                 *)
LEMMA FindUsesKeeps ==
    ASSUME Chat!Attached, NEW t \in Threads, Chat!FindUses(t)
    PROVE  Chat!Attached'
<1> DEFINE x == s9[t].content
<1>1. s8[t] = "unlink" /\ UNCHANGED <<s1, s2, s3, s4, s5, s11, s12>>
  BY DEF Chat!FindUses, Chat!At, Chat!store_vars
<1>2. s1' = [status |-> s1'.status, message |-> s1.message]
  BY <1>1 DEF Chat!Attached, Chat!ChatTypeOK
<1>3. CASE \E i \in Images : s2[i] = x
  <2>1. Chat!Go(t, "idle", Chat!Empty) /\ s13' = s13
    BY <1>3 DEF Chat!FindUses, Chat!Return
  <2> QED
    BY <1>1, <1>2, <2>1, LetsGo
<1>4. CASE ~ \E i \in Images : s2[i] = x
  <2>1. Chat!Go(t, "remove", s9[t]) /\ s13' = s13 \cup Chat!Arriving(x)
    BY <1>4 DEF Chat!FindUses
  <2>2. s13 \subseteq s13' /\ "remove" \in Chat!Places /\ s9[t] \in Chat!Held
    BY <2>1 DEF Chat!Places, Chat!Attached, Chat!ChatTypeOK
  <2>3. /\ s8' \in [Threads -> Chat!Places] /\ s9' \in [Threads -> Chat!Held]
        /\ Chat!UploadsApart' /\ Chat!MessagesApart'
    <3>1. \A u \in Threads \ {t} :
             /\ Chat!Uploading(u) => s9[u].image \notin s11'
             /\ s8[u] = "put_image" => /\ s2'[s9[u].image] = Chat!Nothing
                                       /\ s9[u].content \in s5' \/ s9[u].image \in s13'
             /\ Chat!Sending(u) => s1'.message[s9[u].message].images = s1.message[s9[u].message].images
      BY <1>1, <2>2 DEF Chat!Attached, Chat!UploadsApart
    <3>2. s9[t].message # Chat!Nothing =>
             /\ s1'.message[s9[t].message].images = s9[t].body.images
             /\ s9[t].body.images \subseteq s11'
             /\ \A u \in Threads \ {t} : s9[u].message # s9[t].message
      BY <1>1 DEF Chat!Attached, Chat!MessagesApart, Chat!Sending
    <3> QED
      BY <1>1, <2>1, <2>2, <3>1, <3>2, ThreadGoes
  <2>4. Chat!ChatTypeOK'
    BY <1>1, <2>3 DEF Chat!Attached, Chat!ChatTypeOK
  <2>5. Chat!FileBehind' /\ Chat!ImagesKnown' /\ Chat!ContentsThere'
    BY <1>1, <2>2 DEF Chat!Attached, Chat!FileBehind, Chat!ImagesKnown, Chat!ContentsThere
  <2>6. Chat!ShownAreThere'
    <3>1. s8'[t] = "remove" /\ \A u \in Threads \ {t} : s8'[u] = s8[u] /\ s9'[u] = s9[u]
      BY <2>1, <2>2, ChatGo DEF Chat!Attached
    <3> QED
      BY <1>1, <2>2, <3>1 DEF Chat!Attached, Chat!ShownAreThere
  <2>7. Chat!RemovalsApart'
    <3>1. x \in ImageContents
      BY <1>1 DEF Chat!Attached, Chat!RemovalsApart
    <3>2. \A i \in Images : s2'[i] # x
      BY <1>1, <1>4
    <3>3. \A u \in Threads : s8[u] = "put_image" /\ s9[u].content = x => s9[u].image \in s13'
      BY <2>1 DEF Chat!Arriving
    <3>4. \A u \in Threads \ {t} : s8[u] = "remove" =>
             \A i \in Images \ s13' : s2'[i] # s9[u].content
      BY <1>1, <2>2 DEF Chat!Attached, Chat!RemovalsApart
    <3> QED
      BY <2>1, <2>2, <3>1, <3>2, <3>3, <3>4, RemovalsStay
  <2> QED
    BY <2>3, <2>4, <2>5, <2>6, <2>7 DEF Chat!Attached
<1> QED
  BY <1>3, <1>4

(* Who relied on a content that goes has raced.                              *)
LEMMA UnlinkKeeps ==
    ASSUME Chat!Attached, NEW t \in Threads, Chat!Unlink(t)
    PROVE  Chat!Attached'
<1> DEFINE x == s9[t].content
<1>1. /\ s8[t] = "remove" /\ Chat!Go(t, "idle", Chat!Empty)
      /\ s5' = s5 \ {x} /\ s13' = s13 \cup Chat!Unsaved(x)
      /\ UNCHANGED <<s1, s2, s3, s4, s11, s12>>
  BY DEF Chat!Unlink, Chat!At, Chat!Return
<1>2. /\ \A u \in Threads : s8[u] = "put_image" /\ s9[u].content = x => s9[u].image \in s13'
      /\ \A i \in Images \ s13' : s2[i] # x
  BY <1>1 DEF Chat!Attached, Chat!RemovalsApart, Chat!Arriving
<1>3. \A i \in Images : s2[i] = Chat!Nothing /\ s4[i] = x => i \in s13'
  BY <1>1 DEF Chat!Unsaved
<1>4. s13 \subseteq s13' /\ "idle" \in Chat!Places
  BY <1>1 DEF Chat!Places
<1>5. /\ s8' \in [Threads -> Chat!Places] /\ s9' \in [Threads -> Chat!Held]
      /\ Chat!UploadsApart' /\ Chat!MessagesApart'
  <2>1. \A u \in Threads \ {t} :
           /\ Chat!Uploading(u) => s9[u].image \notin s11'
           /\ s8[u] = "put_image" => /\ s2'[s9[u].image] = Chat!Nothing
                                     /\ s9[u].content \in s5' \/ s9[u].image \in s13'
           /\ Chat!Sending(u) => s1'.message[s9[u].message].images = s1.message[s9[u].message].images
    BY <1>1, <1>2, <1>4 DEF Chat!Attached, Chat!UploadsApart, Chat!Uploading
  <2> QED
    BY <1>1, <1>4, <2>1, EmptyFacts, ThreadGoes
<1>6. Chat!ChatTypeOK'
  BY <1>1, <1>5 DEF Chat!Attached, Chat!ChatTypeOK
<1>7. Chat!FileBehind' /\ Chat!ImagesKnown'
  BY <1>1 DEF Chat!Attached, Chat!FileBehind, Chat!ImagesKnown
<1>8. Chat!ContentsThere'
  <2>1. ASSUME NEW i \in Images, i \notin s13'
        PROVE  {s2[i], s4[i]} \subseteq s5' \cup {Chat!Nothing}
    <3>1. s2[i] \in s5 \cup {Chat!Nothing} /\ s4[i] \in s5 \cup {Chat!Nothing} /\ s2[i] # x
      BY <1>2, <1>4, <2>1 DEF Chat!Attached, Chat!ContentsThere
    <3>2. s4[i] = x => s4[i] = Chat!Nothing
      BY <1>3, <2>1, <3>1 DEF Chat!Attached, Chat!ImagesKnown
    <3> QED
      BY <1>1, <3>1, <3>2
  <2> QED
    BY <1>1, <2>1 DEF Chat!ContentsThere
<1>9. Chat!ShownAreThere'
  <2>1. s8'[t] = "idle" /\ \A u \in Threads \ {t} : s8'[u] = s8[u] /\ s9'[u] = s9[u]
    BY <1>1, <1>4, EmptyFacts, ChatGo DEF Chat!Attached
  <2> QED
    BY <1>1, <1>4, <2>1 DEF Chat!Attached, Chat!ShownAreThere
<1>10. Chat!RemovalsApart'
  <2>1. \A u \in Threads \ {t} : s8[u] = "remove" =>
           \A i \in Images \ s13' : s2'[i] # s9[u].content
    BY <1>1, <1>4 DEF Chat!Attached, Chat!RemovalsApart
  <2> QED
    BY <1>1, <1>4, <2>1, EmptyFacts, RemovalsStay
<1> QED
  BY <1>5, <1>6, <1>7, <1>8, <1>9, <1>10 DEF Chat!Attached

(* A message is written over by the thread whose message it is.              *)
LEMMA SetMessageKeeps ==
    ASSUME Chat!Attached, NEW t \in Threads,
           NEW status \in {"received", "planned", "planning_failed", "enqueued", "enqueue_failed"},
           s8[t] \in {"put_message", "plan", "enqueue"}, Chat!SetMessage(t, status),
           NEW place \in {"save_message", "save_chats"}, Chat!Go(t, place, s9[t]),
           UNCHANGED <<s2, s3, s4, s5, s11, s12, s13>>
    PROVE  Chat!Attached'
<1> DEFINE n == s9[t].message
           b == s9[t].body
           new == [b EXCEPT !.status = status]
<1>1. /\ n \in Messages /\ b.images \subseteq s11 /\ s9[t] \in Chat!Held /\ n # Chat!Nothing
      /\ s1.message[n].images = IF s8[t] = "put_message" THEN {} ELSE b.images
      /\ \A u \in Threads \ {t} : s9[u].message # n
  BY EmptyFacts DEF Chat!Attached, Chat!ChatTypeOK, Chat!MessagesApart, Chat!Sending, Chat!Held
<1>2. new \in Chat!MessageRecords /\ new.images = b.images
  BY <1>1 DEF Chat!Held, Chat!MessageRecords
<1>3. /\ s1.message \in [Messages -> Chat!MessageRecords]
      /\ s1 = [status |-> s1.status, message |-> s1.message]
  BY DEF Chat!Attached, Chat!ChatTypeOK
<1>4. s1' = [s1 EXCEPT !.message[n] = new]
  BY DEF Chat!SetMessage
<1> HIDE DEF new
<1>5. s1' = [status |-> s1.status, message |-> [s1.message EXCEPT ![n] = new]]
  BY <1>3, <1>4
<1>6. /\ s1'.message \in [Messages -> Chat!MessageRecords] /\ s1'.message[n].images = b.images
      /\ \A k \in Messages : k # n => s1'.message[k] = s1.message[k]
      /\ s1' = [status |-> s1'.status, message |-> s1'.message]
  BY <1>1, <1>2, <1>3, <1>5
<1>7. /\ s8' \in [Threads -> Chat!Places] /\ s9' \in [Threads -> Chat!Held]
      /\ Chat!UploadsApart' /\ Chat!MessagesApart'
  <2>1. \A u \in Threads \ {t} :
           /\ Chat!Uploading(u) => s9[u].image \notin s11'
           /\ s8[u] = "put_image" => /\ s2'[s9[u].image] = Chat!Nothing
                                     /\ s9[u].content \in s5' \/ s9[u].image \in s13'
           /\ Chat!Sending(u) => s1'.message[s9[u].message].images = s1.message[s9[u].message].images
    <3>1. \A u \in Threads \ {t} : Chat!Sending(u) => s9[u].message \in Messages
      BY DEF Chat!Attached, Chat!ChatTypeOK, Chat!Sending, Chat!Held
    <3> QED
      BY <1>1, <1>6, <3>1 DEF Chat!Attached, Chat!UploadsApart
  <2>2. place \in Chat!Places
    BY DEF Chat!Places
  <2> QED
    BY <1>1, <1>6, <2>1, <2>2, ThreadGoes
<1>8. Chat!ChatTypeOK'
  BY <1>6, <1>7 DEF Chat!Attached, Chat!ChatTypeOK
<1>9. \A k \in Messages : k = n \/ s1'.message[k] = s1.message[k]
  BY <1>6
<1>10. Chat!FileBehind'
  BY <1>1, <1>6, <1>9 DEF Chat!Attached, Chat!FileBehind
<1>11. Chat!ImagesKnown' /\ Chat!ContentsThere'
  BY DEF Chat!Attached, Chat!ImagesKnown, Chat!ContentsThere
<1>12. \A i \in b.images \ (s12 \cup s13) : s2[i] # Chat!Nothing
  BY <1>1 DEF Chat!Attached, Chat!ShownAreThere
<1>13. Chat!ShownAreThere'
  <2>1. s8'[t] = place /\ \A u \in Threads \ {t} : s8'[u] = s8[u] /\ s9'[u] = s9[u]
    BY <1>1, ChatGo DEF Chat!Attached, Chat!Places
  <2> QED
    BY <1>6, <1>9, <1>12, <2>1 DEF Chat!Attached, Chat!ShownAreThere
<1>14. Chat!RemovalsApart'
  <2>1. \A u \in Threads \ {t} : s8[u] = "remove" =>
           \A i \in Images \ s13' : s2'[i] # s9[u].content
    BY DEF Chat!Attached, Chat!RemovalsApart
  <2>2. place \in Chat!Places
    BY DEF Chat!Places
  <2> QED
    BY <1>1, <2>1, <2>2, RemovalsStay
<1> QED
  BY <1>7, <1>8, <1>10, <1>11, <1>13, <1>14 DEF Chat!Attached

LEMMA MessageStepsKeep ==
    ASSUME Chat!Attached, NEW t \in Threads,
           Chat!PutMessage(t) \/ Chat!PlanMessage(t) \/ Chat!EnqueuePlan(t)
    PROVE  Chat!Attached'
<1>1. s1' = s1 => s1' = [status |-> s1'.status, message |-> s1.message]
  BY DEF Chat!Attached, Chat!ChatTypeOK
<1>2. CASE Chat!PutMessage(t)
  BY <1>2, SetMessageKeeps DEF Chat!PutMessage, Chat!At, Chat!history_vars
<1>3. CASE Chat!EnqueuePlan(t)
  BY <1>3, SetMessageKeeps DEF Chat!EnqueuePlan, Chat!At, Chat!history_vars
<1>4. CASE Chat!PlanMessage(t)
  <2>1. s8[t] = "plan" /\ UNCHANGED <<s2, s3, s4, s5, s11, s12, s13>>
    BY <1>4 DEF Chat!PlanMessage, Chat!At, Chat!history_vars
  <2>2. CASE Chat!SetMessage(t, "planned") /\ Chat!Go(t, "save_chats", s9[t])
    BY <2>1, <2>2, SetMessageKeeps
  <2>3. CASE Chat!SetMessage(t, "planning_failed") /\ Chat!Go(t, "save_chats", s9[t])
    BY <2>1, <2>3, SetMessageKeeps
  <2>4. CASE Chat!Return(t) /\ s1' = s1
    BY <1>1, <2>1, <2>4, LetsGo DEF Chat!Return
  <2>5. CASE Chat!Go(t, "enqueue", s9[t]) /\ s1' = s1
    <3>1. s9[t] \in Chat!Held /\ "enqueue" \in Chat!Places
      BY DEF Chat!Attached, Chat!ChatTypeOK, Chat!Places
    <3>2. /\ s9[t].message # Chat!Nothing
          /\ s1.message[s9[t].message].images = s9[t].body.images
          /\ s9[t].body.images \subseteq s11
          /\ \A u \in Threads \ {t} : s9[u].message # s9[t].message
      BY <2>1 DEF Chat!Attached, Chat!MessagesApart, Chat!Sending
    <3> QED
      BY <1>1, <2>1, <2>5, <3>1, <3>2, StoresStay
  <2> QED
    BY <1>4, <2>2, <2>3, <2>4, <2>5 DEF Chat!PlanMessage
<1> QED
  BY <1>2, <1>3, <1>4

LEMMA SaveChatsKeeps ==
    ASSUME Chat!Attached, NEW t \in Threads, Chat!SaveChats(t)
    PROVE  Chat!Attached'
<1>1. /\ s3' = s1 /\ UNCHANGED <<s1, s2, s4, s5, s11, s12, s13>>
      /\ s8[t] \in {"save_chats", "save_message"}
      /\ \/ s8[t] = "save_message" /\ Chat!Go(t, "plan", s9[t])
         \/ Chat!Go(t, "idle", Chat!Empty)
  BY DEF Chat!SaveChats, Chat!At, Chat!Return, Chat!history_vars
<1>2. PICK place \in {"idle", "plan"}, m \in Chat!Held :
          /\ Chat!Go(t, place, m)
          /\ place = "plan" => m.message # Chat!Nothing
          /\ m.message # Chat!Nothing =>
                /\ s1.message[m.message].images = m.body.images
                /\ m.body.images \subseteq s11
                /\ \A u \in Threads \ {t} : s9[u].message # m.message
  <2>1. CASE Chat!Go(t, "idle", Chat!Empty)
    BY <2>1, EmptyFacts
  <2>2. CASE s8[t] = "save_message" /\ Chat!Go(t, "plan", s9[t])
    <3>1. s9[t] \in Chat!Held /\ s9[t].message # Chat!Nothing
      BY <2>2 DEF Chat!Attached, Chat!ChatTypeOK, Chat!MessagesApart, Chat!Sending
    <3>2. /\ s1.message[s9[t].message].images = s9[t].body.images
          /\ s9[t].body.images \subseteq s11
          /\ \A u \in Threads \ {t} : s9[u].message # s9[t].message
      BY <2>2, <3>1 DEF Chat!Attached, Chat!MessagesApart, Chat!Sending
    <3> QED
      BY <2>2, <3>1, <3>2
  <2> QED
    BY <1>1, <2>1, <2>2
<1>3. place \in Chat!Places
  BY <1>2 DEF Chat!Places
<1>4. /\ s8' \in [Threads -> Chat!Places] /\ s9' \in [Threads -> Chat!Held]
      /\ Chat!UploadsApart' /\ Chat!MessagesApart'
  <2>1. \A u \in Threads \ {t} :
           /\ Chat!Uploading(u) => s9[u].image \notin s11'
           /\ s8[u] = "put_image" => /\ s2'[s9[u].image] = Chat!Nothing
                                     /\ s9[u].content \in s5' \/ s9[u].image \in s13'
           /\ Chat!Sending(u) => s1'.message[s9[u].message].images = s1.message[s9[u].message].images
    BY <1>1 DEF Chat!Attached, Chat!UploadsApart
  <2> QED
    BY <1>1, <1>2, <1>3, <2>1, ThreadGoes
<1>5. Chat!ChatTypeOK'
  BY <1>1, <1>4 DEF Chat!Attached, Chat!ChatTypeOK
<1>6. Chat!FileBehind' /\ Chat!ImagesKnown' /\ Chat!ContentsThere'
  BY <1>1 DEF Chat!Attached, Chat!FileBehind, Chat!ImagesKnown, Chat!ContentsThere
<1>7. Chat!ShownAreThere'
  <2>1. s8'[t] = place /\ \A u \in Threads \ {t} : s8'[u] = s8[u] /\ s9'[u] = s9[u]
    BY <1>2, <1>3, ChatGo DEF Chat!Attached
  <2> QED
    BY <1>1, <1>2, <2>1 DEF Chat!Attached, Chat!ShownAreThere
<1>8. Chat!RemovalsApart'
  <2>1. \A u \in Threads \ {t} : s8[u] = "remove" =>
           \A i \in Images \ s13' : s2'[i] # s9[u].content
    BY <1>1 DEF Chat!Attached, Chat!RemovalsApart
  <2> QED
    BY <1>1, <1>2, <1>3, <2>1, RemovalsStay
<1> QED
  BY <1>4, <1>5, <1>6, <1>7, <1>8 DEF Chat!Attached

LEMMA SaveImagesKeeps ==
    ASSUME Chat!Attached, NEW t \in Threads, Chat!SaveImages(t)
    PROVE  Chat!Attached'
<1>1. /\ s4' = s2 /\ UNCHANGED <<s1, s2, s3, s5, s12, s13>>
      /\ \/ s8[t] = "save_upload" /\ s11' = s11 \cup {s9[t].image} /\ Chat!Go(t, "idle", Chat!Empty)
         \/ s8[t] = "save_drop" /\ s11' = s11 /\ Chat!Go(t, "unlink", s9[t])
  BY DEF Chat!SaveImages, Chat!At, Chat!Return
<1>2. /\ s9[t] \in Chat!Held /\ s11 \subseteq s11' /\ s11' \subseteq Images
      /\ \A u \in Threads \ {t} : Chat!Uploading(u) => s9[u].image \notin s11'
  BY <1>1 DEF Chat!Attached, Chat!ChatTypeOK, Chat!UploadsApart, Chat!Uploading
<1>3. PICK place \in {"idle", "unlink"}, m \in Chat!Held :
          /\ Chat!Go(t, place, m)
          /\ place = "unlink" => m.content \in ImageContents
          /\ m.message # Chat!Nothing =>
                /\ s1.message[m.message].images = m.body.images
                /\ m.body.images \subseteq s11
                /\ \A u \in Threads \ {t} : s9[u].message # m.message
  <2>1. CASE Chat!Go(t, "idle", Chat!Empty)
    BY <2>1, EmptyFacts
  <2>2. CASE s8[t] = "save_drop" /\ Chat!Go(t, "unlink", s9[t])
    <3>1. s9[t].content \in ImageContents
      BY <2>2 DEF Chat!Attached, Chat!RemovalsApart
    <3> QED
      BY <1>2, <2>2, <3>1 DEF Chat!Attached, Chat!MessagesApart, Chat!Sending
  <2> QED
    BY <1>1, <2>1, <2>2
<1>4. place \in Chat!Places
  BY <1>3 DEF Chat!Places
<1>5. /\ s8' \in [Threads -> Chat!Places] /\ s9' \in [Threads -> Chat!Held]
      /\ Chat!UploadsApart' /\ Chat!MessagesApart'
  <2>1. \A u \in Threads \ {t} :
           /\ Chat!Uploading(u) => s9[u].image \notin s11'
           /\ s8[u] = "put_image" => /\ s2'[s9[u].image] = Chat!Nothing
                                     /\ s9[u].content \in s5' \/ s9[u].image \in s13'
           /\ Chat!Sending(u) => s1'.message[s9[u].message].images = s1.message[s9[u].message].images
    BY <1>1, <1>2 DEF Chat!Attached, Chat!UploadsApart
  <2>2. m.message # Chat!Nothing => m.body.images \subseteq s11'
    BY <1>2, <1>3
  <2> QED
    BY <1>1, <1>2, <1>3, <1>4, <2>1, <2>2, ThreadGoes
<1>6. Chat!ChatTypeOK'
  BY <1>1, <1>2, <1>5 DEF Chat!Attached, Chat!ChatTypeOK
<1>7. Chat!FileBehind' /\ Chat!ImagesKnown' /\ Chat!ContentsThere'
  BY <1>1, <1>2 DEF Chat!Attached, Chat!FileBehind, Chat!ImagesKnown, Chat!ContentsThere
<1>8. Chat!ShownAreThere'
  <2>1. s8'[t] = place /\ \A u \in Threads \ {t} : s8'[u] = s8[u] /\ s9'[u] = s9[u]
    BY <1>3, <1>4, ChatGo DEF Chat!Attached
  <2> QED
    BY <1>1, <1>3, <2>1 DEF Chat!Attached, Chat!ShownAreThere
<1>9. Chat!RemovalsApart'
  <2>1. \A u \in Threads \ {t} : s8[u] = "remove" =>
           \A i \in Images \ s13' : s2'[i] # s9[u].content
    BY <1>1 DEF Chat!Attached, Chat!RemovalsApart
  <2> QED
    BY <1>1, <1>3, <1>4, <2>1, RemovalsStay
<1> QED
  BY <1>5, <1>6, <1>7, <1>8, <1>9 DEF Chat!Attached

(* The next process has what the files have.                                 *)
LEMMA CrashKeeps ==
    ASSUME Chat!Attached, Chat!Crash
    PROVE  Chat!Attached'
<1>1. /\ s1' = s3 /\ s2' = s4 /\ UNCHANGED <<s3, s4, s5, s11, s12, s13>>
      /\ s8' = [t \in Threads |-> "idle"] /\ s9' = [t \in Threads |-> Chat!Empty]
  BY DEF Chat!Crash, Chat!history_vars
<1>2. Chat!ChatTypeOK'
  <2>1. s8' \in [Threads -> Chat!Places] /\ s9' \in [Threads -> Chat!Held]
    BY <1>1, EmptyFacts DEF Chat!Places
  <2> QED
    BY <1>1, <2>1 DEF Chat!Attached, Chat!ChatTypeOK
<1>3. Chat!UploadsApart' /\ Chat!MessagesApart'
  BY <1>1, EmptyFacts DEF Chat!UploadsApart, Chat!Uploading, Chat!MessagesApart, Chat!Sending
<1>4. Chat!FileBehind' /\ Chat!ImagesKnown' /\ Chat!ContentsThere'
  BY <1>1 DEF Chat!Attached, Chat!FileBehind, Chat!ImagesKnown, Chat!ContentsThere
<1>5. ASSUME NEW n \in Messages, NEW i \in s3.message[n].images \ (s12 \cup s13)
      PROVE  s4[i] # Chat!Nothing
  <2>1. i \in Images
    BY DEF Chat!Attached, Chat!ChatTypeOK, Chat!MessageRecords
  <2>2. i \in s1.message[n].images /\ i \in s11 /\ s2[i] # Chat!Nothing
    BY DEF Chat!Attached, Chat!FileBehind, Chat!ShownAreThere
  <2> QED
    BY <2>1, <2>2 DEF Chat!Attached, Chat!ImagesKnown
<1>6. Chat!ShownAreThere'
  BY <1>1, <1>5 DEF Chat!ShownAreThere
<1>7. Chat!RemovalsApart'
  BY <1>1 DEF Chat!RemovalsApart
<1> QED
  BY <1>2, <1>3, <1>4, <1>6, <1>7 DEF Chat!Attached

LEMMA ChatStutters ==
    ASSUME Chat!Attached, UNCHANGED Chat!vars
    PROVE  Chat!Attached'
<1>1. UNCHANGED <<s1, s2, s3, s4, s5, s8, s9, s11, s12, s13>>
  BY DEF Chat!vars, Chat!store_vars, Chat!history_vars
<1>2. Chat!ChatTypeOK' /\ Chat!UploadsApart' /\ Chat!MessagesApart'
  BY <1>1 DEF Chat!Attached, Chat!ChatTypeOK, Chat!UploadsApart, Chat!Uploading, Chat!MessagesApart,
              Chat!Sending
<1>3. Chat!FileBehind' /\ Chat!ImagesKnown' /\ Chat!ContentsThere' /\ Chat!ShownAreThere'
  BY <1>1 DEF Chat!Attached, Chat!FileBehind, Chat!ImagesKnown, Chat!ContentsThere, Chat!ShownAreThere
<1>4. Chat!RemovalsApart'
  BY <1>1 DEF Chat!Attached, Chat!RemovalsApart, Chat!Arriving
<1> QED
  BY <1>2, <1>3, <1>4 DEF Chat!Attached

LEMMA ChatKeeps ==
    ASSUME Chat!Attached, Chat!Next \/ UNCHANGED Chat!vars
    PROVE  Chat!Attached'
<1>1. ASSUME NEW t \in Threads, Chat!Call(t)
      PROVE  Chat!Attached'
  BY <1>1, SetStatusKeeps, UploadBytesKeeps, CheckImageKeeps, ValidateKeeps DEF Chat!Call
<1>2. ASSUME NEW t \in Threads, Chat!Step(t)
      PROVE  Chat!Attached'
  BY <1>2, PutImageKeeps, DropImageKeeps, FindUsesKeeps, UnlinkKeeps, MessageStepsKeep, SaveChatsKeeps,
     SaveImagesKeeps, SaveFailsKeeps DEF Chat!Step
<1> QED
  BY <1>1, <1>2, CrashKeeps, ChatStutters DEF Chat!Next

(* For any conversations, messages, images and threads, with calls that      *)
(* overlap, saves that fail and restarts: an image a stored message shows    *)
(* has its metadata and its content, unless it was deleted by force, its     *)
(* deletion raced with its use or was not saved before the content it shares *)
(* went, or its upload overlapped the removal of the same content.           *)
THEOREM ImagesStayReadable == AnySpec => []AttachedIsReadable
<1> DEFINE Inv == component = "chat" => Chat!Attached
<1>1. AnyInit => Inv
  BY ChatBegins DEF AnyInit
<1>2. Inv /\ [AnyNext]_AnyVars => Inv'
  BY Selected, ChatKeeps
<1>3. Inv => AttachedIsReadable
  <2> SUFFICES ASSUME Chat!Attached, NEW m \in Messages,
                      NEW i \in s1.message[m].images \ (s12 \cup s13)
               PROVE  s2[i] # Chat!Nothing /\ s2[i] \in s5
    BY DEF AttachedIsReadable, Chat!AttachedIsReadable
  <2>1. i \in Images
    BY DEF Chat!Attached, Chat!ChatTypeOK, Chat!MessageRecords
  <2> QED
    BY <2>1 DEF Chat!Attached, Chat!ContentsThere, Chat!ShownAreThere
<1> QED
  BY <1>1, <1>2, <1>3, PTL DEF AnySpec, AnyVars

-----------------------------------------------------------------------------
(* The memory of a project                                                   *)

(* A set of numbers with a bound has a greatest one: of the sets of those    *)
(* greater than one of them, which are finite, one includes no other.        *)
LEMMA GreatestThereIs ==
    ASSUME NEW S, S \subseteq Nat, S # {}, NEW n \in Nat, \A x \in S : x <= n
    PROVE  \E x \in S : \A y \in S : y <= x
<1> DEFINE Above(x) == {y \in S : y > x}
           T == {Above(x) : x \in S}
<1>1. IsFiniteSet(S)
  BY FS_BoundedSetOfNaturals
<1>2. T \subseteq FiniteSubsetsOf(S)
  <2>1. \A x \in S : Above(x) \subseteq S /\ IsFiniteSet(Above(x))
    BY <1>1, FS_Subset
  <2> HIDE DEF Above
  <2> QED
    BY <2>1 DEF FiniteSubsetsOf
<1>3. PICK a \in T : \A b \in T : <<b, a>> \notin StrictSubsetOrdering(S)
  <2> HIDE DEF T
  <2>1. IsWellFoundedOn(StrictSubsetOrdering(S), FiniteSubsetsOf(S))
    BY FS_StrictSubsetOrderingWellFounded
  <2>2. T # {}
    BY DEF T
  <2> QED
    BY <1>2, <2>1, <2>2, WFMin
<1>4. PICK x \in S : a = Above(x)
  BY <1>3
<1>5. ASSUME NEW y \in S, ~(y <= x) PROVE FALSE
  <2>1. x \in Nat /\ y \in Nat /\ y > x
    BY <1>5
  <2>2. Above(y) \subseteq Above(x) /\ y \in Above(x) /\ y \notin Above(y)
    <3>1. \A z \in S : z \in Nat /\ (z > y => z > x)
      BY <2>1
    <3>2. ~(y > y)
      BY <2>1
    <3> QED
      BY <2>1, <3>1, <3>2
  <2>3. Above(y) \in SUBSET S /\ Above(x) \in SUBSET S /\ Above(y) \in T
    OBVIOUS
  <2> HIDE DEF Above, T
  <2>4. Above(y) # Above(x)
    BY <2>2
  <2>5. <<Above(y), Above(x)>> \in StrictSubsetOrdering(S)
    BY <2>2, <2>3, <2>4 DEF StrictSubsetOrdering
  <2> QED
    BY <1>3, <1>4, <2>3, <2>5
<1> QED
  BY <1>5

(* What is recorded becomes one entry, which is not a snapshot, and entries  *)
(* that were not cut are of one record only.                                 *)
LEMMA EntryFacts ==
    /\ \A d \in Memory!Recordable :
          /\ Memory!Entry(d) \in Memory!Entries /\ Memory!Entry(d).kind # "snapshot"
          /\ Memory!Entry(d).kind = Memory!Kind(d) /\ Memory!Entry(d).data = Memory!Stored(d)
    /\ \A d \in Policies : Memory!Kind(d) = "policy"
    /\ \A d \in Memory!Recordable : Memory!Kind(d) = "policy" => d \in Policies
    /\ \A d \in Memory!Recordable :
          Memory!Stored(d) # "truncated" => d \notin Oversized /\ Memory!Stored(d) = d
    /\ \A d \in Memory!Recordable \ Oversized :
          Memory!Stored(d) = d /\ d # "truncated"
BY MemoryAssumption
   DEF Memory!Entry, Memory!Entries, Memory!Kind, Memory!Stored, Memory!Recordable

LEMMA MemoryBegins ==
    ASSUME Memory!Init
    PROVE  Memory!MemoryInv
<1> USE DEF Memory!Init
<1>1. Memory!MemoryShape
  BY DEF Memory!MemoryShape, Memory!Generating, Memory!Nothing, Memory!None
<1>2. Memory!Logged /\ Memory!Sourced /\ Memory!InOrder
  BY DEF Memory!Logged, Memory!Sourced, Memory!InOrder
<1>3. Memory!Began(s7) /\ \A t \in Threads : Memory!Began(s4[t].due)
  BY DEF Memory!Began, Memory!Nothing
<1>4. \A t \in Threads : s3[t] \notin Memory!Generating
  BY DEF Memory!Generating
<1>5. Memory!OneAfterTheOther
  BY <1>4 DEF Memory!OneAfterTheOther
<1>6. Memory!HoldsUpto(s7, s2.upto)
  BY DEF Memory!HoldsUpto, Memory!None
<1> QED
  BY <1>1, <1>2, <1>3, <1>4, <1>5, <1>6 DEF Memory!MemoryInv

(* The log with another snapshot at its end.                                 *)
LogGrows ==
    /\ s1' \in Seq(Memory!Entries) /\ Len(s1) <= Len(s1')
    /\ \A k \in DOMAIN s1 : s1'[k] = s1[k]

LEMMA SnapshotAdded ==
    ASSUME Memory!MemoryInv, s6' = s6, NEW n \in Nat, s1' = Append(s1, Memory!Snapshot(n))
    PROVE  LogGrows /\ Memory!Logged' /\ Memory!Sourced' /\ Memory!InOrder'
<1>1. s1 \in Seq(Memory!Entries)
  BY DEF Memory!MemoryInv, Memory!MemoryShape
<1> DEFINE e == Memory!Snapshot(n)
<1>2. e \in Memory!Entries /\ e.kind = "snapshot"
  BY DEF Memory!Snapshot, Memory!Entries
<1>3. \A i \in DOMAIN s6 : Memory!Entry(s6[i]).kind # "snapshot"
  BY EntryFacts DEF Memory!MemoryInv, Memory!MemoryShape
<1> HIDE DEF e
<1>4. /\ s1' \in Seq(Memory!Entries) /\ Len(s1') = Len(s1) + 1 /\ Len(s1) \in Nat
      /\ DOMAIN s1 = 1..Len(s1) /\ DOMAIN s1' = 1..(Len(s1) + 1)
      /\ \A k \in DOMAIN s1 : s1'[k] = s1[k]
      /\ s1'[Len(s1) + 1] = e
  BY <1>1, <1>2 DEF e
<1>5. LogGrows
  BY <1>4 DEF LogGrows
<1>6. Memory!Logged'
  BY <1>4 DEF Memory!MemoryInv, Memory!Logged
<1>7. Memory!Sourced'
  BY <1>2, <1>4 DEF Memory!MemoryInv, Memory!Sourced
<1>8. Memory!InOrder'
  <2>1. \A k \in DOMAIN s1' : k \in DOMAIN s1 \/ k = Len(s1) + 1
    BY <1>4
  <2>2. \A k \in DOMAIN s1', i \in DOMAIN s6 : s1'[k] = Memory!Entry(s6[i]) => k \in DOMAIN s1
    BY <1>2, <1>3, <1>4, <2>1
  <2>3. \A j \in DOMAIN s1', k \in DOMAIN s1 : j < k => j \in DOMAIN s1
    BY <1>4
  <2> QED
    BY <1>4, <2>2, <2>3 DEF Memory!MemoryInv, Memory!InOrder
<1> QED
  BY <1>5, <1>6, <1>7, <1>8

(* Recording adds to what was asked for, and to the log what is new to it.   *)
LEMMA RecordAdded ==
    ASSUME Memory!MemoryInv, NEW data \in Memory!Recordable, s6' = Append(s6, data),
           Memory!AppendRecord(Memory!Entry(data))
    PROVE  /\ LogGrows /\ Memory!Logged' /\ Memory!Sourced' /\ Memory!InOrder'
           /\ s6' \in Seq(Memory!Recordable) /\ Len(s6) <= Len(s6')
           /\ \A i \in DOMAIN s6 : i \in DOMAIN s6' /\ s6'[i] = s6[i]
<1> DEFINE e == Memory!Entry(data)
<1>1. s1 \in Seq(Memory!Entries) /\ s6 \in Seq(Memory!Recordable)
  BY DEF Memory!MemoryInv, Memory!MemoryShape
<1>2. e \in Memory!Entries /\ e.kind # "snapshot"
  BY EntryFacts
<1>3. /\ s6' \in Seq(Memory!Recordable) /\ Len(s6') = Len(s6) + 1 /\ Len(s6) \in Nat
      /\ DOMAIN s6 = 1..Len(s6) /\ DOMAIN s6' = 1..(Len(s6) + 1)
      /\ \A i \in DOMAIN s6 : s6'[i] = s6[i]
      /\ s6'[Len(s6) + 1] = data
  BY <1>1
<1>4. /\ \A i \in DOMAIN s6' : i \in DOMAIN s6 \/ i = Len(s6) + 1
      /\ \A i \in DOMAIN s6 : i \in DOMAIN s6' /\ i < Len(s6) + 1
      /\ Len(s6) + 1 \in DOMAIN s6'
  BY <1>3
<1>5. CASE e \in Memory!ToSet(s1)
  <2>1. s1' = s1
    BY <1>5 DEF Memory!AppendRecord
  <2>2. PICK old \in DOMAIN s1 : s1[old] = e
    BY <1>5 DEF Memory!ToSet
  <2>3. LogGrows
    BY <1>1, <2>1 DEF LogGrows
  <2>4. Memory!Logged'
    BY <1>3, <1>4, <2>1, <2>2 DEF Memory!MemoryInv, Memory!Logged
  <2>5. Memory!Sourced'
    BY <1>3, <1>4, <2>1 DEF Memory!MemoryInv, Memory!Sourced
  <2>6. Memory!InOrder'
    <3> SUFFICES ASSUME NEW j \in DOMAIN s1, NEW k \in DOMAIN s1, NEW i \in DOMAIN s6',
                        j < k, s1[j].kind # "snapshot", s1[k] = Memory!Entry(s6'[i])
                 PROVE  \E h \in DOMAIN s6' : h < i /\ s1[j] = Memory!Entry(s6'[h])
      BY <2>1 DEF Memory!InOrder
    <3>1. CASE i \in DOMAIN s6
      BY <1>3, <1>4, <3>1 DEF Memory!MemoryInv, Memory!InOrder
    <3>2. CASE i = Len(s6) + 1
      BY <1>3, <1>4, <3>2 DEF Memory!MemoryInv, Memory!Sourced
    <3> QED
      BY <1>4, <3>1, <3>2
  <2> QED
    BY <1>3, <1>4, <2>3, <2>4, <2>5, <2>6
<1>6. CASE e \notin Memory!ToSet(s1)
  <2>1. s1' = Append(s1, e) /\ \A k \in DOMAIN s1 : s1[k] # e
    BY <1>6 DEF Memory!AppendRecord, Memory!ToSet
  <2> HIDE DEF e
  <2>2. /\ s1' \in Seq(Memory!Entries) /\ Len(s1') = Len(s1) + 1 /\ Len(s1) \in Nat
        /\ DOMAIN s1 = 1..Len(s1) /\ DOMAIN s1' = 1..(Len(s1) + 1)
        /\ \A k \in DOMAIN s1 : s1'[k] = s1[k]
        /\ s1'[Len(s1) + 1] = e
    BY <1>1, <1>2, <2>1
  <2>3. /\ \A k \in DOMAIN s1' : k \in DOMAIN s1 \/ k = Len(s1) + 1
        /\ \A k \in DOMAIN s1 : k \in DOMAIN s1'
        /\ Len(s1) + 1 \in DOMAIN s1'
        /\ \A j, k \in DOMAIN s1' : j < k => j \in DOMAIN s1
    BY <2>2
  <2>4. LogGrows
    BY <2>2 DEF LogGrows
  <2>5. Memory!Logged'
    BY <1>3, <1>4, <2>2, <2>3 DEF Memory!MemoryInv, Memory!Logged, e
  <2>6. Memory!Sourced'
    BY <1>3, <1>4, <2>2, <2>3 DEF Memory!MemoryInv, Memory!Sourced, e
  <2>7. \A i \in DOMAIN s6 : Memory!Entry(s6[i]) # e
    BY <2>1 DEF Memory!MemoryInv, Memory!Logged
  <2>8. Memory!InOrder'
    <3> SUFFICES ASSUME NEW j \in DOMAIN s1', NEW k \in DOMAIN s1', NEW i \in DOMAIN s6',
                        j < k, s1'[j].kind # "snapshot", s1'[k] = Memory!Entry(s6'[i])
                 PROVE  \E h \in DOMAIN s6' : h < i /\ s1'[j] = Memory!Entry(s6'[h])
      BY DEF Memory!InOrder
    <3>1. j \in DOMAIN s1 /\ s1'[j] = s1[j]
      BY <2>2, <2>3
    <3>2. CASE i \in DOMAIN s6
      <4>1. k \in DOMAIN s1
        BY <1>3, <2>2, <2>3, <2>7, <3>2
      <4> QED
        BY <1>3, <1>4, <2>2, <3>1, <3>2, <4>1 DEF Memory!MemoryInv, Memory!InOrder
    <3>3. CASE i = Len(s6) + 1
      BY <1>3, <1>4, <3>1, <3>3 DEF Memory!MemoryInv, Memory!Sourced
    <3> QED
      BY <1>4, <3>2, <3>3
  <2> QED
    BY <1>3, <1>4, <2>4, <2>5, <2>6, <2>8
<1> QED
  BY <1>5, <1>6

(* What the log has up to a place, it has when it grew.                      *)
LEMMA HoldsStill ==
    ASSUME Memory!MemoryShape, LogGrows,
           NEW earlier, NEW n \in Nat, Memory!HoldsUpto(earlier, n)
    PROVE  /\ n <= Len(s1')
           /\ \A i \in DOMAIN earlier : \E k \in 1..n : s1'[k] = Memory!Entry(earlier[i])
<1>1. /\ s1 \in Seq(Memory!Entries) /\ Len(s1) \in Nat /\ DOMAIN s1 = 1..Len(s1)
      /\ Len(s1') \in Nat /\ Len(s1) <= Len(s1')
      /\ \A k \in DOMAIN s1 : s1'[k] = s1[k]
  BY DEF Memory!MemoryShape, LogGrows
<1>2. n <= Len(s1)
  BY DEF Memory!HoldsUpto
<1>3. \A k \in 1..n : s1'[k] = s1[k]
  BY <1>1, <1>2
<1>4. ASSUME NEW i \in DOMAIN earlier
      PROVE  \E k \in 1..n : s1'[k] = Memory!Entry(earlier[i])
  <2>1. PICK k \in 1..n : s1[k] = Memory!Entry(earlier[i])
    BY DEF Memory!HoldsUpto
  <2> QED
    BY <1>3, <2>1
<1> QED
  BY <1>1, <1>2, <1>4

(* A step of one thread keeps the invariant if the log keeps what it has,    *)
(* what the thread holds is among it, and it does not begin a handoff while  *)
(* another is made.                                                          *)
LEMMA MemoryThreadMoves ==
    ASSUME Memory!MemoryInv, LogGrows, Memory!Logged', Memory!Sourced', Memory!InOrder',
           UNCHANGED <<s2, s6, s7>>,
           NEW t \in Threads, NEW place, NEW m,
           Memory!Go(t, place, m),
           place \in {"idle", "append"} \cup Memory!Generating,
           m \in [snapshot : Nat, upto : Nat, at : Nat, current : BOOLEAN,
                  due : Seq(Memory!Recordable)],
           Memory!Began(m.due),
           place \in Memory!Generating \ {"list"} =>
               /\ m.upto <= Len(s1')
               /\ \A i \in DOMAIN m.due : \E k \in 1..m.upto : s1'[k] = Memory!Entry(m.due[i]),
           ~s8' =>
               /\ ~s8
               /\ place \in Memory!Generating =>
                     /\ Len(s7) <= Len(m.due)
                     /\ \A u \in Threads : s3[u] \in Memory!Generating => u = t
    PROVE  Memory!MemoryInv'
<1>1. /\ s1 \in Seq(Memory!Entries) /\ s6 \in Seq(Memory!Recordable)
      /\ s3 \in [Threads -> {"idle", "append"} \cup Memory!Generating]
      /\ s4 \in [Threads -> [snapshot : Nat, upto : Nat, at : Nat, current : BOOLEAN,
                             due : Seq(Memory!Recordable)]]
      /\ s7 \in Seq(Memory!Recordable) /\ s2.upto \in Nat
  BY DEF Memory!MemoryInv, Memory!MemoryShape
<1>2. /\ s3'[t] = place /\ s4'[t] = m
      /\ \A u \in Threads \ {t} : s3'[u] = s3[u] /\ s4'[u] = s4[u]
  BY <1>1 DEF Memory!Go
<1>3. Memory!MemoryShape'
  BY <1>1 DEF LogGrows, Memory!MemoryShape, Memory!Go
<1>4. Memory!Began(s7)' /\ \A u \in Threads : Memory!Began(s4[u].due)'
  BY <1>2 DEF Memory!MemoryInv, Memory!Began
<1>6. ASSUME NEW u \in Threads, s3'[u] \in Memory!Generating \ {"list"}
      PROVE  Memory!HoldsUpto(s4[u].due, s4[u].upto)'
  <2>1. CASE u = t
    BY <1>2, <1>6, <2>1 DEF Memory!HoldsUpto
  <2>2. CASE u # t
    <3>1. Memory!HoldsUpto(s4[u].due, s4[u].upto) /\ s4[u].upto \in Nat
      BY <1>1, <1>2, <1>6, <2>2 DEF Memory!MemoryInv
    <3>2. /\ s4[u].upto <= Len(s1')
          /\ \A i \in DOMAIN s4[u].due :
                \E k \in 1..s4[u].upto : s1'[k] = Memory!Entry(s4[u].due[i])
      <4>1. Memory!MemoryShape
        BY DEF Memory!MemoryInv
      <4> HIDE DEF Memory!HoldsUpto
      <4> QED
        BY <3>1, <4>1, HoldsStill
    <3>3. s4'[u] = s4[u]
      BY <1>2, <2>2
    <3> QED
      BY <3>2, <3>3 DEF Memory!HoldsUpto
  <2> QED
    BY <2>1, <2>2
<1>7. ASSUME ~s8' PROVE Memory!OneAfterTheOther' /\ Memory!HoldsUpto(s7, s2.upto)'
  <2>1. Memory!OneAfterTheOther /\ Memory!HoldsUpto(s7, s2.upto)
    BY <1>7 DEF Memory!MemoryInv
  <2>2. Memory!HoldsUpto(s7, s2.upto)'
    <3>1. Memory!MemoryShape
      BY DEF Memory!MemoryInv
    <3>2. /\ s2.upto <= Len(s1')
          /\ \A i \in DOMAIN s7 : \E k \in 1..s2.upto : s1'[k] = Memory!Entry(s7[i])
      BY <1>1, <2>1, <3>1, HoldsStill
    <3> QED
      BY <3>2 DEF Memory!HoldsUpto
  <2>3. Memory!OneAfterTheOther'
    BY <1>2, <1>7, <2>1 DEF Memory!OneAfterTheOther
  <2> QED
    BY <2>2, <2>3
<1> QED
  BY <1>3, <1>4, <1>6, <1>7 DEF Memory!MemoryInv

LEMMA RecordKeeps ==
    ASSUME Memory!MemoryInv, NEW data \in Memory!Recordable, Memory!Record(data)
    PROVE  Memory!MemoryInv'
<1>1. /\ s6' = Append(s6, data) /\ Memory!AppendRecord(Memory!Entry(data))
      /\ UNCHANGED <<s2, s3, s4, s7, s8>>
  BY DEF Memory!Record
<1>2. /\ LogGrows /\ Memory!Logged' /\ Memory!Sourced' /\ Memory!InOrder'
      /\ s6' \in Seq(Memory!Recordable) /\ Len(s6) <= Len(s6')
      /\ \A i \in DOMAIN s6 : i \in DOMAIN s6' /\ s6'[i] = s6[i]
  BY <1>1, RecordAdded
<1>3. /\ s1 \in Seq(Memory!Entries) /\ s6 \in Seq(Memory!Recordable)
      /\ s4 \in [Threads -> [snapshot : Nat, upto : Nat, at : Nat, current : BOOLEAN,
                             due : Seq(Memory!Recordable)]]
      /\ s7 \in Seq(Memory!Recordable) /\ s2.upto \in Nat
  BY DEF Memory!MemoryInv, Memory!MemoryShape
<1>4. Memory!MemoryShape'
  BY <1>1, <1>2 DEF LogGrows, Memory!MemoryInv, Memory!MemoryShape
<1>5. ASSUME NEW earlier \in Seq(Memory!Recordable), Memory!Began(earlier)
      PROVE  Len(earlier) <= Len(s6') /\ \A i \in DOMAIN earlier : earlier[i] = s6'[i]
  <2>1. Len(earlier) \in Nat /\ Len(s6) \in Nat /\ Len(s6') \in Nat
    BY <1>2, <1>3, <1>5
  <2>2. \A i \in DOMAIN earlier : i \in DOMAIN s6
    BY <1>3, <1>5, <2>1 DEF Memory!Began
  <2> QED
    BY <1>2, <1>5, <2>1, <2>2 DEF Memory!Began
<1>6. Memory!Began(s7)' /\ \A t \in Threads : Memory!Began(s4[t].due)'
  BY <1>1, <1>3, <1>5 DEF Memory!MemoryInv, Memory!Began
<1>7. ASSUME NEW t \in Threads, s3[t] \in Memory!Generating \ {"list"}
      PROVE  Memory!HoldsUpto(s4[t].due, s4[t].upto)'
  <2>1. Memory!HoldsUpto(s4[t].due, s4[t].upto) /\ s4[t].upto \in Nat
    BY <1>3, <1>7 DEF Memory!MemoryInv
  <2> QED
    <3>1. Memory!MemoryShape
      BY DEF Memory!MemoryInv
    <3>2. /\ s4[t].upto <= Len(s1')
          /\ \A i \in DOMAIN s4[t].due :
                \E k \in 1..s4[t].upto : s1'[k] = Memory!Entry(s4[t].due[i])
      BY <1>2, <2>1, <3>1, HoldsStill
    <3> QED
      BY <1>1, <3>2 DEF Memory!HoldsUpto
<1>8. ASSUME ~s8 PROVE Memory!HoldsUpto(s7, s2.upto)'
  <2>1. Memory!HoldsUpto(s7, s2.upto)
    BY <1>8 DEF Memory!MemoryInv
  <2> QED
    <3>1. Memory!MemoryShape
      BY DEF Memory!MemoryInv
    <3>2. /\ s2.upto <= Len(s1')
          /\ \A i \in DOMAIN s7 : \E k \in 1..s2.upto : s1'[k] = Memory!Entry(s7[i])
      BY <1>2, <1>3, <2>1, <3>1, HoldsStill
    <3> QED
      BY <1>1, <3>2 DEF Memory!HoldsUpto
<1>9. ~s8 => Memory!OneAfterTheOther'
  BY <1>1 DEF Memory!MemoryInv, Memory!OneAfterTheOther
<1> QED
  BY <1>1, <1>2, <1>4, <1>6, <1>7, <1>8, <1>9 DEF Memory!MemoryInv

(* The latest snapshot is one of the log.                                    *)
LEMMA LatestIsNumbered ==
    ASSUME Memory!MemoryShape
    PROVE  Memory!LatestSnapshot \in Nat
<1> DEFINE S == {i \in DOMAIN s1 : s1[i].kind = "snapshot"}
<1>1. DOMAIN s1 = 1..Len(s1) /\ Len(s1) \in Nat
  BY DEF Memory!MemoryShape
<1>2. CASE S = {}
  BY <1>2 DEF Memory!LatestSnapshot
<1>3. CASE S # {}
  <2>1. \E i \in S : \A j \in S : j <= i
    <3>1. S \subseteq Nat /\ \A j \in S : j <= Len(s1)
      BY <1>1
    <3> HIDE DEF S
    <3> QED
      BY <1>1, <1>3, <3>1, GreatestThereIs
  <2>2. Memory!LastOf(S) \in S
    <3> HIDE DEF S
    <3> QED
      BY <2>1 DEF Memory!LastOf
  <2> QED
    BY <1>1, <1>3, <2>2 DEF Memory!LatestSnapshot
<1> QED
  BY <1>2, <1>3

(* What a handoff lists has all that was recorded before it began.           *)
LEMMA AllIsListed ==
    ASSUME Memory!MemoryInv, NEW earlier \in Seq(Memory!Recordable), Memory!Began(earlier)
    PROVE  \A i \in DOMAIN earlier : \E k \in 1..Len(s1) : s1[k] = Memory!Entry(earlier[i])
<1>1. s1 \in Seq(Memory!Entries) /\ s6 \in Seq(Memory!Recordable)
  BY DEF Memory!MemoryInv, Memory!MemoryShape
<1>2. \A i \in DOMAIN earlier : i \in DOMAIN s6 /\ earlier[i] = s6[i]
  BY <1>1 DEF Memory!Began
<1> QED
  BY <1>1, <1>2 DEF Memory!MemoryInv, Memory!Logged

Making == [snapshot : Nat, upto : Nat, at : Nat, current : BOOLEAN, due : Seq(Memory!Recordable)]

LEMMA MakingFacts ==
    /\ Memory!Nothing \in Making /\ Memory!Nothing.due = <<>>
    /\ \A m \in Making :
          /\ \A n \in Nat :
                /\ [m EXCEPT !.snapshot = n] \in Making
                /\ [m EXCEPT !.snapshot = n].due = m.due /\ [m EXCEPT !.snapshot = n].upto = m.upto
                /\ [m EXCEPT !.upto = n] \in Making
                /\ [m EXCEPT !.upto = n].due = m.due /\ [m EXCEPT !.upto = n].upto = n
                /\ [m EXCEPT !.at = n] \in Making
                /\ [m EXCEPT !.at = n].due = m.due /\ [m EXCEPT !.at = n].upto = m.upto
          /\ \A b \in BOOLEAN :
                /\ [m EXCEPT !.current = b] \in Making
                /\ [m EXCEPT !.current = b].due = m.due /\ [m EXCEPT !.current = b].upto = m.upto
          /\ \A n \in Nat, d \in Seq(Memory!Recordable) :
                /\ [m EXCEPT !.snapshot = n, !.due = d] \in Making
                /\ [m EXCEPT !.snapshot = n, !.due = d].due = d
<1>1. <<>> \in Seq(Memory!Recordable)
  OBVIOUS
<1>2. Memory!Nothing \in Making /\ Memory!Nothing.due = <<>>
  BY <1>1 DEF Making, Memory!Nothing
<1>3. ASSUME NEW m \in Making, NEW n \in Nat, NEW d \in Seq(Memory!Recordable)
      PROVE  /\ [m EXCEPT !.snapshot = n, !.due = d] \in Making
             /\ [m EXCEPT !.snapshot = n, !.due = d].due = d
  BY DEF Making
<1>4. \A m \in Making, n \in Nat :
         /\ [m EXCEPT !.snapshot = n] \in Making
         /\ [m EXCEPT !.snapshot = n].due = m.due /\ [m EXCEPT !.snapshot = n].upto = m.upto
         /\ [m EXCEPT !.upto = n] \in Making
         /\ [m EXCEPT !.upto = n].due = m.due /\ [m EXCEPT !.upto = n].upto = n
         /\ [m EXCEPT !.at = n] \in Making
         /\ [m EXCEPT !.at = n].due = m.due /\ [m EXCEPT !.at = n].upto = m.upto
  BY DEF Making
<1>5. \A m \in Making, b \in BOOLEAN :
         /\ [m EXCEPT !.current = b] \in Making
         /\ [m EXCEPT !.current = b].due = m.due /\ [m EXCEPT !.current = b].upto = m.upto
  BY DEF Making
<1> QED
  BY <1>2, <1>3, <1>4, <1>5, Zenon

(* What a thread that makes a handoff holds when it goes on with it.         *)
LEMMA HandoffGoesOn ==
    ASSUME Memory!MemoryInv, LogGrows, Memory!Logged', Memory!Sourced', Memory!InOrder',
           UNCHANGED <<s2, s6, s7, s8>>,
           NEW t \in Threads, s3[t] \in Memory!Generating,
           NEW place \in Memory!Generating \ {"list"}, NEW m \in Making, m.due = s4[t].due,
           Memory!Go(t, place, m),
           \/ s3[t] # "list" /\ m.upto = s4[t].upto
           \/ m.upto = Len(s1)
    PROVE  Memory!MemoryInv'
<1>1. s4[t] \in Making /\ s4[t].due \in Seq(Memory!Recordable) /\ Memory!Began(s4[t].due)
  BY DEF Memory!MemoryInv, Memory!MemoryShape, Making
<1>2. /\ m.upto <= Len(s1')
      /\ \A i \in DOMAIN m.due : \E k \in 1..m.upto : s1'[k] = Memory!Entry(m.due[i])
  <2>1. Memory!HoldsUpto(m.due, m.upto)
    <3>1. CASE s3[t] # "list" /\ m.upto = s4[t].upto
      BY <3>1 DEF Memory!MemoryInv
    <3>2. CASE m.upto = Len(s1)
      <4>1. \A i \in DOMAIN m.due : \E k \in 1..Len(s1) : s1[k] = Memory!Entry(m.due[i])
        BY <1>1, AllIsListed
      <4>2. Len(s1) \in Nat
        BY DEF Memory!MemoryInv, Memory!MemoryShape
      <4> QED
        BY <3>2, <4>1, <4>2 DEF Memory!HoldsUpto
    <3> QED
      BY <3>1, <3>2
  <2>2. m.upto \in Nat /\ Memory!MemoryShape
    BY DEF Memory!MemoryInv, Making
  <2> HIDE DEF Memory!HoldsUpto
  <2> QED
    BY <2>1, <2>2, HoldsStill
<1>3. Memory!Began(m.due)
  BY <1>1
<1>4. ~s8' => /\ ~s8
              /\ Len(s7) <= Len(m.due)
              /\ \A u \in Threads : s3[u] \in Memory!Generating => u = t
  BY DEF Memory!MemoryInv, Memory!OneAfterTheOther
<1>5. m \in [snapshot : Nat, upto : Nat, at : Nat, current : BOOLEAN,
             due : Seq(Memory!Recordable)]
  BY DEF Making
<1>6. place \in {"idle", "append"} \cup Memory!Generating
  OBVIOUS
<1> QED
  BY <1>2, <1>3, <1>4, <1>5, <1>6, MemoryThreadMoves

(* A thread that is at no handoff when its step has ended.                   *)
LEMMA LeavesHandoff ==
    ASSUME Memory!MemoryInv, LogGrows, Memory!Logged', Memory!Sourced', Memory!InOrder',
           UNCHANGED <<s2, s6, s7, s8>>,
           NEW t \in Threads, NEW place \in {"idle", "append"}, NEW m \in Making, m.due = <<>>,
           Memory!Go(t, place, m)
    PROVE  Memory!MemoryInv'
<1>1. Memory!Began(m.due)
  BY DEF Memory!Began, Memory!MemoryInv, Memory!MemoryShape
<1>2. place \notin Memory!Generating
  BY DEF Memory!Generating
<1>3. m \in [snapshot : Nat, upto : Nat, at : Nat, current : BOOLEAN,
             due : Seq(Memory!Recordable)]
  BY DEF Making
<1> QED
  BY <1>1, <1>2, <1>3, MemoryThreadMoves

LEMMA LogStays ==
    ASSUME Memory!MemoryInv, s1' = s1, s6' = s6
    PROVE  LogGrows /\ Memory!Logged' /\ Memory!Sourced' /\ Memory!InOrder'
<1>1. LogGrows
  BY DEF LogGrows, Memory!MemoryInv, Memory!MemoryShape
<1> QED
  BY <1>1 DEF Memory!MemoryInv, Memory!Logged, Memory!Sourced, Memory!InOrder

LEMMA StoreKeeps ==
    ASSUME Memory!MemoryInv, NEW t \in Threads, Memory!Store(t)
    PROVE  Memory!MemoryInv'
<1>1. /\ s3[t] = "store" /\ s2' = Memory!Bundle(s4[t])
      /\ s7' = IF Len(s4[t].due) > Len(s7) THEN s4[t].due ELSE s7
      /\ Memory!Go(t, "idle", Memory!Nothing)
      /\ UNCHANGED <<s1, s6, s8>>
  BY DEF Memory!Store
<1>2. /\ s3 \in [Threads -> {"idle", "append"} \cup Memory!Generating]
      /\ s4 \in [Threads -> Making]
      /\ s7 \in Seq(Memory!Recordable) /\ s6 \in Seq(Memory!Recordable)
  BY DEF Memory!MemoryInv, Memory!MemoryShape, Making
<1>3. s4[t] \in Making /\ s4[t].due \in Seq(Memory!Recordable) /\ s4[t].upto \in Nat
  BY <1>2 DEF Making
<1>4. s2'.upto = s4[t].upto
  BY <1>1 DEF Memory!Bundle
<1>5. s7' \in {s4[t].due, s7}
  BY <1>1
<1>6. Memory!MemoryShape'
  <2>1. s4' \in [Threads -> Making]
    BY <1>1, <1>2, MakingFacts DEF Memory!Go
  <2>2. s3' \in [Threads -> {"idle", "append"} \cup Memory!Generating]
    BY <1>1, <1>2 DEF Memory!Go
  <2>3. s7' \in Seq(Memory!Recordable) /\ s2'.upto \in Nat
    BY <1>2, <1>3, <1>4, <1>5
  <2> QED
    BY <1>1, <2>1, <2>2, <2>3 DEF Memory!MemoryInv, Memory!MemoryShape, Making
<1>7. Memory!Logged' /\ Memory!Sourced' /\ Memory!InOrder'
  BY <1>1, LogStays
<1>8. /\ s3'[t] = "idle" /\ s4'[t].due = <<>>
      /\ \A u \in Threads \ {t} : s3'[u] = s3[u] /\ s4'[u] = s4[u]
  BY <1>1, <1>2, MakingFacts DEF Memory!Go
<1>9. Memory!Began(s7)'
  BY <1>1, <1>5 DEF Memory!MemoryInv, Memory!Began
<1>10. \A u \in Threads : Memory!Began(s4[u].due)'
  <2>1. Memory!Began(s4[t].due)'
    BY <1>1, <1>2, <1>8 DEF Memory!Began
  <2> QED
    BY <1>1, <1>8, <2>1 DEF Memory!MemoryInv, Memory!Began
<1>11. "idle" \notin Memory!Generating /\ "store" \in Memory!Generating \ {"list"}
  BY DEF Memory!Generating
<1>12. \A u \in Threads : s3'[u] \in Memory!Generating \ {"list"} =>
           Memory!HoldsUpto(s4[u].due, s4[u].upto)'
  BY <1>1, <1>8, <1>11 DEF Memory!MemoryInv, Memory!HoldsUpto
<1>13. ASSUME ~s8 PROVE Memory!OneAfterTheOther' /\ Memory!HoldsUpto(s7, s2.upto)'
  <2>1. /\ Len(s7) <= Len(s4[t].due)
        /\ \A u \in Threads : s3[u] \in Memory!Generating => u = t
    BY <1>1, <1>11, <1>13 DEF Memory!MemoryInv, Memory!OneAfterTheOther
  <2>2. \A u \in Threads : s3'[u] \notin Memory!Generating
    BY <1>8, <1>11, <2>1
  <2>3. Memory!OneAfterTheOther'
    BY <2>2 DEF Memory!OneAfterTheOther
  <2>4. Len(s7) \in Nat /\ Len(s4[t].due) \in Nat /\ Len(s6) \in Nat
    BY <1>2, <1>3
  <2>5. \A i \in DOMAIN s7' : i \in DOMAIN s4[t].due /\ s7'[i] = s4[t].due[i]
    <3>1. Memory!Began(s7) /\ Memory!Began(s4[t].due)
      BY DEF Memory!MemoryInv
    <3>2. \A i \in DOMAIN s7 : i \in DOMAIN s4[t].due
      BY <1>2, <1>3, <2>1, <2>4
    <3> QED
      BY <1>5, <3>1, <3>2 DEF Memory!Began
  <2>6. Memory!HoldsUpto(s4[t].due, s4[t].upto)
    BY <1>1, <1>11 DEF Memory!MemoryInv
  <2>7. Memory!HoldsUpto(s7, s2.upto)'
    BY <1>1, <1>4, <2>5, <2>6 DEF Memory!HoldsUpto
  <2> QED
    BY <2>3, <2>7
<1> QED
  BY <1>1, <1>6, <1>7, <1>9, <1>10, <1>12, <1>13 DEF Memory!MemoryInv

LEMMA MemoryStepKeeps ==
    ASSUME Memory!MemoryInv, NEW t \in Threads, Memory!Step(t)
    PROVE  Memory!MemoryInv'
<1>1. /\ s4[t] \in Making /\ s6 \in Seq(Memory!Recordable) /\ s1 \in Seq(Memory!Entries)
      /\ Len(s1) \in Nat /\ s4[t].upto \in Nat
  BY DEF Memory!MemoryInv, Memory!MemoryShape, Making
<1>2. Memory!Generating = {"snapshot", "list", "stamp", "status", "store"}
  BY DEF Memory!Generating
<1>3. CASE Memory!BeginSnapshot(t)
  <2>1. /\ Memory!Go(t, "append", [Memory!Nothing EXCEPT !.upto = Len(s1)])
        /\ UNCHANGED <<s1, s2, s6, s7, s8>>
    BY <1>3 DEF Memory!BeginSnapshot
  <2>2. LogGrows /\ Memory!Logged' /\ Memory!Sourced' /\ Memory!InOrder'
    BY <2>1, LogStays
  <2> QED
    BY <1>1, <2>1, <2>2, MakingFacts, LeavesHandoff
<1>4. CASE Memory!EndSnapshot(t)
  <2>1. /\ s1' = Append(s1, Memory!Snapshot(s4[t].upto))
        /\ Memory!Go(t, "idle", Memory!Nothing)
        /\ UNCHANGED <<s2, s6, s7, s8>>
    BY <1>4 DEF Memory!EndSnapshot, Memory!history_vars
  <2>2. LogGrows /\ Memory!Logged' /\ Memory!Sourced' /\ Memory!InOrder'
    BY <1>1, <2>1, SnapshotAdded
  <2> QED
    BY <1>1, <2>1, <2>2, MakingFacts, LeavesHandoff
<1>5. CASE Memory!Begin(t)
  <2> DEFINE m == [Memory!Nothing EXCEPT !.snapshot = Memory!LatestSnapshot, !.due = s6]
  <2>1. /\ Memory!Go(t, "list", m)
        /\ s8' = (s8 \/ \E u \in Threads : s3[u] \in Memory!Generating)
        /\ UNCHANGED <<s1, s2, s6, s7>>
    BY <1>5 DEF Memory!Begin
  <2>2. LogGrows /\ Memory!Logged' /\ Memory!Sourced' /\ Memory!InOrder'
    BY <2>1, LogStays
  <2>3. Memory!LatestSnapshot \in Nat
    BY LatestIsNumbered DEF Memory!MemoryInv
  <2>4. m \in Making /\ m.due = s6
    BY <1>1, <2>3 DEF Making, Memory!Nothing
  <2> HIDE DEF m
  <2>5. Memory!Began(m.due)
    BY <1>1, <2>4 DEF Memory!Began
  <2>6. Len(s7) <= Len(m.due)
    BY <2>4 DEF Memory!MemoryInv, Memory!Began
  <2>7. m \in [snapshot : Nat, upto : Nat, at : Nat, current : BOOLEAN,
               due : Seq(Memory!Recordable)]
    BY <2>4 DEF Making
  <2>8. ~s8' => ~s8 /\ \A u \in Threads : s3[u] \in Memory!Generating => u = t
    BY <2>1
  <2> QED
    BY <1>2, <2>1, <2>2, <2>5, <2>6, <2>7, <2>8, MemoryThreadMoves
<1>6. CASE Memory!List(t)
  <2> DEFINE place == IF s4[t].snapshot = 0 THEN "snapshot" ELSE "stamp"
             m == [s4[t] EXCEPT !.upto = Len(s1)]
  <2>1. s3[t] = "list" /\ Memory!Go(t, place, m) /\ UNCHANGED <<s1, s2, s6, s7, s8>>
    BY <1>6 DEF Memory!List, Memory!history_vars
  <2>2. LogGrows /\ Memory!Logged' /\ Memory!Sourced' /\ Memory!InOrder'
    BY <2>1, LogStays
  <2>3. m \in Making /\ m.due = s4[t].due /\ m.upto = Len(s1)
    BY <1>1, MakingFacts
  <2>4. place \in Memory!Generating \ {"list"}
    BY <1>2
  <2> HIDE DEF m, place
  <2> QED
    BY <1>2, <2>1, <2>2, <2>3, <2>4, HandoffGoesOn
<1>7. CASE Memory!MakeSnapshot(t)
  <2> DEFINE m == [s4[t] EXCEPT !.snapshot = Len(s1) + 1]
  <2>1. /\ s3[t] = "snapshot" /\ Memory!Go(t, "stamp", m)
        /\ s1' = Append(s1, Memory!Snapshot(Len(s1)))
        /\ UNCHANGED <<s2, s6, s7, s8>>
    BY <1>7 DEF Memory!MakeSnapshot, Memory!history_vars
  <2>2. LogGrows /\ Memory!Logged' /\ Memory!Sourced' /\ Memory!InOrder'
    BY <1>1, <2>1, SnapshotAdded
  <2>3. Len(s1) + 1 \in Nat
    BY <1>1
  <2>4. m \in Making /\ m.due = s4[t].due /\ m.upto = s4[t].upto
    BY <1>1, <2>3, MakingFacts, Zenon
  <2> HIDE DEF m
  <2> QED
    BY <1>2, <2>1, <2>2, <2>4, HandoffGoesOn
<1>8. CASE Memory!Stamp(t)
  <2> DEFINE m == [s4[t] EXCEPT !.at = Len(s1)]
  <2>1. s3[t] = "stamp" /\ Memory!Go(t, "status", m) /\ UNCHANGED <<s1, s2, s6, s7, s8>>
    BY <1>8 DEF Memory!Stamp, Memory!history_vars
  <2>2. LogGrows /\ Memory!Logged' /\ Memory!Sourced' /\ Memory!InOrder'
    BY <2>1, LogStays
  <2>3. m \in Making /\ m.due = s4[t].due /\ m.upto = s4[t].upto
    BY <1>1, MakingFacts
  <2> HIDE DEF m
  <2> QED
    BY <1>2, <2>1, <2>2, <2>3, HandoffGoesOn
<1>9. CASE Memory!Status(t)
  <2> DEFINE b == Memory!Current(s4[t].at)
             m == [s4[t] EXCEPT !.current = b]
  <2>1. s3[t] = "status" /\ Memory!Go(t, "store", m) /\ UNCHANGED <<s1, s2, s6, s7, s8>>
    BY <1>9 DEF Memory!Status, Memory!history_vars
  <2>2. LogGrows /\ Memory!Logged' /\ Memory!Sourced' /\ Memory!InOrder'
    BY <2>1, LogStays
  <2>3. b \in BOOLEAN
    BY DEF Memory!Current
  <2> HIDE DEF b
  <2>4. m \in Making /\ m.due = s4[t].due /\ m.upto = s4[t].upto
    BY <1>1, <2>3, MakingFacts
  <2> HIDE DEF m
  <2> QED
    BY <1>2, <2>1, <2>2, <2>4, HandoffGoesOn
<1>10. CASE Memory!Store(t)
  BY <1>10, StoreKeeps
<1> QED
  BY <1>3, <1>4, <1>5, <1>6, <1>7, <1>8, <1>9, <1>10 DEF Memory!Step

(* What was recorded has a first time.                                       *)
LEMMA FirstTime ==
    ASSUME s6 \in Seq(Memory!Recordable), NEW i \in DOMAIN s6
    PROVE  \E first \in 1..i :
              /\ first \in DOMAIN s6 /\ Memory!Entry(s6[first]) = Memory!Entry(s6[i])
              /\ \A h \in DOMAIN s6 :
                    Memory!Entry(s6[h]) = Memory!Entry(s6[i]) => first <= h
<1> DEFINE same == {h \in 1..i : Memory!Entry(s6[h]) = Memory!Entry(s6[i])}
           S == {i - h : h \in same}
<1>1. i \in Nat /\ i \in 1..i /\ i \in 1..Len(s6) /\ Len(s6) \in Nat /\ 1..i \subseteq DOMAIN s6
  OBVIOUS
<1>2. i \in same /\ same \subseteq 1..i
  BY <1>1
<1>3. \E x \in S : \A y \in S : y <= x
  <2> HIDE DEF same
  <2>1. \A h \in same : i - h \in Nat /\ i - h <= i
    BY <1>1, <1>2
  <2>2. S \subseteq Nat /\ S # {} /\ \A x \in S : x <= i
    BY <1>2, <2>1
  <2> HIDE DEF S
  <2> QED
    BY <1>1, <2>2, GreatestThereIs
<1>4. PICK first \in same : \A h \in same : i - h <= i - first
  BY <1>3
<1>5. \A h \in same : first <= h
  <2> HIDE DEF same
  <2> QED
    BY <1>1, <1>2, <1>4
<1>6. ASSUME NEW h \in DOMAIN s6, Memory!Entry(s6[h]) = Memory!Entry(s6[i])
      PROVE  first <= h
  <2>1. CASE h \in 1..i
    BY <1>5, <1>6, <2>1
  <2>2. CASE h \notin 1..i
    <3> HIDE DEF same
    <3>1. h > i /\ h \in Nat /\ first <= i /\ first \in Nat
      BY <1>1, <1>2, <1>4, <2>2
    <3> QED
      BY <1>1, <3>1
  <2> QED
    BY <2>1, <2>2
<1> QED
  BY <1>1, <1>4, <1>6

(* Each entry but a snapshot is in the log once.                             *)
LEMMA EntriesDiffer ==
    ASSUME Memory!MemoryInv,
           NEW j \in DOMAIN s1, NEW k \in DOMAIN s1, s1[j] = s1[k], s1[j].kind # "snapshot"
    PROVE  j = k
<1>1. /\ s1 \in Seq(Memory!Entries) /\ s6 \in Seq(Memory!Recordable)
      /\ Memory!Sourced /\ Memory!InOrder
  BY DEF Memory!MemoryInv, Memory!MemoryShape
<1>2. PICK i \in DOMAIN s6 : s1[j] = Memory!Entry(s6[i])
  BY <1>1 DEF Memory!Sourced
<1>3. PICK first \in DOMAIN s6 :
          /\ Memory!Entry(s6[first]) = Memory!Entry(s6[i])
          /\ \A h \in DOMAIN s6 : Memory!Entry(s6[h]) = Memory!Entry(s6[i]) => first <= h
  BY <1>1, FirstTime
<1>4. ASSUME NEW a \in DOMAIN s1, NEW b \in DOMAIN s1, a < b,
             s1[a] = Memory!Entry(s6[i]), s1[b] = Memory!Entry(s6[i]), s1[a].kind # "snapshot"
      PROVE  FALSE
  <2>1. PICK h \in DOMAIN s6 : h < first /\ s1[a] = Memory!Entry(s6[h])
    BY <1>1, <1>3, <1>4 DEF Memory!InOrder
  <2>2. first <= h
    BY <1>3, <1>4, <2>1
  <2> QED
    BY <1>1, <2>1, <2>2
<1>5. j \in Nat /\ k \in Nat
  BY <1>1
<1>6. ~(j < k)
  BY <1>2, <1>4
<1>7. ~(k < j)
  BY <1>2, <1>4
<1> QED
  BY <1>5, <1>6, <1>7

(* The memory counts with the library's Cardinality.                         *)
LEMMA CountedAlike == \A S : Memory!Cardinality(S) = Cardinality(S)
BY Zenon DEF Memory!Cardinality, Cardinality, Memory!IsFiniteSet, IsFiniteSet

(* Where one is not among the latest, there are as many of those as there    *)
(* can be, all after it.                                                     *)
LEMMA LatestAreMany ==
    ASSUME NEW n \in Nat, NEW places, places \subseteq 1..n,
           NEW k \in places, k \notin Memory!Latest(places)
    PROVE  /\ IsFiniteSet(Memory!Latest(places))
           /\ Cardinality(Memory!Latest(places)) >= MaxWorks
           /\ \A p \in Memory!Latest(places) : p \in places /\ k < p
<1> DEFINE L == Memory!Latest(places)
           older == places \ L
<1>1. L \subseteq places /\ \A i \in places : i \in L <=> Cardinality(Memory!From(places, i)) <= MaxWorks
  BY CountedAlike DEF Memory!Latest
<1>2. places \subseteq Nat /\ IsFiniteSet(places) /\ \A x \in places : x <= n
  <2>1. places \subseteq Nat /\ \A x \in places : x <= n
    OBVIOUS
  <2> QED
    BY <2>1, FS_BoundedSetOfNaturals
<1>3. \A i \in places :
          /\ Memory!From(places, i) \subseteq places
          /\ IsFiniteSet(Memory!From(places, i)) /\ Cardinality(Memory!From(places, i)) \in Nat
  <2>1. \A i \in places : Memory!From(places, i) \subseteq places
    BY DEF Memory!From
  <2> QED
    BY <1>2, <2>1, FS_Subset, FS_CardinalityType
<1>4. MaxWorks \in Nat
  BY MemoryAssumption
<1>5. IsFiniteSet(L) /\ Cardinality(L) \in Nat /\ L \subseteq places
  <2>1. L \subseteq places
    BY <1>1
  <2> HIDE DEF L
  <2> QED
    BY <1>2, <2>1, FS_Subset, FS_CardinalityType
<1>6. PICK p \in older : \A y \in older : y <= p
  <2>1. k \in older /\ older \subseteq Nat /\ \A x \in older : x <= n
    BY <1>2
  <2> HIDE DEF older
  <2> QED
    BY <2>1, GreatestThereIs
<1>7. Cardinality(Memory!From(places, p)) > MaxWorks /\ p \in places
  BY <1>1, <1>3, <1>4, <1>6
<1>8. Memory!From(places, p) \subseteq L \cup {p}
  <2> SUFFICES ASSUME NEW j \in places, p <= j, j # p PROVE j \in L
    BY DEF Memory!From
  <2>1. ~(j <= p)
    BY <1>2, <1>7
  <2> QED
    BY <1>6, <2>1
<1>9. Cardinality(L) >= MaxWorks
  <2>1. IsFiniteSet(L \cup {p}) /\ Cardinality(L \cup {p}) = Cardinality(L) + 1
    <3>1. p \notin L
      BY <1>6
    <3> HIDE DEF L, older
    <3> QED
      BY <1>5, <3>1, FS_AddElement
  <2> HIDE DEF L, older
  <2>2. Cardinality(Memory!From(places, p)) <= Cardinality(L \cup {p})
    BY <1>8, <2>1, FS_Subset
  <2> QED
    BY <1>3, <1>4, <1>5, <1>7, <2>1, <2>2
<1>10. ASSUME NEW q \in L PROVE q \in places /\ k < q
  <2>1. q \in places /\ Cardinality(Memory!From(places, q)) <= MaxWorks /\ ~(Cardinality(Memory!From(places, k)) <= MaxWorks)
    BY <1>1
  <2>2. ASSUME q <= k PROVE FALSE
    <3>1. Memory!From(places, k) \subseteq Memory!From(places, q)
      <4>1. k \in Nat /\ q \in Nat /\ \A j \in places : j \in Nat
        BY <1>2, <2>1
      <4>2. \A j \in places : k <= j => q <= j
        BY <2>2, <4>1
      <4> QED
        BY <4>2 DEF Memory!From
    <3>2. IsFiniteSet(Memory!From(places, q)) /\ Cardinality(Memory!From(places, q)) \in Nat /\ Cardinality(Memory!From(places, k)) \in Nat
      BY <1>3, <2>1
    <3>3. Cardinality(Memory!From(places, k)) <= Cardinality(Memory!From(places, q))
      BY <3>1, <3>2, FS_Subset
    <3> QED
      BY <1>4, <2>1, <3>2, <3>3
  <2> QED
    BY <1>2, <2>1, <2>2
<1> QED
  BY <1>5, <1>9, <1>10

(* As many works are shown as there are places that they are shown from.     *)
LEMMA WorksDiffer ==
    ASSUME Memory!MemoryInv, NEW n \in Nat, n <= Len(s1),
           IsFiniteSet(Memory!Latest(Memory!WorksAmong(n)))
    PROVE  Cardinality(Memory!ShownWorks(n)) = Cardinality(Memory!Latest(Memory!WorksAmong(n)))
<1> DEFINE L == Memory!Latest(Memory!WorksAmong(n))
           f == [i \in L |-> s1[i].data]
<1>1. /\ s1 \in Seq(Memory!Entries) /\ s6 \in Seq(Memory!Recordable) /\ Memory!Sourced
  BY DEF Memory!MemoryInv, Memory!MemoryShape
<1>2. \A i \in L : i \in DOMAIN s1 /\ s1[i].kind = "work"
  BY <1>1 DEF Memory!Latest, Memory!WorksAmong
<1>3. Memory!ShownWorks(n) = {s1[i].data : i \in L}
  BY DEF Memory!ShownWorks
<1> HIDE DEF L
<1>4. ASSUME NEW i \in L, NEW j \in L, s1[i].data = s1[j].data
      PROVE  i = j
  <2>1. /\ i \in DOMAIN s1 /\ s1[i].kind = "work" /\ j \in DOMAIN s1 /\ s1[j].kind = "work"
    BY <1>2
  <2>2. /\ \E h \in DOMAIN s6 : s1[i] = Memory!Entry(s6[h])
        /\ \E h \in DOMAIN s6 : s1[j] = Memory!Entry(s6[h])
    BY <1>1, <2>1 DEF Memory!Sourced
  <2>3. s1[i] = s1[j]
    BY <1>4, <2>1, <2>2 DEF Memory!Entry
  <2> QED
    BY <2>1, <2>3, EntriesDiffer
<1>5. f \in Bijection(L, Memory!ShownWorks(n))
  BY <1>3, <1>4 DEF Bijection, Injection, Surjection, IsInjective
<1>6. IsFiniteSet(L)
  BY DEF L
<1>7. Cardinality(Memory!ShownWorks(n)) = Cardinality(L)
  BY <1>5, <1>6, FS_Bijection DEF ExistsBijection
<1> QED
  BY <1>7 DEF L

(* A work that a handoff holds is shown, or outnumbered by newer ones.       *)
LEMMA WorkIsShown ==
    ASSUME Memory!MemoryInv, NEW i \in DOMAIN s7, s7[i] \in Works,
           Memory!HoldsUpto(s7, s2.upto)
    PROVE  Memory!Stored(s7[i]) \in Memory!ShownWorks(s2.upto) \/ Memory!Outnumbered(i)
<1> DEFINE n == s2.upto
           W == Memory!WorksAmong(n)
           L == Memory!Latest(W)
<1>1. /\ s7 \in Seq(Memory!Recordable) /\ s6 \in Seq(Memory!Recordable)
      /\ s1 \in Seq(Memory!Entries) /\ n \in Nat /\ n <= Len(s1)
      /\ Memory!Sourced /\ Memory!InOrder /\ Memory!Began(s7)
  BY DEF Memory!MemoryInv, Memory!MemoryShape, Memory!HoldsUpto
<1>2. \A j \in DOMAIN s7 : j \in DOMAIN s6 /\ s7[j] = s6[j] /\ s7[j] \in Memory!Recordable
  BY <1>1 DEF Memory!Began
<1>3. \A d \in Works : /\ Memory!Entry(d).kind = "work" /\ Memory!Entry(d).data = Memory!Stored(d)
                        /\ Memory!Entry(d).upto = 0
  BY MemoryAssumption DEF Memory!Entry, Memory!Kind
<1>4. PICK k \in 1..n : s1[k] = Memory!Entry(s7[i])
  BY DEF Memory!HoldsUpto
<1>5. k \in W /\ s1[k].kind = "work" /\ s1[k].data = Memory!Stored(s7[i]) /\ k \in DOMAIN s1
  BY <1>1, <1>3, <1>4 DEF Memory!WorksAmong
<1>6. CASE k \in L
  BY <1>5, <1>6 DEF Memory!ShownWorks
<1>7. CASE k \notin L
  <2>1. /\ IsFiniteSet(L) /\ Cardinality(L) >= MaxWorks
        /\ \A p \in L : p \in W /\ k < p
    <3>1. W \subseteq 1..n
      BY DEF Memory!WorksAmong
    <3> HIDE DEF W, n
    <3> QED
      BY <1>1, <1>5, <1>7, <3>1, LatestAreMany
  <2>2. Cardinality(Memory!ShownWorks(n)) >= MaxWorks
    BY <1>1, <2>1, WorksDiffer
  <2>3. PICK first \in 1..i :
            /\ Memory!Entry(s6[first]) = Memory!Entry(s6[i])
            /\ \A h \in DOMAIN s6 : Memory!Entry(s6[h]) = Memory!Entry(s6[i]) => first <= h
    BY <1>1, <1>2, FirstTime
  <2>4. i \in 1..Len(s7) /\ \A j \in 1..first : j \in DOMAIN s7
    BY <1>1, <2>3
  <2>5. first \in DOMAIN s7 /\ Memory!Entry(s7[first]) = Memory!Entry(s7[i])
    BY <1>1, <1>2, <2>3, <2>4
  <2>6. ASSUME NEW j \in 1..first, s7[j] \in Works, Memory!Stored(s7[j]) \in Memory!ShownWorks(n)
        PROVE  FALSE
    <3>1. PICK p \in L : s1[p].data = Memory!Stored(s7[j])
      BY <2>6 DEF Memory!ShownWorks
    <3>2. p \in DOMAIN s1 /\ s1[p].kind = "work" /\ k < p
      BY <1>1, <2>1, <3>1 DEF Memory!WorksAmong
    <3>3. PICK h \in DOMAIN s6 : s1[p] = Memory!Entry(s6[h])
      BY <1>1, <3>2 DEF Memory!Sourced
    <3>4. s1[p] = Memory!Entry(s7[j])
      BY <1>3, <2>6, <3>1, <3>2, <3>3 DEF Memory!Entry
    <3>5. j \in DOMAIN s6 /\ s6[j] = s7[j]
      BY <1>2, <2>4
    <3>6. PICK g \in DOMAIN s6 : g < j /\ s1[k] = Memory!Entry(s6[g])
      BY <1>1, <1>5, <3>2, <3>4, <3>5 DEF Memory!InOrder
    <3>7. first <= g
      BY <1>2, <1>4, <2>3, <3>6
    <3> QED
      BY <1>1, <2>3, <3>6, <3>7
  <2>7. \E one \in 1..i :
           /\ Memory!Entry(s7[one]) = Memory!Entry(s7[i])
           /\ \A j \in 1..one : s7[j] \in Works => Memory!Stored(s7[j]) \notin Memory!ShownWorks(n)
    BY <2>5, <2>6
  <2> QED
    BY <2>2, <2>7, CountedAlike, Zenon DEF Memory!Outnumbered
<1> QED
  BY <1>6, <1>7

(* Why the invariant says what was handed over: the latest policy of what is *)
(* listed is that of the last policy recorded, or was recorded since.        *)
LEMMA InvIsHandedOver ==
    ASSUME Memory!MemoryInv
    PROVE  Memory!HandedOver
<1> DEFINE policies == {i \in DOMAIN s7 : s7[i] \in Policies \ Oversized}
           back == \E i, j \in policies : i < j /\ s7[i] = s7[j]
           since == {s6[i] : i \in (Len(s7) + 1)..Len(s6)}
           n == s2.upto
<1>1. /\ s7 \in Seq(Memory!Recordable) /\ s6 \in Seq(Memory!Recordable)
      /\ s1 \in Seq(Memory!Entries) /\ n \in Nat
  BY DEF Memory!MemoryInv, Memory!MemoryShape
<1>2. SUFFICES ASSUME ~s8
               PROVE  /\ \A i \in DOMAIN s7 :
                            /\ s7[i] \in Accepted \ Oversized =>
                                  s7[i] \in Memory!ShownDecisions(n)
                            /\ s7[i] \in Works =>
                                  \/ Memory!Stored(s7[i]) \in Memory!ShownWorks(n)
                                  \/ Memory!Outnumbered(i)
                      /\ policies # {} /\ ~back =>
                            Memory!LatestPolicy(n) \in {s7[Memory!LastOf(policies)]} \cup since
  BY DEF Memory!HandedOver
<1>3. n <= Len(s1) /\ \A i \in DOMAIN s7 : \E k \in 1..n : s1[k] = Memory!Entry(s7[i])
  BY <1>2 DEF Memory!MemoryInv, Memory!HoldsUpto
<1>4. \A i \in DOMAIN s7 : s7[i] \in Memory!Recordable
  BY <1>1
<1>5. ASSUME NEW i \in DOMAIN s7, s7[i] \in Accepted \ Oversized
      PROVE  s7[i] \in Memory!ShownDecisions(n)
  <2>1. PICK k \in 1..n : s1[k] = Memory!Entry(s7[i])
    BY <1>3
  <2>2. s7[i] \in Decisions /\ Memory!Stored(s7[i]) = s7[i]
    BY <1>4, <1>5, EntryFacts, MemoryAssumption
  <2>3. s1[k].kind = "decision" /\ s1[k].data = s7[i]
    BY <2>1, <2>2 DEF Memory!Entry, Memory!Kind
  <2> QED
    BY <1>5, <2>3 DEF Memory!ShownDecisions
<1>7. \A i \in DOMAIN s7 :
          s7[i] \in Works => Memory!Stored(s7[i]) \in Memory!ShownWorks(n) \/ Memory!Outnumbered(i)
  BY <1>2, WorkIsShown DEF Memory!MemoryInv
<1>6. ASSUME policies # {}, ~back
      PROVE  Memory!LatestPolicy(n) \in {s7[Memory!LastOf(policies)]} \cup since
  <2> DEFINE last == Memory!LastOf(policies)
             listed == {i \in 1..n : s1[i].kind = "policy" /\ s1[i].data # "truncated"}
             j == Memory!LastOf(listed)
  <2>1. last \in policies /\ \A i \in policies : i <= last
    <3>1. policies \subseteq Nat /\ Len(s7) \in Nat /\ \A i \in policies : i <= Len(s7)
      BY <1>1
    <3> HIDE DEF policies
    <3>2. \E i \in policies : \A h \in policies : h <= i
      BY <1>6, <3>1, GreatestThereIs
    <3> QED
      BY <3>2 DEF Memory!LastOf
  <2>2. /\ last \in DOMAIN s7 /\ s7[last] \in Policies \ Oversized
        /\ s7[last] \in Memory!Recordable
    BY <1>4, <2>1
  <2>3. PICK k \in 1..n : s1[k] = Memory!Entry(s7[last])
    BY <1>3, <2>2
  <2>4. s1[k].kind = "policy" /\ s1[k].data = s7[last] /\ s7[last] # "truncated"
    BY <2>2, <2>3, EntryFacts
  <2>5. k \in listed
    BY <2>4
  <2>6. j \in listed /\ \A i \in listed : i <= j
    <3>1. listed \subseteq Nat /\ \A i \in listed : i <= n
      BY <1>1
    <3> HIDE DEF listed
    <3>2. \E i \in listed : \A h \in listed : h <= i
      BY <1>1, <2>5, <3>1, GreatestThereIs
    <3> QED
      BY <3>2 DEF Memory!LastOf
  <2>7. Memory!LatestPolicy(n) = s1[j].data
    BY <2>5 DEF Memory!LatestPolicy
  <2> HIDE DEF last, j
  <2>8. j \in DOMAIN s1 /\ k \in DOMAIN s1 /\ s1[j].kind = "policy" /\ s1[j].data # "truncated"
    BY <1>1, <1>3, <2>6
  <2>9. PICK i \in DOMAIN s6 : s1[j] = Memory!Entry(s6[i])
    BY <2>8 DEF Memory!MemoryInv, Memory!Sourced
  <2>10. /\ s6[i] \in Memory!Recordable /\ s1[j].data = s6[i]
         /\ s6[i] \in Policies \ Oversized
    <3>1. s6[i] \in Memory!Recordable
      BY <1>1
    <3>2. Memory!Kind(s6[i]) = "policy" /\ Memory!Stored(s6[i]) # "truncated"
      BY <2>8, <2>9, <3>1, EntryFacts
    <3> QED
      BY <2>9, <3>1, <3>2, EntryFacts
  <2>11. CASE i > Len(s7)
    <3>1. i \in (Len(s7) + 1)..Len(s6)
      BY <1>1, <2>11
    <3> QED
      BY <2>7, <2>10, <3>1
  <2>12. CASE ~(i > Len(s7))
    <3>1. Memory!Began(s7)
      BY DEF Memory!MemoryInv
    <3>2. i \in DOMAIN s7 /\ s7[i] = s6[i]
      BY <1>1, <2>12, <3>1 DEF Memory!Began
    <3>3. i \in policies
      BY <2>10, <3>2
    <3>4. CASE k = j
      BY <2>4, <2>7, <3>4 DEF last
    <3>5. CASE k # j
      <4>1. k < j
        BY <1>1, <2>5, <2>6, <3>5
      <4>2. PICK h \in DOMAIN s6 : h < i /\ s1[k] = Memory!Entry(s6[h])
        BY <2>4, <2>8, <2>9, <4>1 DEF Memory!MemoryInv, Memory!InOrder
      <4>3. h \in DOMAIN s7 /\ s7[h] = s6[h]
        BY <1>1, <3>1, <3>2, <4>2 DEF Memory!Began
      <4>4. s6[h] = s7[last]
        <5>1. s6[h] \in Memory!Recordable
          BY <1>1
        <5>2. Memory!Stored(s6[h]) = s7[last]
          BY <2>4, <4>2, <5>1, EntryFacts
        <5> QED
          BY <2>4, <5>1, <5>2, EntryFacts
      <4>5. h \in policies
        BY <2>2, <4>3, <4>4
      <4>6. h < last
        BY <1>1, <2>1, <3>2, <3>3, <4>2, <4>3
      <4> QED
        BY <1>6, <2>1, <4>3, <4>4, <4>5, <4>6
    <3> QED
      BY <3>4, <3>5
  <2> QED
    BY <2>11, <2>12
<1> QED
  BY <1>5, <1>6, <1>7

LEMMA MemoryKeeps ==
    ASSUME Memory!MemoryInv, Memory!Next \/ UNCHANGED Memory!vars
    PROVE  Memory!MemoryInv'
<1>1. CASE UNCHANGED Memory!vars
  BY <1>1 DEF Memory!vars, Memory!history_vars, Memory!MemoryInv, Memory!MemoryShape,
              Memory!Logged, Memory!Sourced, Memory!InOrder, Memory!Began,
              Memory!HoldsUpto, Memory!OneAfterTheOther
<1>2. CASE Memory!Next
  BY <1>2, RecordKeeps, MemoryStepKeeps DEF Memory!Next
<1> QED
  BY <1>1, <1>2

(* For any records, threads, snapshots and handoffs: a handoff in the store  *)
(* has the accepted decisions that were recorded before it was asked for and *)
(* were not cut, and the works, but for those that have a list of newer ones *)
(* before them, and its policy is the latest of them or one recorded since,  *)
(* unless two handoffs were in the making at a time, or a policy was         *)
(* recorded again.                                                           *)
THEOREM HandoffsAreWhole == AnySpec => []HandedOver
<1> DEFINE Inv == component = "memory" => Memory!MemoryInv
<1>1. AnyInit => Inv
  BY MemoryBegins DEF AnyInit
<1>2. Inv /\ [AnyNext]_AnyVars => Inv'
  BY Selected, MemoryKeeps
<1>3. Inv => HandedOver
  BY InvIsHandedOver DEF HandedOver
<1> QED
  BY <1>1, <1>2, <1>3, PTL DEF AnySpec, AnyVars
===============================================================================
