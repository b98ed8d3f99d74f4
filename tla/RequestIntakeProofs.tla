------------------------ MODULE RequestIntakeProofs -------------------------
(***************************************************************************)
(* How a request gets into the queue, for any numbers of requests, threads *)
(* and missions: the search for a cycle that the queue makes before it     *)
(* takes a mission, enqueue_batch, the flow from the gate to the answer,   *)
(* and the budgets requests are checked against.                           *)
(***************************************************************************)
EXTENDS MCRequestServices, SequenceTheorems, FiniteSetTheorems,
        WellFoundedInduction, TLAPS

AnyVars == <<component, vars, After0>>

(* A step is one of the component of the behaviour.                          *)
LEMMA Chosen ==
    ASSUME [AnyNext]_AnyVars
    PROVE  /\ component' = component
           /\ component = "adapter" => Adapter!Next \/ UNCHANGED Adapter!vars
           /\ component = "flow" => Flow!Next \/ UNCHANGED Flow!vars
           /\ component = "evaluation" => Evaluation!Next \/ UNCHANGED Evaluation!vars
<1>1. CASE AnyNext
  BY <1>1, Zenon DEF AnyNext
<1>2. CASE UNCHANGED AnyVars
  BY <1>2 DEF AnyVars, After0, After9, After11, After12, After13, After17,
              Adapter!vars, Adapter!queue_vars, Adapter!call_vars, Adapter!history_vars,
              Adapter!bound_vars,
              Flow!vars, Flow!adapter_vars, Flow!flow_vars, Flow!call_vars,
              Flow!adapter_history, Flow!gate_vars, Flow!history_vars,
              Evaluation!vars, Evaluation!read_vars
<1> QED
  BY <1>1, <1>2

-----------------------------------------------------------------------------
(* The search of _validate_no_cycles accepts the acyclic queues only, and    *)
(* raises for the others only: DfsInvariant is inductive together with the   *)
(* types.                                                                    *)

(* What the search knows at every step.                                      *)
IInv == DfsTypeOK /\ DfsInvariant

(* A mission whose edges all lead to black missions can be made black: it    *)
(* closes no cycle with them.                                                *)
LEMMA BlackGrows ==
    ASSUME DfsTypeOK, NoSelfDependency, BlackIsClosed, BlackIsAcyclic,
           verdict # "cycle",
           NEW u \in Known, Edges(u) \subseteq Colored("black"),
           NEW S \in (SUBSET (Colored("black") \cup {u})) \ {{}}
    PROVE  \E n \in S : missions[n].dependencies \cap S = {}
<1>1. u \notin missions[u].dependencies
  BY DEF NoSelfDependency
<1>2. CASE S \ {u} = {}
  <2>1. S = {u}
    BY <1>2
  <2> QED
    BY <1>1, <2>1
<1>3. CASE S \ {u} # {}
  <2>1. S \ {u} \in (SUBSET Colored("black")) \ {{}}
    BY <1>3
  <2>2. PICK n \in S \ {u} : missions[n].dependencies \cap (S \ {u}) = {}
    BY <2>1 DEF BlackIsAcyclic
  <2>3. CASE u \in Colored("black")
    <3>1. S \in (SUBSET Colored("black")) \ {{}}
      BY <2>3
    <3> QED
      BY <3>1 DEF BlackIsAcyclic
  <2>4. CASE u \notin Colored("black")
    <3>1. n \in Colored("black")
      BY <2>2
    <3>2. u \notin missions[n].dependencies
      BY <3>1, <2>4 DEF BlackIsClosed, Edges, Known
    <3> QED
      BY <2>2, <3>2
  <2> QED
    BY <2>3, <2>4
<1> QED
  BY <1>2, <1>3

(* The invariant holds before the first root is taken.                       *)
LEMMA InitIInv == Init => IInv
<1> SUFFICES ASSUME Init PROVE IInv
  OBVIOUS
<1>1. PICK K \in KnownSets : missions \in [K -> [dependencies : SUBSET Nodes]]
  BY DEF Init
<1>2. Known = K /\ missions \in [Known -> [dependencies : SUBSET Nodes]]
  BY <1>1 DEF Known
<1>3. DfsTypeOK
  BY <1>1, <1>2 DEF Init, DfsTypeOK
<1>4. Colored("black") = {} /\ Colored("gray") = {}
  BY DEF Init, Colored
<1>5. GrayIsOpen /\ BlackIsClosed /\ BlackIsAcyclic
  BY <1>4 DEF GrayIsOpen, BlackIsClosed, BlackIsAcyclic
<1>6. DealtWith
  BY DEF Init, DealtWith
<1>7. NoSelfDependency /\ AcceptedIsBlack /\ Trail
  BY DEF Init, NoSelfDependency, AcceptedIsBlack, Trail
<1>8. RaisedIsCyclic
  <2> SUFFICES ASSUME verdict = "cycle" PROVE ~Q!NoCycles(missions)
    BY DEF Init, RaisedIsCyclic
  <2>1. PICK u \in Known : u \in missions[u].dependencies
    BY DEF Init
  <2>2. {u} \in (SUBSET DOMAIN missions) \ {{}} /\ missions[u].dependencies \cap {u} # {}
    BY <2>1 DEF Known
  <2> QED
    BY <2>2 DEF Q!NoCycles
<1> QED
  BY <1>3, <1>5, <1>6, <1>7, <1>8 DEF IInv, DfsInvariant

(* The mission tried next is one of those left to try.                       *)
LEMMA LowestIn ==
    ASSUME NEW S \in SUBSET Known, S # {}, DfsTypeOK
    PROVE  Lowest(S) \in S
BY DfsAssumption DEF Lowest, DfsTypeOK

(* What replacing the last element of a sequence does.                       *)
LEMMA LastReplaced ==
    ASSUME NEW T, NEW s \in Seq(T), NEW e \in T, Len(s) # 0, NEW r,
           r = [s EXCEPT ![Len(s)] = e]
    PROVE  /\ r \in Seq(T)
           /\ Len(r) = Len(s)
           /\ r[Len(s)] = e
           /\ \A i \in 1..Len(s) - 1 : r[i] = s[i]
OBVIOUS

(* What appending an element does.                                          *)
LEMMA Appended ==
    ASSUME NEW T, NEW s \in Seq(T), NEW e \in T
    PROVE  /\ Append(s, e) \in Seq(T)
           /\ Len(Append(s, e)) = Len(s) + 1
           /\ Append(s, e)[Len(s) + 1] = e
           /\ \A i \in 1..Len(s) : Append(s, e)[i] = s[i]
OBVIOUS

(* What taking off the last element does.                                    *)
LEMMA LastRemoved ==
    ASSUME NEW T, NEW s \in Seq(T), Len(s) # 0
    PROVE  /\ SubSeq(s, 1, Len(s) - 1) \in Seq(T)
           /\ Len(SubSeq(s, 1, Len(s) - 1)) = Len(s) - 1
           /\ \A i \in 1..Len(s) - 1 : SubSeq(s, 1, Len(s) - 1)[i] = s[i]
<1> DEFINE n == Len(s) - 1
<1>1. n \in Nat /\ \A i \in 1..n : s[i] \in T
  OBVIOUS
<1>2. /\ SubSeq(s, 1, n) \in Seq(T)
      /\ Len(SubSeq(s, 1, n)) = IF 1 <= n THEN n - 1 + 1 ELSE 0
      /\ \A i \in 1..n - 1 + 1 : SubSeq(s, 1, n)[i] = s[1 + i - 1]
  <2> HIDE DEF n
  <2> QED
    BY <1>1, SubSeqProperties
<1>3. Len(SubSeq(s, 1, n)) = n
  <2> HIDE DEF n
  <2>1. CASE 1 <= n
    BY <1>1, <1>2, <2>1
  <2>2. CASE ~(1 <= n)
    BY <1>1, <1>2, <2>2
  <2> QED
    BY <2>1, <2>2
<1>4. \A i \in 1..n : SubSeq(s, 1, n)[i] = s[i]
  <2> HIDE DEF n
  <2> QED
    BY <1>1, <1>2
<1> QED
  BY <1>2, <1>3, <1>4

(* A sequence that is not empty has a last element.                          *)
LEMMA NotEmpty ==
    ASSUME NEW T, NEW s \in Seq(T), s # <<>>
    PROVE  Len(s) \in Nat \ {0} /\ s[Len(s)] \in T
OBVIOUS

(* What a sequence holds is of its type.                                     *)
LEMMA ElementIn ==
    ASSUME NEW T, NEW s \in Seq(T)
    PROVE  \A i \in 1..Len(s) : s[i] \in T
OBVIOUS

(* An open search has a well-formed activation on top.                       *)
LEMMA TopTyped ==
    ASSUME DfsTypeOK, stack # <<>>
    PROVE  /\ Len(stack) \in Nat \ {0}
           /\ Top \in [node : Known, rest : SUBSET Known]
BY NotEmpty DEF DfsTypeOK, Top

(* Every step of the search keeps the invariant.                             *)
LEMMA NextIInv == IInv /\ [Next]_vars => IInv'
<1> SUFFICES ASSUME IInv, [Next]_vars PROVE IInv'
  OBVIOUS
<1> USE DEF IInv, DfsInvariant
<1>1. missions' = missions /\ Known' = Known /\ \A u : Edges(u)' = Edges(u)
  BY DEF Next, Root, Accept, Descend, BackEdge, PassOver, Return, vars, Known, Edges
<1>2. /\ stack \in Seq([node : Known, rest : SUBSET Known])
      /\ color \in [Known -> {"white", "gray", "black"}]
      /\ verdict \in {"searching", "accepted", "cycle"}
      /\ \A u \in Known : Edges(u) \subseteq Known
  BY DEF DfsTypeOK, Edges
<1>3. CASE Root
  <2>1. PICK u \in Known :
             /\ color[u] = "white"
             /\ color' = [color EXCEPT ![u] = "gray"]
             /\ stack' = <<[node |-> u, rest |-> Edges(u)]>>
    BY <1>3, LowestIn DEF Root, Colored, Frame
  <2>2. stack = <<>> /\ verdict' = verdict /\ verdict = "searching"
    BY <1>3 DEF Root
  <2>3. Colored("black")' = Colored("black") /\ Colored("gray")' = {u}
    BY <1>1, <1>2, <2>1, <2>2 DEF Colored, GrayIsOpen
  <2>4. DfsTypeOK'
    BY <1>1, <1>2, <2>1, <2>2 DEF DfsTypeOK
  <2>5. GrayIsOpen'
    BY <2>1, <2>3 DEF GrayIsOpen
  <2>6. DealtWith' /\ Trail'
    BY <1>1, <1>2, <2>1 DEF DealtWith, Trail, Edges, Known
  <2> QED
    BY <1>1, <2>2, <2>3, <2>4, <2>5, <2>6
       DEF BlackIsClosed, BlackIsAcyclic, NoSelfDependency, AcceptedIsBlack, RaisedIsCyclic
<1>4. CASE Accept
  <2>1. /\ stack = <<>> /\ Colored("white") = {}
        /\ UNCHANGED <<missions, color, stack>>
        /\ verdict = "searching" /\ verdict' = "accepted"
    BY <1>4 DEF Accept
  <2>2. Colored("gray") = {}
    BY <2>1 DEF GrayIsOpen
  <2>3. Colored("black") = Known
    BY <1>2, <2>1, <2>2 DEF Colored
  <2> QED
    BY <1>1, <2>1, <2>3
       DEF DfsTypeOK, GrayIsOpen, BlackIsClosed, BlackIsAcyclic, DealtWith, Trail,
           NoSelfDependency, AcceptedIsBlack, RaisedIsCyclic, Colored, Edges, Known
<1>5. CASE Descend
  <2> DEFINE n == Len(stack)
  <2>1. PICK v \in Known :
             /\ v \in stack[n].rest
             /\ color[v] = "white"
             /\ color' = [color EXCEPT ![v] = "gray"]
             /\ stack' = Append(
                    [stack EXCEPT ![n] = [node |-> stack[n].node,
                                          rest |-> stack[n].rest \ {v}]],
                    [node |-> v, rest |-> Edges(v)])
    BY <1>2, <1>5, TopTyped, LowestIn DEF Descend, Top, Tried, Frame
  <2>2. stack # <<>> /\ verdict' = verdict /\ verdict = "searching"
    BY <1>5 DEF Descend
  <2>3. n \in Nat \ {0} /\ stack[n] \in [node : Known, rest : SUBSET Known]
    BY <2>2, TopTyped DEF Top
  <2>4. /\ Len(stack') = n + 1
        /\ stack'[n + 1] = [node |-> v, rest |-> Edges(v)]
        /\ stack'[n] = [node |-> stack[n].node, rest |-> stack[n].rest \ {v}]
        /\ \A i \in 1..n - 1 : stack'[i] = stack[i]
        /\ stack' \in Seq([node : Known, rest : SUBSET Known])
    <3> DEFINE T == [node : Known, rest : SUBSET Known]
               e == [node |-> stack[n].node, rest |-> stack[n].rest \ {v}]
               f == [node |-> v, rest |-> Edges(v)]
               r == [stack EXCEPT ![n] = e]
    <3>1. e \in T /\ f \in T
      BY <1>2, <2>3
    <3>3. stack \in Seq(T) /\ Len(stack) # 0
      BY <1>2, <2>3
    <3>4. /\ r \in Seq(T) /\ Len(r) = n /\ r[n] = e
          /\ \A i \in 1..n - 1 : r[i] = stack[i]
      <4> HIDE DEF T, e
      <4> QED
        BY <3>1, <3>3, LastReplaced
    <3>5. stack' = Append(r, f)
      BY <2>1
    <3> HIDE DEF T, e, f, r
    <3>6. /\ Append(r, f) \in Seq(T)
          /\ Len(Append(r, f)) = Len(r) + 1
          /\ Append(r, f)[Len(r) + 1] = f
          /\ \A i \in 1..Len(r) : Append(r, f)[i] = r[i]
      BY <3>1, <3>4, Appended
    <3>7. /\ stack' \in Seq(T) /\ Len(stack') = n + 1 /\ stack'[n + 1] = f
          /\ stack'[n] = e /\ \A i \in 1..n - 1 : stack'[i] = stack[i]
      BY <2>3, <3>4, <3>5, <3>6
    <3> QED
      BY <3>7 DEF T, e, f
  <2>5. Colored("black")' = Colored("black") /\ Colored("gray")' = Colored("gray") \cup {v}
    BY <1>1, <1>2, <2>1 DEF Colored
  <2>6. DfsTypeOK'
    BY <1>1, <1>2, <2>1, <2>2, <2>4 DEF DfsTypeOK
  <2>7. GrayIsOpen'
    <3> SUFFICES ASSUME NEW u \in Colored("gray")'
                 PROVE  \E i \in 1..Len(stack') : stack'[i].node = u
      BY DEF GrayIsOpen
    <3>1. CASE u = v
      BY <2>3, <2>4, <3>1
    <3>2. CASE u \in Colored("gray")
      <4>1. PICK i \in 1..n : stack[i].node = u
        BY <3>2 DEF GrayIsOpen
      <4>2. i \in 1..Len(stack') /\ stack'[i].node = u
        BY <2>3, <2>4, <4>1
      <4> QED
        BY <4>2
    <3> QED
      BY <2>5, <3>1, <3>2
  <2>8. DealtWith'
    <3> SUFFICES ASSUME NEW i \in 1..n + 1,
                        NEW w \in Edges(stack'[i].node) \ stack'[i].rest
                 PROVE  color'[w] = "black" \/ (i < n + 1 /\ stack'[i + 1].node = w)
      BY <1>1, <2>4 DEF DealtWith, Edges
    <3>1. CASE i = n + 1
      BY <2>3, <2>4, <3>1
    <3>2. CASE i = n
      <4>1. CASE w = v
        BY <2>3, <2>4, <3>2, <4>1
      <4>2. CASE w # v
        <5>1. w \in Edges(stack[n].node) \ stack[n].rest
          BY <2>3, <2>4, <3>2, <4>2
        <5>2. color[w] = "black"
          BY <2>3, <5>1 DEF DealtWith
        <5> QED
          BY <2>1, <4>2, <5>2, <1>2
      <4> QED
        BY <4>1, <4>2
    <3>3. CASE i \in 1..n - 1
      <4>1. w \in Edges(stack[i].node) \ stack[i].rest
        BY <2>3, <2>4, <3>3
      <4>2. color[w] = "black" \/ stack[i + 1].node = w
        BY <2>3, <3>3, <4>1 DEF DealtWith
      <4>3. stack'[i + 1].node = stack[i + 1].node
        BY <2>3, <2>4, <3>3
      <4>4. color[w] = "black" => color'[w] = "black"
        BY <1>2, <2>1
      <4> QED
        BY <2>3, <3>3, <4>2, <4>3, <4>4
    <3> QED
      BY <2>3, <3>1, <3>2, <3>3
  <2>9. Trail'
    <3> SUFFICES ASSUME NEW i \in 1..n + 1
                 PROVE  /\ stack'[i].rest \subseteq Edges(stack'[i].node)
                        /\ i < n + 1 => stack'[i + 1].node \in Edges(stack'[i].node)
      BY <1>1, <2>4 DEF Trail
    <3>1. CASE i = n + 1
      BY <2>3, <2>4, <3>1
    <3>2. CASE i = n
      <4>1. stack[n].rest \subseteq Edges(stack[n].node)
        BY <2>3 DEF Trail
      <4> QED
        BY <2>1, <2>3, <2>4, <3>2, <4>1
    <3>3. CASE i \in 1..n - 1
      <4>1. /\ stack[i].rest \subseteq Edges(stack[i].node)
            /\ stack[i + 1].node \in Edges(stack[i].node)
        BY <2>3, <3>3 DEF Trail
      <4>2. stack'[i] = stack[i] /\ stack'[i + 1].node = stack[i + 1].node
        BY <2>3, <2>4, <3>3
      <4> QED
        BY <4>1, <4>2
    <3> QED
      BY <2>3, <3>1, <3>2, <3>3
  <2> QED
    BY <1>1, <2>2, <2>5, <2>6, <2>7, <2>8, <2>9
       DEF BlackIsClosed, BlackIsAcyclic, NoSelfDependency, AcceptedIsBlack, RaisedIsCyclic
<1>6. CASE BackEdge
  <2> DEFINE n == Len(stack)
  <2>1. UNCHANGED <<missions, color, stack>> /\ verdict = "searching" /\ verdict' = "cycle"
    BY <1>6 DEF BackEdge
  <2>2. n \in Nat \ {0} /\ stack[n] \in [node : Known, rest : SUBSET Known]
    BY <1>6, TopTyped DEF BackEdge, Top
  <2>3. PICK v \in stack[n].rest :
             color[v] = "gray" /\ path' = Append([i \in 1..n |-> stack[i].node], v)
    BY <1>6, <2>2, LowestIn DEF BackEdge, Top
  <2>4. v \in Known /\ v \in Edges(stack[n].node)
    BY <2>2, <2>3 DEF Trail
  <2>5. PICK k \in 1..n : stack[k].node = v
    BY <2>3, <2>4 DEF GrayIsOpen, Colored
  <2>6. \A i \in 1..n - 1 : stack[i + 1].node \in Edges(stack[i].node)
    BY <2>2 DEF Trail
  <2>7. \A i \in 1..n : stack[i].node \in Known
    <3>1. \A i \in 1..n : stack[i] \in [node : Known, rest : SUBSET Known]
      BY <1>2, ElementIn
    <3> QED
      BY <3>1
  <2>8. ~Q!NoCycles(missions)
    <3> DEFINE S == {stack[i].node : i \in k..n}
    <3>1. S \in (SUBSET DOMAIN missions) \ {{}}
      BY <2>2, <2>5, <2>7 DEF Known
    <3>2. ASSUME NEW m \in S PROVE missions[m].dependencies \cap S # {}
      <4>1. PICK i \in k..n : m = stack[i].node
        OBVIOUS
      <4>2. CASE i = n
        <5>1. v \in S /\ v \in missions[m].dependencies
          BY <2>2, <2>4, <2>5, <4>1, <4>2 DEF Edges
        <5> QED
          BY <5>1
      <4>3. CASE i # n
        <5>1. i \in 1..n - 1 /\ i + 1 \in k..n
          BY <2>2, <4>1, <4>3
        <5>2. stack[i + 1].node \in S /\ stack[i + 1].node \in missions[m].dependencies
          BY <2>6, <4>1, <5>1 DEF Edges
        <5> QED
          BY <5>2
      <4> QED
        BY <4>2, <4>3
    <3> QED
      BY <3>1, <3>2 DEF Q!NoCycles
  <2>9. /\ Len(path') = n + 1 /\ path'[n + 1] = v
        /\ \A i \in 1..n : path'[i] = stack[i].node
    <3> DEFINE nodes == [i \in 1..n |-> stack[i].node]
    <3>1. nodes \in Seq(Known) /\ Len(nodes) = n /\ \A i \in 1..n : nodes[i] = stack[i].node
      BY <2>2, <2>7
    <3>2. path' = Append(nodes, v)
      BY <2>3
    <3> HIDE DEF nodes
    <3> QED
      BY <2>2, <2>4, <3>1, <3>2, Appended
  <2>10. \A i \in 1..Len(path') - 1 : path'[i + 1] \in missions[path'[i]].dependencies
    <3> SUFFICES ASSUME NEW i \in 1..n
                 PROVE  path'[i + 1] \in missions[path'[i]].dependencies
      BY <2>2, <2>9
    <3>1. CASE i = n
      BY <2>2, <2>4, <2>9, <3>1 DEF Edges
    <3>2. CASE i # n
      <4>1. i \in 1..n - 1 /\ i + 1 \in 1..n
        BY <2>2, <3>2
      <4> QED
        BY <2>6, <2>9, <4>1 DEF Edges
    <3> QED
      BY <3>1, <3>2
  <2>11. \E i \in 1..Len(path') - 1 : path'[i] = path'[Len(path')]
    BY <2>2, <2>5, <2>9
  <2>12. RaisedIsCyclic'
    BY <1>1, <2>8, <2>10, <2>11 DEF RaisedIsCyclic, Q!NoCycles
  <2>13. Colored("gray")' = Colored("gray") /\ Colored("black")' = Colored("black")
    BY <1>1, <2>1 DEF Colored
  <2>14. DfsTypeOK' /\ GrayIsOpen' /\ BlackIsClosed' /\ BlackIsAcyclic'
    BY <1>1, <2>1, <2>13 DEF DfsTypeOK, GrayIsOpen, BlackIsClosed, BlackIsAcyclic
  <2>15. DealtWith' /\ Trail'
    BY <1>1, <2>1 DEF DealtWith, Trail
  <2>16. NoSelfDependency' /\ AcceptedIsBlack'
    BY <2>1 DEF NoSelfDependency, AcceptedIsBlack
  <2> QED
    BY <2>12, <2>14, <2>15, <2>16
<1>7. CASE PassOver
  <2> DEFINE n == Len(stack)
  <2>1. PICK v \in Known :
             /\ color[v] = "black"
             /\ stack' = [stack EXCEPT ![n] = [node |-> stack[n].node,
                                                 rest |-> stack[n].rest \ {v}]]
    BY <1>2, <1>7, TopTyped, LowestIn DEF PassOver, Top, Tried
  <2>2. stack # <<>> /\ verdict = "searching" /\ verdict' = verdict /\ color' = color
    BY <1>7 DEF PassOver
  <2>3. n \in Nat \ {0} /\ stack[n] \in [node : Known, rest : SUBSET Known]
    BY <2>2, TopTyped DEF Top
  <2>4. /\ Len(stack') = n
        /\ stack'[n] = [node |-> stack[n].node, rest |-> stack[n].rest \ {v}]
        /\ \A i \in 1..n : stack'[i].node = stack[i].node
        /\ \A i \in 1..n - 1 : stack'[i] = stack[i]
        /\ stack' \in Seq([node : Known, rest : SUBSET Known])
    <3> DEFINE T == [node : Known, rest : SUBSET Known]
               e == [node |-> stack[n].node, rest |-> stack[n].rest \ {v}]
    <3>1. e \in T
      BY <1>2, <2>3
    <3>2. stack' = [stack EXCEPT ![n] = e]
      BY <2>1
    <3>3. stack \in Seq(T) /\ Len(stack) # 0
      BY <1>2, <2>3
    <3>4. e.node = stack[n].node
      OBVIOUS
    <3>5. /\ stack' \in Seq(T) /\ Len(stack') = n /\ stack'[n] = e
          /\ \A i \in 1..n - 1 : stack'[i] = stack[i]
      <4> HIDE DEF T, e
      <4> QED
        BY <3>1, <3>2, <3>3, LastReplaced
    <3>6. \A i \in 1..n : stack'[i].node = stack[i].node
      <4> HIDE DEF T, e
      <4> QED
        BY <2>3, <3>4, <3>5
    <3> QED
      BY <3>5, <3>6 DEF T, e
  <2>5. DfsTypeOK'
    BY <1>1, <1>2, <2>2, <2>4 DEF DfsTypeOK
  <2>6. GrayIsOpen'
    BY <1>1, <2>2, <2>4 DEF GrayIsOpen, Colored
  <2>7. DealtWith'
    <3> SUFFICES ASSUME NEW i \in 1..n,
                        NEW w \in Edges(stack'[i].node) \ stack'[i].rest
                 PROVE  color[w] = "black" \/ (i < n /\ stack'[i + 1].node = w)
      BY <1>1, <2>2, <2>4 DEF DealtWith, Edges
    <3>1. CASE w = v
      BY <2>1, <3>1
    <3>2. CASE w # v
      <4>1. w \in Edges(stack[i].node) \ stack[i].rest
        BY <2>3, <2>4, <3>2
      <4>2. color[w] = "black" \/ (i < n /\ stack[i + 1].node = w)
        BY <4>1 DEF DealtWith
      <4> QED
        BY <2>3, <2>4, <4>2
    <3> QED
      BY <3>1, <3>2
  <2>8. Trail'
    <3> SUFFICES ASSUME NEW i \in 1..n
                 PROVE  /\ stack'[i].rest \subseteq Edges(stack'[i].node)
                        /\ i < n => stack'[i + 1].node \in Edges(stack'[i].node)
      BY <1>1, <2>4 DEF Trail
    <3>1. /\ stack[i].rest \subseteq Edges(stack[i].node)
          /\ i < n => stack[i + 1].node \in Edges(stack[i].node)
      BY DEF Trail
    <3>2. stack'[i].rest \subseteq stack[i].rest
      BY <2>3, <2>4
    <3>3. i < n => i + 1 \in 1..n
      BY <2>3
    <3> QED
      BY <2>4, <3>1, <3>2, <3>3
  <2> QED
    BY <1>1, <2>2, <2>5, <2>6, <2>7, <2>8
       DEF BlackIsClosed, BlackIsAcyclic, NoSelfDependency, AcceptedIsBlack, RaisedIsCyclic,
           Colored
<1>8. CASE Return
  <2> DEFINE n == Len(stack)
             u == stack[n].node
  <2>1. /\ stack # <<>> /\ stack[n].rest = {}
        /\ color' = [color EXCEPT ![u] = "black"]
        /\ stack' = SubSeq(stack, 1, n - 1)
        /\ verdict' = verdict /\ verdict = "searching"
    BY <1>8 DEF Return, Top
  <2>2. n \in Nat \ {0} /\ stack[n] \in [node : Known, rest : SUBSET Known]
    BY <2>1, TopTyped DEF Top
  <2>3. u \in Known
    BY <2>2
  <2>4. /\ Len(stack') = n - 1
        /\ \A i \in 1..n - 1 : stack'[i] = stack[i]
        /\ stack' \in Seq([node : Known, rest : SUBSET Known])
    BY <1>2, <2>1, <2>2, LastRemoved
  <2>5. /\ Colored("black")' = Colored("black") \cup {u}
        /\ Colored("gray")' = Colored("gray") \ {u}
    BY <1>1, <1>2, <2>1, <2>3 DEF Colored
  <2>6. Edges(u) \subseteq Colored("black")
    <3> SUFFICES ASSUME NEW w \in Edges(u) PROVE color[w] = "black"
      BY <1>2, <2>3 DEF Colored
    <3>1. w \in Edges(stack[n].node) \ stack[n].rest
      BY <2>1
    <3> QED
      BY <2>2, <3>1 DEF DealtWith
  <2>7. DfsTypeOK'
    BY <1>1, <1>2, <2>1, <2>3, <2>4 DEF DfsTypeOK
  <2>8. GrayIsOpen'
    <3> SUFFICES ASSUME NEW w \in Colored("gray")'
                 PROVE  \E i \in 1..Len(stack') : stack'[i].node = w
      BY DEF GrayIsOpen
    <3>1. PICK i \in 1..n : stack[i].node = w
      BY <2>5 DEF GrayIsOpen
    <3>2. i # n
      BY <2>5, <3>1
    <3>3. i \in 1..Len(stack') /\ stack'[i].node = w
      BY <2>2, <2>4, <3>1, <3>2
    <3> QED
      BY <3>3
  <2>9. BlackIsClosed'
    BY <1>1, <2>5, <2>6 DEF BlackIsClosed
  <2>10. BlackIsAcyclic'
    <3>1. \A S \in (SUBSET (Colored("black") \cup {u})) \ {{}} :
             \E k \in S : missions[k].dependencies \cap S = {}
      BY <2>1, <2>3, <2>6, BlackGrows
    <3> QED
      BY <1>1, <2>5, <3>1 DEF BlackIsAcyclic
  <2>11. DealtWith'
    <3> SUFFICES ASSUME NEW i \in 1..n - 1,
                        NEW w \in Edges(stack[i].node) \ stack[i].rest
                 PROVE  color'[w] = "black" \/ (i < n - 1 /\ stack'[i + 1].node = w)
      BY <1>1, <2>4 DEF DealtWith, Edges
    <3>1. color[w] = "black" \/ stack[i + 1].node = w
      BY <2>2 DEF DealtWith
    <3>2. CASE color[w] = "black"
      BY <1>2, <2>1, <2>3, <3>2
    <3>3. CASE stack[i + 1].node = w /\ i + 1 = n
      BY <1>2, <2>1, <2>3, <3>3
    <3>4. CASE stack[i + 1].node = w /\ i + 1 # n
      BY <2>2, <2>4, <3>4
    <3> QED
      BY <3>1, <3>2, <3>3, <3>4
  <2>12. NoSelfDependency' /\ AcceptedIsBlack' /\ RaisedIsCyclic'
    BY <1>1, <2>1 DEF NoSelfDependency, AcceptedIsBlack, RaisedIsCyclic
  <2>13. Trail'
    <3> SUFFICES ASSUME NEW i \in 1..n - 1
                 PROVE  /\ stack[i].rest \subseteq Edges(stack[i].node)
                        /\ i < n - 1 => stack'[i + 1].node \in Edges(stack[i].node)
      BY <1>1, <2>4 DEF Trail
    <3>1. /\ stack[i].rest \subseteq Edges(stack[i].node)
          /\ stack[i + 1].node \in Edges(stack[i].node)
      BY <2>2 DEF Trail
    <3>2. i < n - 1 => stack'[i + 1] = stack[i + 1]
      BY <2>2, <2>4
    <3> QED
      BY <3>1, <3>2
  <2> QED
    BY <2>7, <2>8, <2>9, <2>10, <2>11, <2>12, <2>13
<1>9. CASE UNCHANGED vars
  BY <1>9 DEF vars, DfsTypeOK, GrayIsOpen, BlackIsClosed, BlackIsAcyclic, DealtWith, Trail,
              NoSelfDependency, AcceptedIsBlack, RaisedIsCyclic, Known, Edges, Colored
<1> QED
  BY <1>3, <1>4, <1>5, <1>6, <1>7, <1>8, <1>9 DEF Next

(* The search keeps its colours, activations and verdict well-formed.        *)
THEOREM DfsTyped == Spec => []DfsTypeOK
<1>1. IInv => DfsTypeOK
  BY DEF IInv
<1> QED
  BY <1>1, InitIInv, NextIInv, PTL DEF Spec

(* The invariant behind the search: black missions are closed under their    *)
(* dependencies and hold no cycle.                                           *)
THEOREM DfsInvariantHolds == Spec => []DfsInvariant
<1>1. IInv => DfsInvariant
  BY DEF IInv
<1> QED
  BY <1>1, InitIInv, NextIInv, PTL DEF Spec

(* _validate_no_cycles lets pass only queues whose dependencies are acyclic, *)
(* and raises only for those that are not, naming a cycle of theirs: for any *)
(* missions and any order of them.                                           *)
THEOREM VerdictAlwaysRight == Spec => []VerdictIsRight
<1>1. IInv => AcceptedIsAcyclic
  <2> SUFFICES ASSUME IInv, verdict = "accepted" PROVE Q!NoCycles(missions)
    BY DEF AcceptedIsAcyclic
  <2>1. Colored("black") = DOMAIN missions
    BY DEF IInv, DfsInvariant, AcceptedIsBlack, Known
  <2> QED
    BY <2>1 DEF IInv, DfsInvariant, BlackIsAcyclic, Q!NoCycles
<1>2. IInv => RaisedIsCyclic
  BY DEF IInv, DfsInvariant
<1>3. IInv => VerdictIsRight
  BY <1>1, <1>2 DEF VerdictIsRight
<1> QED
  BY <1>3, InitIInv, NextIInv, PTL DEF Spec

-----------------------------------------------------------------------------
(* enqueue_batch; s1 missions, s2 next_seq, s3 definitions, s4 phase,        *)
(* s5 batch, s6 position, s7 enqueued, s8 claimed, s9 blind, s10 torn.       *)

(* Sets are counted alike in the adapter and here.                           *)
LEMMA CountedAlike == \A S : Adapter!Cardinality(S) = Cardinality(S)
BY Zenon DEF Adapter!Cardinality, Cardinality, Adapter!IsFiniteSet, IsFiniteSet

(* As many ids as items: no id twice.                                        *)
LEMMA IdsDiffer ==
    ASSUME NEW b \in Seq(Adapter!Items),
           Adapter!Cardinality({b[i].id : i \in DOMAIN b}) = Len(b)
    PROVE  \A i, j \in DOMAIN b : b[i].id = b[j].id => i = j
<1> DEFINE D == 1..Len(b)
           T == {b[i].id : i \in DOMAIN b}
           f == [i \in D |-> b[i].id]
<1>1. Len(b) \in Nat /\ DOMAIN b = D
  OBVIOUS
<1>2. IsFiniteSet(D) /\ Cardinality(D) = Len(b)
  <2>1. PICK n \in Nat : n = Len(b)
    BY <1>1
  <2>2. 1 \in Int /\ n \in Int
    OBVIOUS
  <2>3. IsFiniteSet(1..n) /\ Cardinality(1..n) = IF 1 > n THEN 0 ELSE n - 1 + 1
    BY <2>2, FS_Interval
  <2> QED
    BY <2>1, <2>3
<1>3. Cardinality(T) = Len(b)
  <2>1. Adapter!Cardinality(T) = Len(b)
    OBVIOUS
  <2> HIDE DEF T
  <2> QED
    BY <2>1, CountedAlike
<1>4. f \in Surjection(D, T)
  BY <1>1 DEF Surjection
<1>5. f \in Injection(D, T)
  <2> HIDE DEF D, T, f
  <2> QED
    BY <1>2, <1>3, <1>4, FS_SurjSameCardinalityImpliesInj
<1> QED
  BY <1>1, <1>5 DEF Injection, IsInjective

LEMMA AdapterBegins == Adapter!Init => Adapter!AdapterInv
BY DEF Adapter!Init, Adapter!Q!Init, Adapter!AdapterInv, Adapter!AdapterShape, Adapter!Owned,
       Adapter!ClaimsKnown, Adapter!SoFar, Adapter!Started

(* Calls have ids of their own, dependencies before their dependents, and    *)
(* only so many of them.                                                     *)
LEMMA OwnIds ==
    ASSUME Adapter!AdapterShape, NEW s \in BatchCallers
    PROVE  /\ \A t \in BatchCallers \ {s} : Adapter!Ids(s) \cap Adapter!Ids(t) = {}
           /\ \A i, j \in DOMAIN s5[s] : i <= j => s5[s][j].id \notin s5[s][i].dependencies
           /\ s5[s] \in Seq(Adapter!Items) /\ DOMAIN s5[s] = 1..Len(s5[s]) /\ Len(s5[s]) \in Nat
           /\ Adapter!Ids(s) = Adapter!First(s, Len(s5[s]))
           /\ s6[s] \in Nat /\ s7[s] \in Nat
<1>1. s5[s] \in Seq(Adapter!Items) /\ s6[s] \in Nat /\ s7[s] \in Nat
  BY DEF Adapter!AdapterShape
<1>2. DOMAIN s5[s] = 1..Len(s5[s]) /\ Len(s5[s]) \in Nat
  BY <1>1
<1>3. Adapter!Ids(s) = Adapter!First(s, Len(s5[s]))
  BY <1>2 DEF Adapter!Ids, Adapter!First
<1>4. \A t \in BatchCallers : DOMAIN s5[t] = {} \/ s5[t] \in CallBatches[t]
  BY DEF Adapter!AdapterShape
<1>5. \A i, j \in DOMAIN s5[s] : i <= j => s5[s][j].id \notin s5[s][i].dependencies
  BY <1>4, BatchAssumption
<1>6. \A t \in BatchCallers \ {s} : Adapter!Ids(s) \cap Adapter!Ids(t) = {}
  BY <1>4, BatchAssumption DEF Adapter!Ids
<1> QED
  BY <1>1, <1>2, <1>3, <1>5, <1>6

(* The first n + 1 are the first n and one more.                             *)
LEMMA OneMore ==
    ASSUME NEW s, NEW n \in Nat
    PROVE  Adapter!First(s, n + 1) = Adapter!First(s, n) \cup {s5[s][n + 1].id}
<1>1. 1..(n + 1) = 1..n \cup {n + 1}
  OBVIOUS
<1> QED
  BY <1>1 DEF Adapter!First

(* What is adopted stays adopted, and what it depends on is adopted too.     *)
LEMMA AdoptedClosed ==
    ASSUME NEW s \in BatchCallers, NEW m \in Adapter!Ids(s),
           \/ m \in s10
           \/ \E t \in BatchCallers \ {s} : \E i \in DOMAIN s5[t] : m \in s5[t][i].dependencies
           \/ \E i \in DOMAIN s5[s] : /\ m \in s5[s][i].dependencies
                                      /\ s5[s][i].id \in Adapter!Adopted(s)
    PROVE  m \in Adapter!Adopted(s)
BY DEF Adapter!Adopted, Adapter!Wanted

LEMMA AdoptedGrows ==
    ASSUME NEW s \in BatchCallers, s5'[s] = s5[s], s10 \subseteq s10',
           \A t \in BatchCallers : s5'[t] = s5[t] \/ DOMAIN s5[t] = {}
    PROVE  Adapter!Adopted(s) \subseteq Adapter!Adopted(s)'
<1>1. Adapter!Ids(s)' = Adapter!Ids(s)
  BY DEF Adapter!Ids
<1>2. ASSUME NEW m, NEW A, Adapter!Wanted(s, m, A) PROVE Adapter!Wanted(s, m, A)'
  BY <1>2 DEF Adapter!Wanted
<1> QED
  BY <1>1, <1>2 DEF Adapter!Adopted

(* A call that does not move while another, or the worker, takes a step that *)
(* leaves its missions and files alone.                                      *)
LEMMA OtherCall ==
    ASSUME NEW s \in BatchCallers, Adapter!SoFar(s),
           s4'[s] = s4[s], s5'[s] = s5[s], s6'[s] = s6[s], s7'[s] = s7[s],
           Adapter!Adopted(s) \subseteq Adapter!Adopted(s)',
           Adapter!Ids(s) \cap DOMAIN s1' = Adapter!Ids(s) \cap DOMAIN s1,
           Adapter!Ids(s) \cap s3' = Adapter!Ids(s) \cap s3,
           Adapter!Ids(s) \cap s9' = Adapter!Ids(s) \cap s9,
           s8 \subseteq s8', s10 \subseteq s10',
           Adapter!Ids(s) \cap s8' \subseteq s8 \cup DOMAIN s1
    PROVE  Adapter!SoFar(s)'
<1>1. Adapter!Ids(s)' = Adapter!Ids(s)
  BY DEF Adapter!Ids
<1>2. Adapter!First(s, s6[s])' = Adapter!First(s, s6[s])
      /\ Adapter!First(s, s7[s])' = Adapter!First(s, s7[s])
  BY DEF Adapter!First
<1> QED
  BY <1>1, <1>2 DEF Adapter!SoFar

(* The steps of a call that leave the queue and the history of the worker    *)
(* alone: it goes to another phase or position, or writes or removes a file  *)
(* of its own.                                                               *)
LEMMA OwnSteps ==
    ASSUME Adapter!AdapterInv, NEW s \in BatchCallers, Adapter!Started(s),
           UNCHANGED <<s1, s5, s8, s9>>,
           NEW place \in Adapter!Active \cup {"done", "rejected", "crashed"},
           NEW p \in Nat, NEW n \in Nat, p <= Len(s5[s]), n <= Len(s5[s]),
           s4' = [s4 EXCEPT ![s] = place], s6' = [s6 EXCEPT ![s] = p],
           s7' = [s7 EXCEPT ![s] = n], place = "writing" => n = 0,
           s3' \subseteq s3 \cup Adapter!Ids(s), s3 \subseteq s3' \cup Adapter!Ids(s),
           s10 \subseteq s10', s10' \subseteq s10 \cup Adapter!Ids(s),
           Adapter!SoFar(s)'
    PROVE  Adapter!AdapterInv'
<1>1. Adapter!AdapterShape /\ Adapter!Owned /\ Adapter!ClaimsKnown
      /\ \A t \in BatchCallers : Adapter!SoFar(t)
  BY DEF Adapter!AdapterInv
<1>2. /\ s4'[s] = place /\ s6'[s] = p /\ s7'[s] = n
      /\ \A t \in BatchCallers \ {s} : s4'[t] = s4[t] /\ s6'[t] = s6[t] /\ s7'[t] = s7[t]
      /\ DOMAIN s4' = BatchCallers
  BY <1>1 DEF Adapter!AdapterShape
<1>3. Adapter!AdapterShape'
  <2>1. /\ s4' \in [BatchCallers -> Adapter!Active \cup {"idle", "refused", "done", "rejected", "crashed"}]
        /\ s6' \in [BatchCallers -> Nat] /\ s7' \in [BatchCallers -> Nat]
    BY <1>1 DEF Adapter!AdapterShape
  <2> QED
    BY <1>1, <1>2, <2>1 DEF Adapter!AdapterShape, Adapter!Started, Adapter!Active
<1>4. Adapter!Owned'
  <2>1. \A t \in BatchCallers : Adapter!Started(t)' <=> Adapter!Started(t)
    BY <1>2 DEF Adapter!Started, Adapter!Active
  <2>2. \A t \in BatchCallers : Adapter!Ids(t)' = Adapter!Ids(t)
    BY DEF Adapter!Ids
  <2> QED
    BY <1>1, <2>1, <2>2 DEF Adapter!Owned
<1>5. Adapter!ClaimsKnown'
  BY <1>1 DEF Adapter!ClaimsKnown
<1>6. ASSUME NEW t \in BatchCallers PROVE Adapter!SoFar(t)'
  <2>1. CASE t = s
    BY <2>1
  <2>2. CASE t # s
    <3>1. Adapter!Ids(s) \cap Adapter!Ids(t) = {}
      BY <1>1, <2>2, OwnIds
    <3>2. Adapter!Adopted(t) \subseteq Adapter!Adopted(t)'
      BY AdoptedGrows
    <3>3. Adapter!Ids(t) \cap s3' = Adapter!Ids(t) \cap s3
      BY <3>1
    <3> QED
      BY <1>1, <1>2, <2>2, <3>2, <3>3, OtherCall
  <2> QED
    BY <2>1, <2>2
<1> QED
  BY <1>3, <1>4, <1>5, <1>6 DEF Adapter!AdapterInv

(* What a step of a call leaves of the call's own.                           *)
LEMMA OwnParts ==
    ASSUME NEW s \in BatchCallers, UNCHANGED s5, s10 \subseteq s10'
    PROVE  /\ Adapter!Ids(s)' = Adapter!Ids(s)
           /\ Adapter!Adopted(s) \subseteq Adapter!Adopted(s)'
           /\ \A n : n' = n => Adapter!First(s, n)' = Adapter!First(s, n)
BY AdoptedGrows DEF Adapter!Ids, Adapter!First

LEMMA SubmitStep ==
    ASSUME Adapter!AdapterInv, NEW s \in BatchCallers, Adapter!Submit(s)
    PROVE  Adapter!AdapterInv'
<1>1. Adapter!AdapterShape /\ Adapter!Owned /\ Adapter!ClaimsKnown
      /\ \A t \in BatchCallers : Adapter!SoFar(t)
  BY DEF Adapter!AdapterInv
<1>2. PICK b \in CallBatches[s] :
          /\ s5' = [s5 EXCEPT ![s] = b]
          /\ s4' = [s4 EXCEPT ![s] = IF Adapter!Acceptable(b) THEN "writing" ELSE "refused"]
  BY DEF Adapter!Submit
<1>3. s4[s] = "idle" /\ UNCHANGED <<s1, s3, s6, s7, s8, s9, s10>>
  BY DEF Adapter!Submit, Adapter!queue_vars, Adapter!history_vars, Adapter!bound_vars
<1>4. /\ s5'[s] = b /\ s4'[s] = IF Adapter!Acceptable(b) THEN "writing" ELSE "refused"
      /\ \A t \in BatchCallers \ {s} : s5'[t] = s5[t] /\ s4'[t] = s4[t]
      /\ s5[s] = <<>> /\ s6[s] = 0 /\ s7[s] = 0
  BY <1>1, <1>2, <1>3 DEF Adapter!AdapterShape
<1>5. b \in Seq(Adapter!Items)
  BY BatchAssumption DEF Adapter!Items
<1>6. Adapter!AdapterShape'
  <2>1. Adapter!Acceptable(b) => \A i, j \in DOMAIN b : b[i].id = b[j].id => i = j
    BY <1>5, IdsDiffer DEF Adapter!Acceptable
  <2>2. /\ s4' \in [BatchCallers -> Adapter!Active \cup {"idle", "refused", "done", "rejected", "crashed"}]
        /\ s5' \in [BatchCallers -> Seq(Adapter!Items)]
    BY <1>1, <1>2, <1>5 DEF Adapter!AdapterShape, Adapter!Active
  <2>3. Len(b) \in Nat
    BY <1>5
  <2>4. /\ s6'[s] <= Len(s5'[s]) /\ s7'[s] <= Len(s5'[s])
        /\ s4'[s] # "idle" /\ s5'[s] \in CallBatches[s]
        /\ s7'[s] = 0
        /\ Adapter!Started(s)' => \A i, j \in DOMAIN s5'[s] : s5'[s][i].id = s5'[s][j].id => i = j
    BY <1>3, <1>4, <2>1, <2>3 DEF Adapter!Started
  <2>5. ASSUME NEW t \in BatchCallers \ {s}
        PROVE  s4'[t] = s4[t] /\ s5'[t] = s5[t] /\ s6'[t] = s6[t] /\ s7'[t] = s7[t]
               /\ (Adapter!Started(t)' <=> Adapter!Started(t))
    BY <1>3, <1>4 DEF Adapter!Started
  <2> QED
    BY <1>1, <1>3, <2>2, <2>4, <2>5 DEF Adapter!AdapterShape
<1>7. \A t \in BatchCallers \ {s} : Adapter!Ids(t)' = Adapter!Ids(t)
                                  /\ (Adapter!Started(t)' <=> Adapter!Started(t))
  BY <1>4 DEF Adapter!Ids, Adapter!Started
<1>8. ASSUME NEW m \in DOMAIN s1 \cup s3 \cup s8 \cup s9 \cup s10
      PROVE  m \notin Adapter!Ids(s)' /\ \E t \in BatchCallers \ {s} : Adapter!Started(t)
                                                /\ m \in Adapter!Ids(t)
  <2>1. PICK t \in BatchCallers : Adapter!Started(t) /\ m \in Adapter!Ids(t)
    BY <1>1 DEF Adapter!Owned
  <2>2. t # s
    BY <1>3, <2>1 DEF Adapter!Started
  <2>3. Adapter!Ids(t)' \cap Adapter!Ids(s)' = {}
    <3>1. s5'[t] \in CallBatches[t] /\ s5'[s] \in CallBatches[s]
      BY <1>1, <1>4, <2>1, <2>2 DEF Adapter!AdapterShape, Adapter!Started
    <3> QED
      BY <2>2, <3>1, BatchAssumption DEF Adapter!Ids
  <2> QED
    BY <1>7, <2>1, <2>2, <2>3
<1>9. Adapter!Owned'
  <2>1. \A i \in DOMAIN s5'[s] : s5'[s][i].id \notin DOMAIN s1
    BY <1>8 DEF Adapter!Ids
  <2> QED
    BY <1>1, <1>3, <1>4, <1>7, <1>8, <2>1 DEF Adapter!Owned
<1>10. Adapter!ClaimsKnown'
  BY <1>1, <1>3 DEF Adapter!ClaimsKnown
<1>11. ASSUME NEW t \in BatchCallers \ {s} PROVE Adapter!SoFar(t)'
  <2>1. Adapter!Adopted(t) \subseteq Adapter!Adopted(t)'
    BY <1>3, <1>4, AdoptedGrows
  <2> QED
    BY <1>1, <1>3, <1>4, <2>1, OtherCall
<1>12. Adapter!SoFar(s)'
  <2>1. s4'[s] \in {"writing", "refused"} /\ s6'[s] = 0
    BY <1>3, <1>4
  <2>2. Adapter!First(s, 0)' = {}
    BY DEF Adapter!First
  <2>3. Adapter!Ids(s)' \cap (DOMAIN s1 \cup s3 \cup s8 \cup s9 \cup s10) = {}
    BY <1>8
  <2> QED
    BY <1>3, <2>1, <2>2, <2>3 DEF Adapter!SoFar
<1> QED
  BY <1>6, <1>9, <1>10, <1>11, <1>12 DEF Adapter!AdapterInv

LEMMA FileSteps ==
    ASSUME Adapter!AdapterInv, NEW s \in BatchCallers,
           \/ Adapter!WriteDefinition(s) \/ Adapter!WriteFails(s)
           \/ Adapter!StartEnqueueing(s) \/ Adapter!EnqueueFails(s) \/ Adapter!Finish(s)
           \/ Adapter!StartUnlinking(s) \/ Adapter!UnlinkDefinition(s)
           \/ Adapter!Reject(s) \/ Adapter!SubmitterDies(s)
    PROVE  Adapter!AdapterInv'
<1> USE DEF Adapter!queue_vars, Adapter!history_vars, Adapter!bound_vars, Adapter!Active
<1>1. Adapter!AdapterShape /\ Adapter!SoFar(s) /\ Adapter!Owned
  BY DEF Adapter!AdapterInv
<1>2. UNCHANGED <<s1, s5, s7, s8, s9>>
  BY DEF Adapter!WriteDefinition, Adapter!WriteFails, Adapter!StartEnqueueing,
         Adapter!EnqueueFails, Adapter!Finish, Adapter!StartUnlinking,
         Adapter!UnlinkDefinition, Adapter!Reject, Adapter!SubmitterDies
<1>3. /\ s5[s] \in Seq(Adapter!Items) /\ DOMAIN s5[s] = 1..Len(s5[s]) /\ Len(s5[s]) \in Nat
      /\ Adapter!Ids(s) = Adapter!First(s, Len(s5[s]))
      /\ s6[s] \in Nat /\ s7[s] \in Nat /\ s6[s] <= Len(s5[s]) /\ s7[s] <= Len(s5[s])
      /\ s7' = [s7 EXCEPT ![s] = s7[s]]
      /\ 0 \in Nat /\ 0 <= Len(s5[s]) /\ Len(s5[s]) <= Len(s5[s])
      /\ DOMAIN s4 = BatchCallers /\ DOMAIN s6 = BatchCallers
      /\ Adapter!Started(s) <=> s4[s] \notin {"idle", "refused"}
  BY <1>1, <1>2, OwnIds DEF Adapter!AdapterShape, Adapter!Started
<1>4. /\ Adapter!Ids(s)' = Adapter!Ids(s)
      /\ Adapter!Adopted(s) \subseteq Adapter!Adopted(s)'
      /\ \A n : n' = n => Adapter!First(s, n)' = Adapter!First(s, n)
  <2>1. s10 \subseteq s10'
    BY DEF Adapter!WriteDefinition, Adapter!WriteFails, Adapter!StartEnqueueing,
           Adapter!EnqueueFails, Adapter!Finish, Adapter!StartUnlinking,
           Adapter!UnlinkDefinition, Adapter!Reject, Adapter!SubmitterDies
  <2> QED
    BY <1>2, <2>1, OwnParts
<1>5. CASE Adapter!WriteDefinition(s)
  <2> DEFINE m == s5[s][s6[s] + 1].id
  <2>1. /\ s4[s] = "writing" /\ s6[s] < Len(s5[s]) /\ s3' = s3 \cup {m}
        /\ s4' = [s4 EXCEPT ![s] = "writing"] /\ s6' = [s6 EXCEPT ![s] = s6[s] + 1]
        /\ UNCHANGED s10
    BY <1>5 DEF Adapter!WriteDefinition, Adapter!Goes
  <2>2. m \in Adapter!Ids(s) /\ s6[s] + 1 \in Nat /\ s6[s] + 1 <= Len(s5[s]) /\ s7[s] = 0
    BY <1>1, <1>3, <2>1 DEF Adapter!Ids, Adapter!AdapterShape
  <2>3. Adapter!First(s, s6[s])' = Adapter!First(s, s6[s]) \cup {m}
    <3>1. Adapter!First(s, s6[s])' = {s5[s][i].id : i \in 1..(s6[s] + 1)}
      BY <1>2, <1>3, <2>1 DEF Adapter!First
    <3> QED
      BY <1>3, <3>1, OneMore DEF Adapter!First
  <2>4. Adapter!SoFar(s)'
    BY <1>1, <1>2, <1>3, <1>4, <2>1, <2>2, <2>3 DEF Adapter!SoFar
  <2> QED
    BY <1>2, <1>3, <2>1, <2>2, <2>4, OwnSteps
<1>6. CASE Adapter!WriteFails(s)
  <2> DEFINE m == s5[s][s6[s] + 1].id
  <2>1. /\ s4[s] = "writing" /\ s6[s] < Len(s5[s])
        /\ s4' = [s4 EXCEPT ![s] = "unlinking"] /\ s6' = [s6 EXCEPT ![s] = s6[s]]
        /\ \/ s3' = s3 \cup {m} /\ s10' = s10 \cup {m}
           \/ UNCHANGED <<s3, s10>>
    BY <1>6 DEF Adapter!WriteFails, Adapter!Goes
  <2>2. m \in Adapter!Ids(s) /\ s7[s] = 0
    BY <1>1, <1>3, <2>1 DEF Adapter!Ids, Adapter!AdapterShape
  <2>3. Adapter!First(s, s6[s])' = Adapter!First(s, s6[s])
    BY <1>2, <1>3, <2>1 DEF Adapter!First
  <2>4. Adapter!SoFar(s)'
    BY <1>1, <1>2, <1>3, <1>4, <2>1, <2>2, <2>3 DEF Adapter!SoFar
  <2> QED
    BY <1>2, <1>3, <2>1, <2>2, <2>4, OwnSteps
<1>7. CASE Adapter!StartEnqueueing(s)
  <2>1. /\ s4[s] = "writing" /\ s6[s] = Len(s5[s]) /\ UNCHANGED <<s3, s10>>
        /\ s4' = [s4 EXCEPT ![s] = "enqueueing"] /\ s6' = [s6 EXCEPT ![s] = 0]
    BY <1>7 DEF Adapter!StartEnqueueing, Adapter!Goes
  <2>2. s7[s] = 0 /\ Adapter!First(s, s7[s])' = {}
    BY <1>1, <1>2, <2>1 DEF Adapter!First, Adapter!AdapterShape
  <2>3. Adapter!SoFar(s)'
    BY <1>1, <1>2, <1>3, <1>4, <2>1, <2>2 DEF Adapter!SoFar
  <2> QED
    BY <1>2, <1>3, <2>1, <2>2, <2>3, OwnSteps
<1>8. CASE Adapter!EnqueueFails(s)
  <2>1. /\ s4[s] = "enqueueing" /\ UNCHANGED <<s3, s10>>
        /\ s4' = [s4 EXCEPT ![s] = "dequeuing"] /\ s6' = [s6 EXCEPT ![s] = 0]
    BY <1>8 DEF Adapter!EnqueueFails, Adapter!Goes
  <2>2. Adapter!First(s, s7[s])' = Adapter!First(s, s7[s])
    BY <1>2 DEF Adapter!First
  <2>3. Adapter!SoFar(s)'
    BY <1>1, <1>2, <1>3, <1>4, <2>1, <2>2 DEF Adapter!SoFar
  <2> QED
    BY <1>2, <1>3, <2>1, <2>3, OwnSteps
<1>9. CASE Adapter!Finish(s)
  <2>1. /\ s4[s] = "enqueueing" /\ s7[s] = Len(s5[s]) /\ UNCHANGED <<s3, s10>>
        /\ s4' = [s4 EXCEPT ![s] = "done"] /\ s6' = [s6 EXCEPT ![s] = 0]
    BY <1>9 DEF Adapter!Finish, Adapter!Goes
  <2>2. Adapter!SoFar(s)'
    BY <1>1, <1>2, <1>3, <1>4, <2>1 DEF Adapter!SoFar
  <2> QED
    BY <1>2, <1>3, <2>1, <2>2, OwnSteps
<1>10. CASE Adapter!StartUnlinking(s)
  <2>1. /\ s4[s] = "dequeuing" /\ s7[s] = 0 /\ UNCHANGED <<s3, s10>>
        /\ s4' = [s4 EXCEPT ![s] = "unlinking"] /\ s6' = [s6 EXCEPT ![s] = Len(s5[s])]
    BY <1>10 DEF Adapter!StartUnlinking, Adapter!Goes
  <2>2. Adapter!First(s, s7[s]) = {} /\ Adapter!First(s, s6[s])' = Adapter!First(s, Len(s5[s]))
    BY <1>2, <1>3, <2>1 DEF Adapter!First
  <2>3. Adapter!SoFar(s)'
    BY <1>1, <1>2, <1>3, <1>4, <2>1, <2>2 DEF Adapter!SoFar
  <2> QED
    BY <1>2, <1>3, <2>1, <2>3, OwnSteps
<1>11. CASE Adapter!UnlinkDefinition(s)
  <2> DEFINE m == s5[s][s6[s]].id
  <2>1. /\ s4[s] = "unlinking" /\ s6[s] > 0
        /\ \/ s3' = s3 \ {m} /\ s10' = s10
           \/ s3' = s3 /\ s10' = s10 \cup {m}
        /\ s4' = [s4 EXCEPT ![s] = "unlinking"] /\ s6' = [s6 EXCEPT ![s] = s6[s] - 1]
    BY <1>11 DEF Adapter!UnlinkDefinition, Adapter!Goes
  <2>2. s6[s] - 1 \in Nat /\ s6[s] - 1 <= Len(s5[s]) /\ m \in Adapter!Ids(s)
        /\ (s6[s] - 1) + 1 = s6[s]
    <3>1. s6[s] \in Nat /\ s6[s] > 0 /\ s6[s] <= Len(s5[s]) /\ Len(s5[s]) \in Nat
      BY <1>3, <2>1
    <3>2. s6[s] \in DOMAIN s5[s]
      BY <1>3, <3>1
    <3>3. m \in Adapter!Ids(s)
      BY <3>2 DEF Adapter!Ids
    <3> QED
      BY <3>1, <3>3
  <2>3. Adapter!First(s, s6[s]) = Adapter!First(s, s6[s])' \cup {m}
    <3>1. Adapter!First(s, s6[s])' = {s5[s][i].id : i \in 1..(s6[s] - 1)}
      <4>1. s6'[s] = s6[s] - 1 /\ s5' = s5
        BY <1>2, <1>3, <2>1
      <4> QED
        BY <4>1 DEF Adapter!First
    <3>2. Adapter!First(s, (s6[s] - 1) + 1) = Adapter!First(s, s6[s] - 1) \cup {s5[s][(s6[s] - 1) + 1].id}
      BY <2>2, OneMore
    <3> QED
      BY <2>2, <3>1, <3>2 DEF Adapter!First
  <2>4. Adapter!SoFar(s)'
    BY <1>1, <1>2, <1>3, <1>4, <2>1, <2>2, <2>3 DEF Adapter!SoFar
  <2> QED
    BY <1>2, <1>3, <2>1, <2>2, <2>4, OwnSteps
<1>12. CASE Adapter!Reject(s)
  <2>1. /\ s4[s] = "unlinking" /\ s6[s] = 0 /\ UNCHANGED <<s3, s10>>
        /\ s4' = [s4 EXCEPT ![s] = "rejected"] /\ s6' = [s6 EXCEPT ![s] = 0]
    BY <1>12 DEF Adapter!Reject, Adapter!Goes
  <2>2. Adapter!First(s, s6[s]) = {}
    BY <2>1 DEF Adapter!First
  <2>3. Adapter!SoFar(s)'
    BY <1>1, <1>2, <1>3, <1>4, <2>1, <2>2 DEF Adapter!SoFar
  <2> QED
    BY <1>2, <1>3, <2>1, <2>3, OwnSteps
<1>13. CASE Adapter!SubmitterDies(s)
  <2>1. /\ s4[s] \notin {"idle", "refused"} /\ UNCHANGED <<s3, s10>>
        /\ s4' = [s4 EXCEPT ![s] = "crashed"] /\ s6' = [s6 EXCEPT ![s] = 0]
    BY <1>13 DEF Adapter!SubmitterDies, Adapter!Goes
  <2>2. Adapter!SoFar(s)'
    BY <1>3, <2>1 DEF Adapter!SoFar
  <2> QED
    BY <1>2, <1>3, <2>1, <2>2, OwnSteps
<1> QED
  BY <1>5, <1>6, <1>7, <1>8, <1>9, <1>10, <1>11, <1>12, <1>13

(* What a step that leaves the calls and the files as they are keeps, and    *)
(* puts one mission of one call into the queue or out of it.                 *)
LEMMA QueueSteps ==
    ASSUME Adapter!AdapterInv, NEW s \in BatchCallers, Adapter!Started(s),
           UNCHANGED <<s3, s4, s5, s6, s8, s9>>,
           s10 \subseteq s10', s10' \subseteq s10 \cup Adapter!Ids(s),
           NEW n \in Nat, n <= Len(s5[s]), s7' = [s7 EXCEPT ![s] = n],
           s4[s] \in {"enqueueing", "dequeuing"},
           NEW m \in Adapter!Ids(s),
           DOMAIN s1' \subseteq DOMAIN s1 \cup {m}, DOMAIN s1 \subseteq DOMAIN s1' \cup {m},
           \A k \in DOMAIN s1' \ {m} : s1'[k] = s1[k],
           m \in DOMAIN s1' =>
               /\ {"state", "dependencies"} \subseteq DOMAIN s1'[m]
               /\ \A i \in DOMAIN s5[s] : s5[s][i].id = m =>
                     s1'[m].dependencies = s5[s][i].dependencies
               /\ \/ s1'[m] = s1[m] /\ m \in DOMAIN s1
                  \/ s1'[m].state = "pending" /\ m \notin s8,
           Adapter!SoFar(s)'
    PROVE  Adapter!AdapterInv'
<1>1. Adapter!AdapterShape /\ Adapter!Owned /\ Adapter!ClaimsKnown
      /\ \A t \in BatchCallers : Adapter!SoFar(t)
  BY DEF Adapter!AdapterInv
<1>2. \A t \in BatchCallers : /\ Adapter!Ids(t)' = Adapter!Ids(t)
                            /\ Adapter!Adopted(t) \subseteq Adapter!Adopted(t)'
                            /\ (Adapter!Started(t)' <=> Adapter!Started(t))
  BY OwnParts DEF Adapter!Started
<1>3. \A t \in BatchCallers \ {s} : m \notin Adapter!Ids(t)
  BY <1>1, OwnIds
<1>4. Adapter!AdapterShape'
  <2>1. s7' \in [BatchCallers -> Nat] /\ s7'[s] = n
        /\ \A t \in BatchCallers \ {s} : s7'[t] = s7[t]
    BY <1>1 DEF Adapter!AdapterShape
  <2>2. \A k \in DOMAIN s1' : {"state", "dependencies"} \subseteq DOMAIN s1'[k]
    <3> SUFFICES ASSUME NEW k \in DOMAIN s1'
                 PROVE  {"state", "dependencies"} \subseteq DOMAIN s1'[k]
      OBVIOUS
    <3>1. CASE k = m
      BY <3>1
    <3>2. CASE k # m
      <4>1. k \in DOMAIN s1 /\ s1'[k] = s1[k]
        BY <3>2
      <4>2. {"state", "dependencies"} \subseteq DOMAIN s1[k]
        BY <1>1, <4>1 DEF Adapter!AdapterShape
      <4> QED
        BY <4>1, <4>2
    <3> QED
      BY <3>1, <3>2
  <2>3. s4[s] \notin {"idle", "writing"}
    OBVIOUS
  <2>4. s7' \in [BatchCallers -> Nat] /\ s6' \in [BatchCallers -> Nat]
    BY <1>1, <2>1 DEF Adapter!AdapterShape
  <2>5. ASSUME NEW t \in BatchCallers
        PROVE  /\ s6'[t] <= Len(s5'[t]) /\ s7'[t] <= Len(s5'[t])
               /\ IF s4'[t] = "idle" THEN s5'[t] = <<>> ELSE s5'[t] \in CallBatches[t]
               /\ s4'[t] \in {"idle", "writing"} => s7'[t] = 0
               /\ Adapter!Started(t)' =>
                     \A i, j \in DOMAIN s5'[t] : s5'[t][i].id = s5'[t][j].id => i = j
    <3>1. CASE t = s
      BY <1>1, <1>2, <2>1, <2>3, <3>1 DEF Adapter!AdapterShape
    <3>2. CASE t # s
      BY <1>1, <1>2, <2>1, <3>2 DEF Adapter!AdapterShape
    <3> QED
      BY <3>1, <3>2
  <2> QED
    BY <1>1, <2>2, <2>4, <2>5 DEF Adapter!AdapterShape
<1>5. Adapter!Owned'
  <2>1. DOMAIN s1' \cup s3' \cup s8' \cup s9' \cup s10'
            \subseteq UNION {Adapter!Ids(t) : t \in {u \in BatchCallers : Adapter!Started(u)}}
    BY <1>1 DEF Adapter!Owned
  <2>2. ASSUME NEW t \in BatchCallers, Adapter!Started(t), NEW i \in DOMAIN s5[t],
               s5[t][i].id \in DOMAIN s1'
        PROVE  s1'[s5[t][i].id].dependencies = s5[t][i].dependencies
    <3>1. CASE s5[t][i].id = m
      <4>1. t = s
        BY <1>3, <2>2, <3>1 DEF Adapter!Ids
      <4> QED
        BY <2>2, <3>1, <4>1
    <3>2. CASE s5[t][i].id # m
      BY <1>1, <2>2, <3>2 DEF Adapter!Owned
    <3> QED
      BY <3>1, <3>2
  <2> QED
    BY <1>2, <2>1, <2>2 DEF Adapter!Owned
<1>6. Adapter!ClaimsKnown'
  BY <1>1 DEF Adapter!ClaimsKnown
<1>7. ASSUME NEW t \in BatchCallers \ {s} PROVE Adapter!SoFar(t)'
  <2>1. s7'[t] = s7[t]
    BY <1>1 DEF Adapter!AdapterShape
  <2>2. Adapter!Ids(t) \cap DOMAIN s1' = Adapter!Ids(t) \cap DOMAIN s1
    BY <1>3
  <2> QED
    BY <1>1, <1>2, <2>1, <2>2, OtherCall
<1> QED
  BY <1>4, <1>5, <1>6, <1>7 DEF Adapter!AdapterInv

LEMMA EnqueueItemStep ==
    ASSUME Adapter!AdapterInv, NEW s \in BatchCallers, Adapter!EnqueueItem(s)
    PROVE  Adapter!AdapterInv'
<1> DEFINE k == s7[s] + 1
           m == s5[s][k].id
<1>1. Adapter!AdapterShape /\ Adapter!SoFar(s) /\ Adapter!Owned
  BY DEF Adapter!AdapterInv
<1>2. /\ s4[s] = "enqueueing" /\ s7[s] < Len(s5[s]) /\ s7' = [s7 EXCEPT ![s] = k]
      /\ UNCHANGED <<s3, s4, s5, s6, s8, s9, s10>>
      /\ Adapter!Q!Enqueue(m, 0, s5[s][k].dependencies, RetryLimit)
  BY DEF Adapter!EnqueueItem, Adapter!history_vars, Adapter!bound_vars
<1>3. /\ s5[s] \in Seq(Adapter!Items) /\ DOMAIN s5[s] = 1..Len(s5[s]) /\ Len(s5[s]) \in Nat
      /\ s7[s] \in Nat /\ Adapter!Started(s) /\ DOMAIN s7 = BatchCallers
      /\ \A i, j \in DOMAIN s5[s] : s5[s][i].id = s5[s][j].id => i = j
  BY <1>1, <1>2, OwnIds DEF Adapter!AdapterShape, Adapter!Started
<1>4. k \in Nat /\ k <= Len(s5[s]) /\ k \in DOMAIN s5[s] /\ m \in Adapter!Ids(s)
  BY <1>2, <1>3 DEF Adapter!Ids
<1>5. /\ m \notin DOMAIN s1 /\ DOMAIN s1' = DOMAIN s1 \cup {m}
      /\ \A n \in DOMAIN s1 : s1'[n] = s1[n]
      /\ {"state", "dependencies"} \subseteq DOMAIN s1'[m]
      /\ s1'[m].state = "pending" /\ s1'[m].dependencies = s5[s][k].dependencies
  BY <1>2 DEF Adapter!Q!Enqueue, Adapter!Q!Known, Adapter!Q!Queued, Adapter!Q!With
<1>6. m \notin s8
  BY <1>1, <1>2, <1>4, <1>5 DEF Adapter!SoFar
<1>7. \A i \in DOMAIN s5[s] : s5[s][i].id = m => s1'[m].dependencies = s5[s][i].dependencies
  BY <1>3, <1>4, <1>5
<1>8. Adapter!SoFar(s)'
  <2>1. Adapter!Ids(s)' = Adapter!Ids(s)
    BY <1>2, OwnParts
  <2>2. Adapter!First(s, s7[s])' = Adapter!First(s, s7[s]) \cup {m}
    <3>1. Adapter!First(s, s7[s])' = {s5[s][i].id : i \in 1..k}
      BY <1>2, <1>3 DEF Adapter!First
    <3> QED
      BY <1>3, <3>1, OneMore DEF Adapter!First
  <2> QED
    BY <1>1, <1>2, <1>4, <1>5, <2>1, <2>2 DEF Adapter!SoFar
<1> HIDE DEF m, k
<1> QED
  BY <1>2, <1>3, <1>4, <1>5, <1>6, <1>7, <1>8, QueueSteps

(* A mission the rollback passes over was claimed, or another call needs it. *)
LEMMA NotDequeueable ==
    ASSUME Adapter!AdapterInv, NEW s \in BatchCallers, s4[s] = "dequeuing", s7[s] > 0,
           s5[s][s7[s]].id \in DOMAIN s1, ~Adapter!Dequeueable(s5[s][s7[s]].id)
    PROVE  s5[s][s7[s]].id \in s8 \cup Adapter!Adopted(s)
<1> DEFINE k == s7[s]
           m == s5[s][k].id
<1>1. Adapter!AdapterShape /\ Adapter!SoFar(s) /\ Adapter!Owned /\ Adapter!ClaimsKnown
  BY DEF Adapter!AdapterInv
<1>2. /\ DOMAIN s5[s] = 1..Len(s5[s]) /\ Len(s5[s]) \in Nat /\ k \in Nat
      /\ k <= Len(s5[s]) /\ Adapter!Started(s)
      /\ \A i, j \in DOMAIN s5[s] : s5[s][i].id = s5[s][j].id => i = j
      /\ \A i, j \in DOMAIN s5[s] : i <= j => s5[s][j].id \notin s5[s][i].dependencies
  BY <1>1, OwnIds DEF Adapter!AdapterShape, Adapter!Started
<1>3. k \in DOMAIN s5[s] /\ m \in Adapter!Ids(s)
  BY <1>2 DEF Adapter!Ids
<1>4. CASE Adapter!Q!Running(m)
  BY <1>1, <1>4 DEF Adapter!ClaimsKnown, Adapter!Q!Running, Adapter!Q!InState, Adapter!Q!Known
<1>5. CASE ~Adapter!Q!Running(m)
  <2>1. PICK n \in DOMAIN s1 \ {m} : m \in s1[n].dependencies
    BY <1>5 DEF Adapter!Dequeueable, Adapter!Q!Known
  <2>2. PICK t \in BatchCallers : Adapter!Started(t) /\ n \in Adapter!Ids(t)
    BY <1>1 DEF Adapter!Owned
  <2>3. PICK i \in DOMAIN s5[t] : s5[t][i].id = n
    BY <2>2 DEF Adapter!Ids
  <2>4. m \in s5[t][i].dependencies
    BY <1>1, <2>1, <2>2, <2>3 DEF Adapter!Owned
  <2>5. CASE t # s
    BY <1>3, <2>4, <2>5, AdoptedClosed
  <2>6. CASE t = s
    <3>1. n \in Adapter!First(s, k) \cup s8 \cup Adapter!Adopted(s)
      BY <1>1, <2>1, <2>2, <2>6 DEF Adapter!SoFar
    <3>2. CASE n \in Adapter!First(s, k)
      <4>1. PICK j \in 1..k : s5[s][j].id = n
        BY <3>2 DEF Adapter!First
      <4>2. j \in DOMAIN s5[s] /\ j <= k
        BY <1>2
      <4>3. i = j
        BY <1>2, <2>3, <2>6, <4>1, <4>2
      <4> QED
        BY <1>2, <1>3, <2>4, <2>6, <4>2, <4>3
    <3>3. CASE n \in s8
      BY <1>1, <2>1, <3>3 DEF Adapter!ClaimsKnown
    <3>4. CASE n \in Adapter!Adopted(s)
      BY <1>3, <2>3, <2>4, <2>6, <3>4, AdoptedClosed
    <3> QED
      BY <3>1, <3>2, <3>3, <3>4
  <2> QED
    BY <2>5, <2>6
<1> QED
  BY <1>4, <1>5

LEMMA RollBackStep ==
    ASSUME Adapter!AdapterInv, NEW s \in BatchCallers, Adapter!RollBackQueue(s)
    PROVE  Adapter!AdapterInv'
<1> DEFINE k == s7[s]
           m == s5[s][k].id
<1>1. Adapter!AdapterShape /\ Adapter!SoFar(s) /\ Adapter!Owned
  BY DEF Adapter!AdapterInv
<1>2. /\ s4[s] = "dequeuing" /\ k > 0 /\ s7' = [s7 EXCEPT ![s] = k - 1]
      /\ UNCHANGED <<s3, s4, s5, s6, s8, s9>>
      /\ \/ Adapter!Dequeueable(m) /\ Adapter!Q!Dequeue(m) /\ s10' = s10
         \/ ~Adapter!Dequeueable(m) /\ s1' = s1 /\ s10' = s10
         \/ s1' = s1 /\ s10' = s10 \cup {m}
  BY DEF Adapter!RollBackQueue, Adapter!queue_vars, Adapter!history_vars, Adapter!bound_vars
<1>3. /\ DOMAIN s5[s] = 1..Len(s5[s]) /\ Len(s5[s]) \in Nat /\ k \in Nat /\ k <= Len(s5[s])
      /\ Adapter!Started(s) /\ DOMAIN s7 = BatchCallers
  BY <1>1, <1>2, OwnIds DEF Adapter!AdapterShape, Adapter!Started
<1>4. k - 1 \in Nat /\ k - 1 <= Len(s5[s]) /\ (k - 1) + 1 = k /\ m \in Adapter!Ids(s)
  BY <1>2, <1>3 DEF Adapter!Ids
<1>5. /\ DOMAIN s1' \subseteq DOMAIN s1 /\ DOMAIN s1 \subseteq DOMAIN s1' \cup {m}
      /\ \A n \in DOMAIN s1' : s1'[n] = s1[n]
      /\ s10 \subseteq s10' /\ s10' \subseteq s10 \cup Adapter!Ids(s)
      /\ m \in DOMAIN s1' => m \in s8 \cup Adapter!Adopted(s)'
  <2>1. CASE Adapter!Dequeueable(m) /\ Adapter!Q!Dequeue(m) /\ s10' = s10
    BY <2>1 DEF Adapter!Q!Dequeue, Adapter!Q!Without
  <2>2. CASE ~Adapter!Dequeueable(m) /\ s1' = s1 /\ s10' = s10
    <3>1. m \in DOMAIN s1 => m \in s8 \cup Adapter!Adopted(s)
      BY <1>2, <2>2, NotDequeueable
    <3>2. Adapter!Adopted(s) \subseteq Adapter!Adopted(s)'
      BY <1>2, <2>2, OwnParts
    <3> QED
      BY <2>2, <3>1, <3>2
  <2>3. CASE s1' = s1 /\ s10' = s10 \cup {m}
    <3>1. m \in Adapter!Adopted(s)'
      BY <1>2, <1>4, <2>3 DEF Adapter!Adopted, Adapter!Ids
    <3> QED
      BY <1>4, <2>3, <3>1
  <2> QED
    BY <1>2, <2>1, <2>2, <2>3
<1>6. Adapter!SoFar(s)'
  <2>1. Adapter!Ids(s)' = Adapter!Ids(s) /\ Adapter!Adopted(s) \subseteq Adapter!Adopted(s)'
    BY <1>2, <1>5, OwnParts
  <2>2. Adapter!First(s, k) = Adapter!First(s, k)' \cup {m}
    <3>1. Adapter!First(s, k)' = {s5[s][i].id : i \in 1..(k - 1)}
      BY <1>2, <1>3 DEF Adapter!First
    <3>2. Adapter!First(s, (k - 1) + 1) = Adapter!First(s, k - 1) \cup {s5[s][(k - 1) + 1].id}
      BY <1>4, OneMore
    <3> QED
      BY <1>4, <3>1, <3>2 DEF Adapter!First
  <2>3. Adapter!Ids(s) \cap DOMAIN s1' \subseteq Adapter!First(s, k)' \cup s8 \cup Adapter!Adopted(s)'
    BY <1>1, <1>2, <1>5, <2>1, <2>2 DEF Adapter!SoFar
  <2> QED
    BY <1>1, <1>2, <1>5, <2>1, <2>3 DEF Adapter!SoFar
<1>7. \A i \in DOMAIN s5[s] : m \in DOMAIN s1' /\ s5[s][i].id = m =>
         s1'[m].dependencies = s5[s][i].dependencies
  BY <1>1, <1>3, <1>5 DEF Adapter!Owned
<1>8. m \in DOMAIN s1' => {"state", "dependencies"} \subseteq DOMAIN s1'[m] /\ s1'[m] = s1[m]
                          /\ m \in DOMAIN s1
  BY <1>1, <1>5 DEF Adapter!AdapterShape
<1>9. PICK n \in Nat : n = k - 1
  BY <1>4
<1>10. /\ n <= Len(s5[s]) /\ s7' = [s7 EXCEPT ![s] = n]
       /\ s4[s] \in {"enqueueing", "dequeuing"}
       /\ DOMAIN s1' \subseteq DOMAIN s1 \cup {m}
       /\ DOMAIN s1 \subseteq DOMAIN s1' \cup {m}
       /\ \A o \in DOMAIN s1' \ {m} : s1'[o] = s1[o]
  BY <1>2, <1>4, <1>5, <1>9
<1>11. m \in DOMAIN s1' =>
           /\ {"state", "dependencies"} \subseteq DOMAIN s1'[m]
           /\ \A i \in DOMAIN s5[s] : s5[s][i].id = m =>
                 s1'[m].dependencies = s5[s][i].dependencies
           /\ s1'[m] = s1[m] /\ m \in DOMAIN s1
  BY <1>7, <1>8
<1>12. /\ Adapter!Started(s) /\ UNCHANGED <<s3, s4, s5, s6, s8, s9>>
       /\ s10 \subseteq s10' /\ s10' \subseteq s10 \cup Adapter!Ids(s)
       /\ Adapter!SoFar(s)'
  BY <1>2, <1>3, <1>5, <1>6
<1>13. PICK o \in Adapter!Ids(s) : o = m
  BY <1>4
<1>14. /\ DOMAIN s1' \subseteq DOMAIN s1 \cup {o} /\ DOMAIN s1 \subseteq DOMAIN s1' \cup {o}
       /\ \A i \in DOMAIN s1' \ {o} : s1'[i] = s1[i]
       /\ o \in DOMAIN s1' =>
             /\ {"state", "dependencies"} \subseteq DOMAIN s1'[o]
             /\ \A i \in DOMAIN s5[s] : s5[s][i].id = o =>
                   s1'[o].dependencies = s5[s][i].dependencies
             /\ s1'[o] = s1[o] /\ o \in DOMAIN s1
  BY <1>10, <1>11, <1>13
<1> HIDE DEF m, k
<1> QED
  BY <1>10, <1>12, <1>14, QueueSteps

(* What the worker does: it moves missions that are not pending any more, or *)
(* one that it claims, and takes nothing away.                               *)
LEMMA WorkerSteps ==
    ASSUME Adapter!AdapterInv,
           UNCHANGED <<s3, s4, s5, s6, s7, s10>>,
           DOMAIN s1' = DOMAIN s1, s8 \subseteq s8', s8' \subseteq s8 \cup DOMAIN s1,
           s9 \subseteq s9', s9' \subseteq s9 \cup (DOMAIN s1 \ s3),
           \A m \in DOMAIN s1 : /\ {"state", "dependencies"} \subseteq DOMAIN s1'[m]
                                /\ s1'[m].dependencies = s1[m].dependencies
                                /\ s1'[m].state = s1[m].state \/ m \in s8',
           \A m \in s8' \ s8 : s1[m].dependencies \subseteq s8
    PROVE  Adapter!AdapterInv'
<1>1. Adapter!AdapterShape /\ Adapter!Owned /\ Adapter!ClaimsKnown
      /\ \A t \in BatchCallers : Adapter!SoFar(t)
  BY DEF Adapter!AdapterInv
<1>2. \A t \in BatchCallers : /\ Adapter!Ids(t)' = Adapter!Ids(t)
                            /\ Adapter!Adopted(t) \subseteq Adapter!Adopted(t)'
                            /\ (Adapter!Started(t)' <=> Adapter!Started(t))
  BY OwnParts DEF Adapter!Started
<1>3. Adapter!AdapterShape'
  BY <1>1, <1>2 DEF Adapter!AdapterShape
<1>4. Adapter!Owned'
  BY <1>1, <1>2 DEF Adapter!Owned
<1>5. Adapter!ClaimsKnown'
  BY <1>1 DEF Adapter!ClaimsKnown
<1>6. ASSUME NEW t \in BatchCallers PROVE Adapter!SoFar(t)'
  <2>1. Adapter!First(t, s6[t])' = Adapter!First(t, s6[t])
        /\ Adapter!First(t, s7[t])' = Adapter!First(t, s7[t])
    BY DEF Adapter!First
  <2>2. s4[t] \in {"writing", "enqueueing", "dequeuing", "done"} =>
            Adapter!Ids(t) \cap (DOMAIN s1 \ s3) = {}
    BY <1>1 DEF Adapter!SoFar
  <2>3. s4[t] \in {"writing", "enqueueing", "dequeuing", "done"} => Adapter!Ids(t) \cap s9' = {}
    BY <1>1, <2>2 DEF Adapter!SoFar
  <2>4. s4[t] \in {"writing", "enqueueing"} => Adapter!Ids(t) \cap s8' \subseteq Adapter!Ids(t) \cap DOMAIN s1
    BY <1>1 DEF Adapter!SoFar
  <2> QED
    BY <1>1, <1>2, <2>1, <2>3, <2>4 DEF Adapter!SoFar
<1> QED
  BY <1>3, <1>4, <1>5, <1>6 DEF Adapter!AdapterInv

LEMMA WorkerKeeps ==
    ASSUME Adapter!AdapterInv,
           \/ \E m \in BatchIds : Adapter!WorkerClaims(m) \/ Adapter!WorkerEnds(m)
           \/ Adapter!WorkerRestarts
    PROVE  Adapter!AdapterInv'
<1> USE DEF Adapter!call_vars, Adapter!history_vars, Adapter!bound_vars
<1>1. Adapter!AdapterShape /\ Adapter!ClaimsKnown
      /\ \A m \in DOMAIN s1 : {"state", "dependencies"} \subseteq DOMAIN s1[m]
  BY DEF Adapter!AdapterInv, Adapter!AdapterShape
<1>2. ASSUME NEW m \in BatchIds, Adapter!WorkerClaims(m) PROVE Adapter!AdapterInv'
  <2>1. /\ m \in DOMAIN s1 /\ s1' = [s1 EXCEPT ![m].state = "running"]
        /\ \A d \in s1[m].dependencies : d \in DOMAIN s1 /\ s1[d].state = "completed"
    BY <1>2 DEF Adapter!WorkerClaims, Adapter!Q!Claim, Adapter!Q!IsNext, Adapter!Q!Eligible,
                Adapter!Q!MoveTo, Adapter!Q!DepsCompleted, Adapter!Q!InState, Adapter!Q!Known
  <2>2. s1[m].dependencies \subseteq s8
    BY <1>1, <2>1 DEF Adapter!ClaimsKnown
  <2>3. /\ UNCHANGED <<s3, s4, s5, s6, s7, s10>> /\ s8' = s8 \cup {m}
        /\ s9' = IF m \in s3 THEN s9 ELSE s9 \cup {m}
    BY <1>2 DEF Adapter!WorkerClaims
  <2>4. /\ DOMAIN s1' = DOMAIN s1
        /\ \A n \in DOMAIN s1 : /\ {"state", "dependencies"} \subseteq DOMAIN s1'[n]
                                /\ s1'[n].dependencies = s1[n].dependencies
                                /\ s1'[n].state = s1[n].state \/ n \in s8'
    BY <1>1, <2>1, <2>3
  <2> QED
    BY <2>1, <2>2, <2>3, <2>4, WorkerSteps
<1>3. ASSUME NEW m \in BatchIds, Adapter!WorkerEnds(m) PROVE Adapter!AdapterInv'
  <2>1. m \in DOMAIN s1 /\ s1[m].state = "running" /\ UNCHANGED <<s3, s4, s5, s6, s7, s8, s9, s10>>
    BY <1>3 DEF Adapter!WorkerEnds, Adapter!Q!Complete, Adapter!Q!Fail, Adapter!Q!Running,
                Adapter!Q!InState, Adapter!Q!Known
  <2>2. m \in s8
    BY <1>1, <2>1 DEF Adapter!ClaimsKnown
  <2>3. /\ DOMAIN s1' = DOMAIN s1
        /\ \A n \in DOMAIN s1 : /\ {"state", "dependencies"} \subseteq DOMAIN s1'[n]
                                /\ s1'[n].dependencies = s1[n].dependencies
                                /\ n # m => s1'[n] = s1[n]
    <3>1. CASE \E state : s1' = [s1 EXCEPT ![m].state = state]
      BY <1>1, <2>1, <3>1
    <3>2. CASE \E state, n : s1' = [s1 EXCEPT ![m].attempts_done = n, ![m].state = state]
      BY <1>1, <2>1, <3>2
    <3> QED
      BY <1>3, <3>1, <3>2 DEF Adapter!WorkerEnds, Adapter!Q!Complete, Adapter!Q!Fail,
         Adapter!Q!Block, Adapter!Q!MoveTo
  <2> QED
    BY <2>1, <2>2, <2>3, WorkerSteps
<1>4. CASE Adapter!WorkerRestarts
  <2>1. /\ UNCHANGED <<s3, s4, s5, s6, s7, s8, s9, s10>>
        /\ s1' = [m \in DOMAIN s1 |-> IF Adapter!Q!Running(m)
                                      THEN [s1[m] EXCEPT !.state = "retrying"] ELSE s1[m]]
    BY <1>4 DEF Adapter!WorkerRestarts, Adapter!Q!RecoverStale
  <2>2. \A m \in DOMAIN s1 : Adapter!Q!Running(m) => m \in s8
    BY <1>1 DEF Adapter!ClaimsKnown, Adapter!Q!Running, Adapter!Q!InState
  <2>3. \A n \in DOMAIN s1 : /\ {"state", "dependencies"} \subseteq DOMAIN s1'[n]
                             /\ s1'[n].dependencies = s1[n].dependencies
                             /\ s1'[n].state = s1[n].state \/ n \in s8'
    BY <1>1, <2>1, <2>2
  <2> QED
    BY <2>1, <2>3, WorkerSteps
<1> QED
  BY <1>2, <1>3, <1>4

LEMMA AdapterKeeps ==
    Adapter!AdapterInv /\ (Adapter!Next \/ UNCHANGED Adapter!vars) => Adapter!AdapterInv'
<1> SUFFICES ASSUME Adapter!AdapterInv, Adapter!Next \/ UNCHANGED Adapter!vars
             PROVE  Adapter!AdapterInv'
  OBVIOUS
<1>1. CASE UNCHANGED Adapter!vars
  BY <1>1, WorkerSteps DEF Adapter!vars, Adapter!queue_vars, Adapter!call_vars,
     Adapter!history_vars, Adapter!AdapterInv, Adapter!AdapterShape
<1>2. ASSUME NEW s \in BatchCallers, Adapter!Call(s) \/ Adapter!SubmitterDies(s)
      PROVE  Adapter!AdapterInv'
  BY <1>2, SubmitStep, FileSteps, EnqueueItemStep, RollBackStep DEF Adapter!Call
<1> QED
  BY <1>1, <1>2, WorkerKeeps DEF Adapter!Next

LEMMA AdapterHolds == Adapter!AdapterInv => Adapter!BatchIsAtomic
<1> SUFFICES ASSUME Adapter!AdapterInv PROVE Adapter!BatchIsAtomic
  OBVIOUS
<1>1. Adapter!AdapterShape /\ Adapter!Owned /\ \A s \in BatchCallers : Adapter!SoFar(s)
  BY DEF Adapter!AdapterInv
<1>2. Adapter!AcceptedIsWhole
  BY <1>1 DEF Adapter!AcceptedIsWhole, Adapter!SoFar
<1>3. \A s \in BatchCallers : s4[s] = "rejected" =>
          Adapter!Ids(s) \cap DOMAIN s1 \subseteq s8 \cup Adapter!Adopted(s)
  BY <1>1 DEF Adapter!SoFar
<1>4. ASSUME \A s \in BatchCallers : s4[s] \notin Adapter!Active \cup {"crashed"},
             NEW m \in s3
      PROVE  m \in DOMAIN s1 \cup s10
  <2>1. PICK s \in BatchCallers : Adapter!Started(s) /\ m \in Adapter!Ids(s)
    BY <1>1 DEF Adapter!Owned
  <2>2. s4[s] \in {"done", "rejected"}
    BY <1>1, <1>4, <2>1 DEF Adapter!AdapterShape, Adapter!Started
  <2> QED
    BY <1>1, <2>1, <2>2 DEF Adapter!SoFar
<1> QED
  BY <1>2, <1>3, <1>4 DEF Adapter!BatchIsAtomic, Adapter!RejectedLeavesOnlyClaimed

(* enqueue_batch is atomic as far as it can be: an accepted batch is queued   *)
(* as a whole, with its definitions, and a rejected one leaves only missions *)
(* that were claimed, that other calls depend on or whose removal failed,    *)
(* and those these depend on, and files whose write or removal failed: for   *)
(* any calls whose missions have ids of their own and come after those they  *)
(* depend on, any worker, failures and crashes.                              *)
THEOREM BatchesAreAtomic == AnySpec => []BatchIsAtomic
<1> DEFINE Inv == component = "adapter" => Adapter!AdapterInv
<1>1. AnyInit => Inv
  BY AdapterBegins DEF AnyInit
<1>2. Inv /\ [AnyNext]_AnyVars => Inv'
  BY Chosen, AdapterKeeps
<1>3. Inv => BatchIsAtomic
  BY AdapterHolds DEF BatchIsAtomic
<1> QED
  BY <1>1, <1>2, <1>3, PTL DEF AnySpec, AnyVars

-----------------------------------------------------------------------------
(* The flow of requests; the adapter's variables, then s13 pc, s14 request,  *)
(* s15 seen, s16 limiting, s17 registered, s18 origin, s19 sends,            *)
(* s20 accepted, s21 raced, s22 restarts.                                    *)

(* Sets are counted alike in the flow and here.                              *)
LEMMA CountedAlikeThere == \A S : Flow!Cardinality(S) = Cardinality(S)
BY Zenon DEF Flow!Cardinality, Cardinality, Flow!IsFiniteSet, IsFiniteSet

(* The sets that are counted are finite, before a step and after it.         *)
LEMMA FewOfThem ==
    ASSUME NEW r, NEW P
    PROVE  /\ IsFiniteSet(Flow!Made(r)) /\ IsFiniteSet(Flow!Made(r)')
           /\ IsFiniteSet(Flow!With(r, P)) /\ IsFiniteSet(Flow!With(r, P)')
<1>1. ASSUME NEW S \in SUBSET PlannedIds PROVE IsFiniteSet(S)
  BY FlowAssumption, FS_Subset
<1>2. ASSUME NEW S \in SUBSET ApiThreads PROVE IsFiniteSet(S)
  BY FlowAssumption, FS_Subset
<1> QED
  BY <1>1, <1>2 DEF Flow!Made, Flow!With

LEMMA Fewer ==
    ASSUME NEW S, NEW T, IsFiniteSet(S), IsFiniteSet(T)
    PROVE  /\ T \subseteq S => Cardinality(T) <= Cardinality(S)
           /\ \A x : T \subseteq S \cup {x} => Cardinality(T) <= Cardinality(S) + 1
           /\ \A x \in S : T \subseteq S \ {x} => Cardinality(T) <= Cardinality(S) - 1
           /\ Cardinality(S) \in Nat /\ Cardinality(T) \in Nat
<1>1. Cardinality(S) \in Nat /\ Cardinality(T) \in Nat
  BY FS_CardinalityType
<1>2. ASSUME T \subseteq S PROVE Cardinality(T) <= Cardinality(S)
  BY <1>2, FS_Subset
<1>3. ASSUME NEW x, T \subseteq S \cup {x} PROVE Cardinality(T) <= Cardinality(S) + 1
  <2>1. /\ IsFiniteSet(S \cup {x}) /\ Cardinality(S \cup {x}) \in Nat
        /\ Cardinality(S \cup {x}) = IF x \in S THEN Cardinality(S) ELSE Cardinality(S) + 1
    BY FS_AddElement, FS_CardinalityType
  <2>2. Cardinality(T) <= Cardinality(S \cup {x})
    BY <1>3, <2>1, FS_Subset
  <2> QED
    BY <1>1, <2>1, <2>2
<1>4. ASSUME NEW x \in S, T \subseteq S \ {x} PROVE Cardinality(T) <= Cardinality(S) - 1
  <2>1. IsFiniteSet(S \ {x}) /\ Cardinality(S \ {x}) = Cardinality(S) - 1
    BY FS_RemoveElement
  <2>2. Cardinality(T) <= Cardinality(S \ {x})
    BY <1>4, <2>1, FS_Subset
  <2> QED
    BY <2>1, <2>2
<1> QED
  BY <1>1, <1>2, <1>3, <1>4

(* As many missions of a request as were reserved, registered...             *)
LEMMA Recounted ==
    ASSUME NEW r, Flow!Counted(r), s22 \in Nat, s21[r] \in Nat, s22' \in Nat, s21'[r] \in Nat,
           UNCHANGED s16,
           Flow!Made(r)' \subseteq Flow!Made(r),
           LET Allowed == (IF r \in s15 THEN 1 ELSE 0) + s22 + s21[r]
               AllowedNow == (IF r \in s15' THEN 1 ELSE 0) + s22' + s21'[r]
           IN  \/ /\ Flow!With(r, Flow!Admitted)' \subseteq Flow!With(r, Flow!Admitted)
                  /\ AllowedNow >= Allowed
               \/ \E t : /\ Flow!With(r, Flow!Admitted)' \subseteq Flow!With(r, Flow!Admitted) \cup {t}
                         /\ AllowedNow >= Allowed + 1,
           s16 => \/ /\ Flow!With(r, Flow!Limited)' \subseteq Flow!With(r, Flow!Limited)
                     /\ r \in s17 => r \in s17'
                  \/ \E t : /\ Flow!With(r, Flow!Limited)' \subseteq Flow!With(r, Flow!Limited) \cup {t}
                            /\ r \notin s17 /\ r \in s17'
    PROVE  Flow!Counted(r)'
<1> DEFINE M == Flow!Made(r)
           Mn == Flow!Made(r)'
           A == Flow!With(r, Flow!Admitted)
           An == Flow!With(r, Flow!Admitted)'
           L == Flow!With(r, Flow!Limited)
           Ln == Flow!With(r, Flow!Limited)'
           k == IF r \in s15 THEN 1 ELSE 0
           kn == IF r \in s15' THEN 1 ELSE 0
           g == IF r \in s17 THEN 1 ELSE 0
           gn == IF r \in s17' THEN 1 ELSE 0
<1>1. /\ Cardinality(M) + Cardinality(A) <= k + s22 + s21[r]
      /\ s16 => Cardinality(M) + Cardinality(L) <= g
  BY CountedAlikeThere DEF Flow!Counted
<1>2. /\ IsFiniteSet(M) /\ IsFiniteSet(Mn) /\ IsFiniteSet(A) /\ IsFiniteSet(An)
      /\ IsFiniteSet(L) /\ IsFiniteSet(Ln)
  BY FewOfThem
<1>3. /\ k \in Nat /\ kn \in Nat /\ g \in Nat /\ gn \in Nat
      /\ (r \in s17 => r \in s17') => g <= gn
      /\ r \notin s17 /\ r \in s17' => gn = g + 1
  OBVIOUS
<1>4. /\ \/ An \subseteq A /\ kn + s22' + s21'[r] >= k + s22 + s21[r]
         \/ \E t : An \subseteq A \cup {t} /\ kn + s22' + s21'[r] >= k + s22 + s21[r] + 1
      /\ s16 => \/ Ln \subseteq L /\ (r \in s17 => r \in s17')
                \/ \E t : Ln \subseteq L \cup {t} /\ r \notin s17 /\ r \in s17'
      /\ Mn \subseteq M
  OBVIOUS
<1>5. /\ Cardinality(Mn) + Cardinality(An) <= kn + s22' + s21'[r]
      /\ s16 => Cardinality(Mn) + Cardinality(Ln) <= gn
  <2> HIDE DEF M, Mn, A, An, L, Ln, k, kn, g, gn
  <2>1. /\ Cardinality(M) \in Nat /\ Cardinality(Mn) \in Nat /\ Cardinality(A) \in Nat
        /\ Cardinality(An) \in Nat /\ Cardinality(L) \in Nat /\ Cardinality(Ln) \in Nat
    BY <1>2, FS_CardinalityType
  <2>2. Cardinality(Mn) <= Cardinality(M)
    BY <1>2, <1>4, Fewer
  <2>3. Cardinality(Mn) + Cardinality(An) <= kn + s22' + s21'[r]
    <3>1. CASE An \subseteq A /\ kn + s22' + s21'[r] >= k + s22 + s21[r]
      <4>1. Cardinality(An) <= Cardinality(A)
        BY <1>2, <3>1, Fewer
      <4> QED
        BY <1>1, <1>3, <2>1, <2>2, <3>1, <4>1
    <3>2. CASE \E t : An \subseteq A \cup {t} /\ kn + s22' + s21'[r] >= k + s22 + s21[r] + 1
      <4>1. Cardinality(An) <= Cardinality(A) + 1
        BY <1>2, <3>2, Fewer
      <4> QED
        BY <1>1, <1>3, <2>1, <2>2, <3>2, <4>1
    <3> QED
      BY <1>4, <3>1, <3>2
  <2>4. ASSUME s16 PROVE Cardinality(Mn) + Cardinality(Ln) <= gn
    <3>1. CASE Ln \subseteq L /\ (r \in s17 => r \in s17')
      <4>1. Cardinality(Ln) <= Cardinality(L)
        BY <1>2, <3>1, Fewer
      <4> QED
        BY <1>1, <1>3, <2>1, <2>2, <2>4, <3>1, <4>1
    <3>2. CASE \E t : Ln \subseteq L \cup {t} /\ r \notin s17 /\ r \in s17'
      <4>1. Cardinality(Ln) <= Cardinality(L) + 1
        BY <1>2, <3>2, Fewer
      <4> QED
        BY <1>1, <1>3, <2>1, <2>2, <2>4, <3>2, <4>1
    <3> QED
      BY <1>4, <2>4, <3>1, <3>2
  <2> QED
    BY <2>3, <2>4
<1> QED
  BY <1>5, CountedAlikeThere DEF Flow!Counted

(* ...also when a thread that was on its way to making one makes it.         *)
LEMMA OneMade ==
    ASSUME NEW r, Flow!Counted(r), s22 \in Nat, s21[r] \in Nat,
           UNCHANGED <<s15, s16, s17, s21, s22>>,
           NEW t \in Flow!With(r, Flow!Limited), NEW m,
           Flow!Made(r)' \subseteq Flow!Made(r) \cup {m},
           Flow!With(r, Flow!Admitted)' \subseteq Flow!With(r, Flow!Admitted) \ {t},
           Flow!With(r, Flow!Limited)' \subseteq Flow!With(r, Flow!Limited) \ {t}
    PROVE  Flow!Counted(r)'
<1> DEFINE M == Flow!Made(r)
           Mn == Flow!Made(r)'
           A == Flow!With(r, Flow!Admitted)
           An == Flow!With(r, Flow!Admitted)'
           L == Flow!With(r, Flow!Limited)
           Ln == Flow!With(r, Flow!Limited)'
           k == (IF r \in s15 THEN 1 ELSE 0) + s22 + s21[r]
           g == IF r \in s17 THEN 1 ELSE 0
<1>1. Cardinality(M) + Cardinality(A) <= k /\ (s16 => Cardinality(M) + Cardinality(L) <= g)
      /\ k \in Nat /\ g \in Nat
  BY CountedAlikeThere DEF Flow!Counted
<1>2. /\ IsFiniteSet(M) /\ IsFiniteSet(Mn) /\ IsFiniteSet(A) /\ IsFiniteSet(An)
      /\ IsFiniteSet(L) /\ IsFiniteSet(Ln)
  BY FewOfThem
<1>3. t \in A /\ t \in L /\ An \subseteq A \ {t} /\ Ln \subseteq L \ {t} /\ Mn \subseteq M \cup {m}
  BY DEF Flow!With, Flow!Admitted, Flow!Limited
<1>4. /\ Cardinality(Mn) + Cardinality(An) <= k
      /\ s16 => Cardinality(Mn) + Cardinality(Ln) <= g
  <2> HIDE DEF M, Mn, A, An, L, Ln, k, g
  <2>1. /\ Cardinality(M) \in Nat /\ Cardinality(Mn) \in Nat /\ Cardinality(A) \in Nat
        /\ Cardinality(An) \in Nat /\ Cardinality(L) \in Nat /\ Cardinality(Ln) \in Nat
    BY <1>2, FS_CardinalityType
  <2>2. Cardinality(Mn) <= Cardinality(M) + 1
    BY <1>2, <1>3, Fewer
  <2>3. Cardinality(An) <= Cardinality(A) - 1
    BY <1>2, <1>3, Fewer
  <2>4. Cardinality(Ln) <= Cardinality(L) - 1
    BY <1>2, <1>3, Fewer
  <2> QED
    BY <1>1, <2>1, <2>2, <2>3, <2>4
<1> QED
  BY <1>4, CountedAlikeThere DEF Flow!Counted

LEMMA FlowBegins == Flow!Init => Flow!FlowInv
<1> SUFFICES ASSUME Flow!Init PROVE Flow!FlowInv
  OBVIOUS
<1> USE DEF Flow!Init, Flow!A!Init, Flow!A!Q!Init, Flow!Submitters
<1>1. Flow!FlowShape
  BY DEF Flow!FlowShape
<1>2. Flow!Underway /\ Flow!Kept
  BY DEF Flow!Underway, Flow!Resting, Flow!Kept
<1>3. ASSUME NEW r \in ClientRequests PROVE Flow!Counted(r)
  <2>1. Flow!Made(r) = {} /\ \A P : Flow!With(r, P) = {}
    BY FlowAssumption DEF Flow!Made, Flow!With
  <2>2. Cardinality(Flow!Made(r)) = 0 /\ \A P : Cardinality(Flow!With(r, P)) = 0
    BY <2>1, FS_EmptySet
  <2>3. s15 = {} /\ s17 = {} /\ s21[r] = 0 /\ s22 = 0
    BY <1>3
  <2> QED
    BY <2>2, <2>3, CountedAlikeThere DEF Flow!Counted
<1> QED
  BY <1>1, <1>2, <1>3 DEF Flow!FlowInv

(* A thread that is not enqueueing goes on, or answers, and the queue stays  *)
(* as it is.                                                                 *)
LEMMA MovesOn ==
    ASSUME Flow!FlowInv, NEW t \in ApiThreads, s13[t] # "enqueueing",
           NEW place \in {"idle", "validating", "reserving"} \cup Flow!Admitted,
           NEW q \in ClientRequests \cup {Flow!None},
           place # "idle" => q \in ClientRequests,
           place \in Flow!Admitted => q = s14[t],
           s13' = [s13 EXCEPT ![t] = place], s14' = [s14 EXCEPT ![t] = q],
           UNCHANGED <<s1, s3, s4, s5, s6, s7, s16, s18, s20, s22>>,
           \/ /\ place \in Flow!Admitted => s13[t] \in Flow!Admitted
              /\ UNCHANGED <<s15, s21>>
           \/ /\ s15' = s15 \cup {s14[t]}
              /\ s21' = IF s14[t] \in s15 THEN [s21 EXCEPT ![s14[t]] = @ + 1] ELSE s21,
           s16 => \/ (place \in Flow!Limited => s13[t] \in Flow!Limited) /\ UNCHANGED s17
                  \/ s14[t] \notin s17 /\ s17' = s17 \cup {s14[t]}
    PROVE  Flow!FlowInv'
<1>1. Flow!FlowShape /\ Flow!Underway /\ Flow!Kept /\ \A r \in ClientRequests : Flow!Counted(r)
  BY DEF Flow!FlowInv
<1>2. /\ s13'[t] = place /\ s14'[t] = q
      /\ \A u \in ApiThreads \ {t} : s13'[u] = s13[u] /\ s14'[u] = s14[u]
      /\ DOMAIN s13 = ApiThreads
  BY <1>1 DEF Flow!FlowShape
<1>3. Flow!FlowShape'
  <2>1. s13' \in [ApiThreads -> {"idle", "validating", "reserving", "enqueueing"} \cup Flow!Admitted]
    BY <1>1 DEF Flow!FlowShape
  <2>2. s14' \in [ApiThreads -> ClientRequests \cup {Flow!None}]
    BY <1>1 DEF Flow!FlowShape
  <2>3. s21' \in [ClientRequests -> Nat]
    BY <1>1 DEF Flow!FlowShape
  <2> QED
    BY <1>1, <1>2, <2>1, <2>2, <2>3 DEF Flow!FlowShape
<1>4. Flow!Underway'
  <2>1. ASSUME NEW u \in ApiThreads, Flow!Resting(u) PROVE Flow!Resting(u)'
    BY <2>1 DEF Flow!Resting
  <2>2. place # "enqueueing" /\ Flow!Resting(t)
    BY <1>1 DEF Flow!Underway, Flow!Admitted
  <2>3. ASSUME NEW u \in ApiThreads, s13[u] = "enqueueing", Flow!Enqueueing(u)
        PROVE  Flow!Enqueueing(u)'
    <3>1. u # t /\ \A v \in ApiThreads : s13'[v] = "enqueueing" => s13[v] = "enqueueing"
      BY <1>2, <2>2, <2>3
    <3> QED
      BY <1>2, <2>3, <3>1 DEF Flow!Enqueueing, Flow!Its
  <2> QED
    BY <1>1, <1>2, <2>1, <2>2, <2>3 DEF Flow!Underway
<1>5. Flow!Kept'
  <2>1. \A v \in ApiThreads : s13'[v] = "enqueueing" => s13[v] = "enqueueing"
    BY <1>2 DEF Flow!Admitted
  <2> QED
    BY <1>1, <2>1 DEF Flow!Kept, Flow!Its
<1>6. ASSUME NEW r \in ClientRequests PROVE Flow!Counted(r)'
  <2>1. Flow!Counted(r) /\ s22 \in Nat /\ s21[r] \in Nat /\ s22' \in Nat /\ s21'[r] \in Nat
    BY <1>1, <1>3 DEF Flow!FlowShape
  <2>2. Flow!Made(r)' = Flow!Made(r)
    BY DEF Flow!Made
  <2>3. ASSUME NEW P PROVE Flow!With(r, P)' \subseteq Flow!With(r, P) \cup {t}
    BY <1>2 DEF Flow!With
  <2>4. ASSUME NEW P, place \in P => s13[t] \in P /\ q = s14[t]
        PROVE  Flow!With(r, P)' \subseteq Flow!With(r, P)
    BY <1>2, <2>4 DEF Flow!With
  <2>5. ASSUME NEW P, place \in P => q = s14[t], r # s14[t]
        PROVE  Flow!With(r, P)' \subseteq Flow!With(r, P)
    BY <1>2, <2>5 DEF Flow!With
  <2>6. place \in Flow!Limited => place \in Flow!Admitted
    BY DEF Flow!Limited, Flow!Admitted
  <2>7. LET Allowed == (IF r \in s15 THEN 1 ELSE 0) + s22 + s21[r]
            AllowedNow == (IF r \in s15' THEN 1 ELSE 0) + s22' + s21'[r]
        IN  \/ /\ Flow!With(r, Flow!Admitted)' \subseteq Flow!With(r, Flow!Admitted)
               /\ AllowedNow >= Allowed
            \/ \E u : /\ Flow!With(r, Flow!Admitted)' \subseteq Flow!With(r, Flow!Admitted) \cup {u}
                      /\ AllowedNow >= Allowed + 1
    <3>1. CASE /\ place \in Flow!Admitted => s13[t] \in Flow!Admitted
               /\ UNCHANGED <<s15, s21>>
      BY <2>1, <2>4, <3>1
    <3>2. CASE /\ s15' = s15 \cup {s14[t]}
               /\ s21' = IF s14[t] \in s15 THEN [s21 EXCEPT ![s14[t]] = @ + 1] ELSE s21
      <4>1. CASE r # s14[t]
        BY <1>1, <2>1, <2>5, <3>2, <4>1 DEF Flow!FlowShape
      <4>2. CASE r = s14[t]
        <5>1. (IF r \in s15' THEN 1 ELSE 0) + s22' + s21'[r]
                  >= (IF r \in s15 THEN 1 ELSE 0) + s22 + s21[r] + 1
          BY <1>1, <2>1, <3>2, <4>2 DEF Flow!FlowShape
        <5> QED
          BY <2>3, <5>1
      <4> QED
        BY <4>1, <4>2
    <3> QED
      BY <3>1, <3>2
  <2>8. s16 => \/ /\ Flow!With(r, Flow!Limited)' \subseteq Flow!With(r, Flow!Limited)
                  /\ r \in s17 => r \in s17'
               \/ \E u : /\ Flow!With(r, Flow!Limited)' \subseteq Flow!With(r, Flow!Limited) \cup {u}
                         /\ r \notin s17 /\ r \in s17'
    <3>1. CASE (place \in Flow!Limited => s13[t] \in Flow!Limited) /\ UNCHANGED s17
      BY <2>4, <2>6, <3>1
    <3>2. CASE s14[t] \notin s17 /\ s17' = s17 \cup {s14[t]}
      <4>1. CASE r # s14[t]
        BY <2>5, <2>6, <3>2, <4>1
      <4>2. CASE r = s14[t]
        BY <2>3, <3>2, <4>2
      <4> QED
        BY <4>1, <4>2
    <3> QED
      BY <3>1, <3>2
  <2> QED
    BY <2>1, <2>2, <2>7, <2>8, Recounted
<1> QED
  BY <1>3, <1>4, <1>5, <1>6 DEF Flow!FlowInv

(* Steps of a thread that leave the queue alone.                             *)
LEMMA GateSteps ==
    ASSUME Flow!FlowInv, NEW t \in ApiThreads,
           \/ Flow!Validate(t) \/ Flow!Reserve(t) \/ Flow!Resolve(t) \/ Flow!SelectModel(t)
           \/ Flow!Preflight(t) \/ Flow!Register(t) \/ Flow!CallPlanner(t) \/ Flow!PlanFails(t)
           \/ \E r \in ClientRequests : Flow!Receive(t, r)
    PROVE  Flow!FlowInv'
<1> USE DEF Flow!adapter_vars, Flow!call_vars, Flow!gate_vars, Flow!history_vars, Flow!Go
<1>1. Flow!FlowShape
  BY DEF Flow!FlowInv
<1>2. s14[t] \in ClientRequests \cup {Flow!None} /\ s14 = [s14 EXCEPT ![t] = s14[t]]
      /\ (s13[t] # "idle" => s14[t] \in ClientRequests)
  BY <1>1 DEF Flow!FlowShape
<1>3. Flow!None \in ClientRequests \cup {Flow!None}
  OBVIOUS
<1>4. ASSUME Flow!Refuse(t), s13[t] # "enqueueing" PROVE Flow!FlowInv'
  <2>1. /\ s13' = [s13 EXCEPT ![t] = "idle"] /\ s14' = [s14 EXCEPT ![t] = Flow!None]
        /\ UNCHANGED <<s1, s3, s4, s5, s6, s7, s15, s16, s17, s18, s20, s21, s22>>
    BY <1>4 DEF Flow!Refuse, Flow!Leave
  <2>2. "idle" \in {"idle", "validating", "reserving"} \cup Flow!Admitted
        /\ "idle" \notin Flow!Admitted /\ "idle" \notin Flow!Limited
    BY DEF Flow!Admitted, Flow!Limited
  <2> QED
    BY <1>3, <1>4, <2>1, <2>2, MovesOn
<1>5. ASSUME NEW from \in Flow!Admitted, NEW to \in Flow!Admitted, Flow!Pass(t, from, to),
             to \in Flow!Limited => from \in Flow!Limited
      PROVE  Flow!FlowInv'
  <2>1. /\ s13' = [s13 EXCEPT ![t] = to] /\ s13[t] = from
        /\ UNCHANGED <<s1, s3, s4, s5, s6, s7, s14, s15, s16, s17, s18, s20, s21, s22>>
    BY <1>5 DEF Flow!Pass
  <2>2. s14' = [s14 EXCEPT ![t] = s14[t]] /\ s13[t] # "enqueueing" /\ s13[t] # "idle"
    BY <1>2, <2>1 DEF Flow!Admitted
  <2> QED
    BY <1>2, <1>5, <2>1, <2>2, MovesOn
<1>6. CASE Flow!Validate(t)
  <2>1. CASE Flow!Refuse(t)
    BY <1>4, <1>6, <2>1 DEF Flow!Validate
  <2>2. CASE ~Flow!Refuse(t)
    <3>1. /\ s13' = [s13 EXCEPT ![t] = "reserving"] /\ s13[t] = "validating"
          /\ UNCHANGED <<s1, s3, s4, s5, s6, s7, s14, s15, s16, s17, s18, s20, s21, s22>>
      BY <1>6, <2>2 DEF Flow!Validate
    <3>2. "reserving" \notin Flow!Admitted /\ "reserving" \notin Flow!Limited
      BY DEF Flow!Admitted, Flow!Limited
    <3> QED
      BY <1>2, <3>1, <3>2, MovesOn
  <2> QED
    BY <2>1, <2>2
<1>7. CASE Flow!Reserve(t)
  <2>1. /\ s13' = [s13 EXCEPT ![t] = "resolving"] /\ s13[t] = "reserving"
        /\ s15' = s15 \cup {s14[t]}
        /\ s21' = IF s14[t] \in s15 THEN [s21 EXCEPT ![s14[t]] = @ + 1] ELSE s21
        /\ UNCHANGED <<s1, s3, s4, s5, s6, s7, s14, s16, s17, s18, s20, s22>>
    BY <1>7 DEF Flow!Reserve
  <2>2. "resolving" \in Flow!Admitted /\ "resolving" \notin Flow!Limited
    BY DEF Flow!Admitted, Flow!Limited
  <2> QED
    BY <1>2, <2>1, <2>2, MovesOn
<1>8. CASE Flow!Register(t)
  <2>1. s13[t] = "limiting" /\ "planning" \in Flow!Admitted /\ s13[t] \in Flow!Admitted
        /\ "idle" \in {"idle", "validating", "reserving"} \cup Flow!Admitted
        /\ "idle" \notin Flow!Admitted /\ "idle" \notin Flow!Limited
    BY <1>8 DEF Flow!Register, Flow!Admitted, Flow!Limited
  <2>2. CASE Flow!Refuse(t)
    BY <1>4, <2>1, <2>2
  <2>3. CASE s16 /\ ~Flow!Refuse(t)
    <3>1. /\ s14[t] \notin s17 /\ s17' = s17 \cup {s14[t]}
          /\ UNCHANGED <<s1, s3, s4, s5, s6, s7, s15, s16, s18, s20, s21, s22>>
          /\ \/ s13' = [s13 EXCEPT ![t] = "planning"] /\ UNCHANGED s14
             \/ s13' = [s13 EXCEPT ![t] = "idle"] /\ s14' = [s14 EXCEPT ![t] = Flow!None]
      BY <1>8, <2>3 DEF Flow!Register, Flow!Leave
    <3>2. CASE s13' = [s13 EXCEPT ![t] = "planning"] /\ UNCHANGED s14
      BY <1>2, <2>1, <3>1, <3>2, MovesOn
    <3>3. CASE s13' = [s13 EXCEPT ![t] = "idle"] /\ s14' = [s14 EXCEPT ![t] = Flow!None]
      BY <1>3, <2>1, <3>1, <3>3, MovesOn
    <3> QED
      BY <3>1, <3>2, <3>3
  <2>4. CASE ~s16
    <3>1. /\ s13' = [s13 EXCEPT ![t] = "planning"]
          /\ UNCHANGED <<s1, s3, s4, s5, s6, s7, s14, s15, s16, s17, s18, s20, s21, s22>>
      BY <1>8, <2>4 DEF Flow!Register
    <3> QED
      BY <1>2, <2>1, <2>4, <3>1, MovesOn
  <2> QED
    BY <2>2, <2>3, <2>4
<1>9. CASE Flow!PlanFails(t) \/ Flow!Resolve(t) \/ Flow!SelectModel(t)
           \/ Flow!Preflight(t) \/ Flow!CallPlanner(t)
  <2>1. \/ Flow!Refuse(t) /\ s13[t] # "enqueueing"
        \/ Flow!Pass(t, "resolving", "selecting") \/ Flow!Pass(t, "selecting", "budgeting")
        \/ Flow!Pass(t, "budgeting", "limiting") \/ Flow!Pass(t, "planning", "building")
    BY <1>9 DEF Flow!PlanFails, Flow!Resolve, Flow!SelectModel, Flow!Preflight, Flow!CallPlanner
  <2>2. /\ {"resolving", "selecting", "budgeting", "limiting", "planning", "building"} \subseteq Flow!Admitted
        /\ {"selecting", "budgeting", "limiting"} \cap Flow!Limited = {}
        /\ "planning" \in Flow!Limited
    BY DEF Flow!Admitted, Flow!Limited
  <2> QED
    BY <1>4, <1>5, <2>1, <2>2
<1>10. ASSUME NEW r \in ClientRequests, Flow!Receive(t, r) PROVE Flow!FlowInv'
  <2>1. /\ s13' = [s13 EXCEPT ![t] = "validating"] /\ s13[t] = "idle"
        /\ s14' = [s14 EXCEPT ![t] = r]
        /\ UNCHANGED <<s1, s3, s4, s5, s6, s7, s15, s16, s17, s18, s20, s21, s22>>
    BY <1>10 DEF Flow!Receive
  <2>2. "validating" \notin Flow!Admitted /\ "validating" \notin Flow!Limited
    BY DEF Flow!Admitted, Flow!Limited
  <2> QED
    BY <2>1, <2>2, MovesOn
<1> QED
  BY <1>6, <1>7, <1>8, <1>9, <1>10

(* The thread with a plan: its mission is new, and nobody else's.            *)
LEMMA PlanStep ==
    ASSUME Flow!FlowInv, NEW t \in ApiThreads, Flow!Plan(t)
    PROVE  Flow!FlowInv'
<1>1. Flow!FlowShape /\ Flow!Underway /\ Flow!Kept /\ \A r \in ClientRequests : Flow!Counted(r)
  BY DEF Flow!FlowInv
<1>2. PICK m \in PlannedIds : s5' = [s5 EXCEPT ![t] = <<[id |-> m, dependencies |-> {}]>>]
  <2>1. PICK b \in Flow!Batches[t] : s5' = [s5 EXCEPT ![t] = b]
    BY DEF Flow!Plan, Flow!A!Submit
  <2>2. Flow!Batches[t] = {<<[id |-> n, dependencies |-> {}]>> : n \in PlannedIds}
    BY DEF Flow!Batches
  <2>3. PICK n \in PlannedIds : b = <<[id |-> n, dependencies |-> {}]>>
    BY <2>2
  <2> QED
    BY <2>1, <2>3
<1>3. /\ s13[t] = "building" /\ s13' = [s13 EXCEPT ![t] = "enqueueing"]
      /\ s4[t] = "idle" /\ \E place \in {"writing", "refused"} : s4' = [s4 EXCEPT ![t] = place]
      /\ UNCHANGED <<s1, s3, s6, s7, s14, s15, s16, s17, s20, s21, s22>>
  BY DEF Flow!Plan, Flow!A!Submit, Flow!Go, Flow!gate_vars, Flow!A!queue_vars
<1>4. s5'[t] = <<[id |-> m, dependencies |-> {}]>> /\ s5'[t][1].id = m
  BY <1>1, <1>2 DEF Flow!FlowShape
<1>5. s18[m] = Flow!None /\ s18' = [s18 EXCEPT ![m] = s14[t]]
  <2>1. /\ \A n \in PlannedIds : s18[n] = Flow!None <=> n >= m
        /\ s18' = [s18 EXCEPT ![m] = s14[t]]
    BY <1>4 DEF Flow!Plan
  <2>2. m >= m
    BY FlowAssumption
  <2> QED
    BY <2>1, <2>2
<1>6. /\ s13'[t] = "enqueueing" /\ s4'[t] \in {"writing", "refused"} /\ s14[t] \in ClientRequests
      /\ s18'[m] = s14[t] /\ s6[t] = 0 /\ s7[t] = 0
      /\ \A u \in ApiThreads \ {t} : s13'[u] = s13[u] /\ s4'[u] = s4[u] /\ s5'[u] = s5[u]
      /\ \A n \in PlannedIds \ {m} : s18'[n] = s18[n]
  <2>1. /\ DOMAIN s13 = ApiThreads /\ DOMAIN s4 = ApiThreads /\ DOMAIN s5 = ApiThreads
        /\ DOMAIN s18 = PlannedIds /\ s14[t] \in ClientRequests
    BY <1>1, <1>3 DEF Flow!FlowShape
  <2>2. s6[t] = 0 /\ s7[t] = 0
    BY <1>1, <1>3 DEF Flow!Underway, Flow!Resting
  <2> QED
    BY <1>2, <1>3, <1>5, <2>1, <2>2
<1>7. Flow!FlowShape'
  <2>1. s13' \in [ApiThreads -> {"idle", "validating", "reserving", "enqueueing"} \cup Flow!Admitted]
    BY <1>1, <1>3 DEF Flow!FlowShape
  <2>2. s18' \in [PlannedIds -> ClientRequests \cup {Flow!None}]
    BY <1>1, <1>5, <1>6 DEF Flow!FlowShape
  <2>3. \A u \in ApiThreads : s13'[u] # "idle" => s14[u] \in ClientRequests
    BY <1>1, <1>6 DEF Flow!FlowShape
  <2> QED
    BY <1>1, <1>2, <1>3, <2>1, <2>2, <2>3 DEF Flow!FlowShape
<1>8. \A u \in ApiThreads \ {t} : s13[u] = "enqueueing" => Flow!Its(u) # m
  BY <1>1, <1>5, FlowAssumption DEF Flow!Underway, Flow!Enqueueing, Flow!FlowShape
<1>9. Flow!Underway'
  <2>1. Flow!Enqueueing(t)'
    <3>1. Flow!Its(t)' = m /\ \A u \in ApiThreads \ {t} : Flow!Its(u)' = Flow!Its(u)
      BY <1>4, <1>6 DEF Flow!Its
    <3>2. \A u \in ApiThreads \ {t} : s13'[u] = "enqueueing" => Flow!Its(u)' # m
      BY <1>6, <1>8, <3>1
    <3> QED
      BY <1>3, <1>4, <1>6, <3>1, <3>2 DEF Flow!Enqueueing
  <2>2. ASSUME NEW u \in ApiThreads \ {t}, s13[u] = "enqueueing"
        PROVE  Flow!Enqueueing(u)'
    <3>1. Flow!Enqueueing(u) /\ Flow!Its(u) # m
      BY <1>1, <1>8, <2>2 DEF Flow!Underway
    <3>2. Flow!Its(t)' = m /\ \A v \in ApiThreads \ {t} : Flow!Its(v)' = Flow!Its(v)
      BY <1>4, <1>6 DEF Flow!Its
    <3>3. \A v \in ApiThreads \ {u} : s13'[v] = "enqueueing" => Flow!Its(v)' # Flow!Its(u)'
      BY <1>6, <3>1, <3>2 DEF Flow!Enqueueing
    <3>4. /\ Flow!Its(u)' = Flow!Its(u) /\ Flow!Its(u) \in PlannedIds
          /\ s18'[Flow!Its(u)] = s18[Flow!Its(u)]
          /\ s4'[u] = s4[u] /\ s5'[u] = s5[u] /\ s6'[u] = s6[u] /\ s7'[u] = s7[u]
          /\ s14'[u] = s14[u] /\ UNCHANGED <<s1, s3>>
      BY <1>3, <1>6, <3>1, <3>2 DEF Flow!Enqueueing
    <3> QED
      BY <3>1, <3>3, <3>4 DEF Flow!Enqueueing
  <2>3. ASSUME NEW u \in ApiThreads \ {t}, s13[u] # "enqueueing" PROVE Flow!Resting(u)'
    BY <1>1, <1>3, <1>6, <2>3 DEF Flow!Underway, Flow!Resting
  <2> QED
    BY <1>6, <2>1, <2>2, <2>3 DEF Flow!Underway
<1>10. Flow!Kept'
  <2>1. ASSUME NEW n \in DOMAIN s1 \cap s3, s18[n] \in s20,
               \A u \in ApiThreads : s13[u] = "enqueueing" => Flow!Its(u) # n
        PROVE  s18'[n] = s18[n] /\ \A u \in ApiThreads : s13'[u] = "enqueueing" => Flow!Its(u)' # n
    <3>1. n \in PlannedIds /\ n # m
      BY <1>1, <1>5, <2>1, FlowAssumption DEF Flow!FlowShape
    <3>2. Flow!Its(t)' = m /\ \A u \in ApiThreads \ {t} : Flow!Its(u)' = Flow!Its(u)
      BY <1>4, <1>6 DEF Flow!Its
    <3> QED
      BY <1>6, <2>1, <3>1, <3>2
  <2> QED
    BY <1>1, <1>3, <2>1 DEF Flow!Kept
<1>11. ASSUME NEW r \in ClientRequests PROVE Flow!Counted(r)'
  <2>1. Flow!Counted(r) /\ s22 \in Nat /\ s21[r] \in Nat
    BY <1>1, <1>11 DEF Flow!FlowShape
  <2>2. ASSUME NEW P, "enqueueing" \notin P
        PROVE  /\ Flow!With(r, P)' \subseteq Flow!With(r, P)
               /\ Flow!With(r, P)' \subseteq Flow!With(r, P) \ {t}
    BY <1>3, <1>6, <2>2 DEF Flow!With
  <2>3. "enqueueing" \notin Flow!Admitted /\ "enqueueing" \notin Flow!Limited
        /\ "building" \in Flow!Limited
    BY DEF Flow!Admitted, Flow!Limited
  <2>4. CASE r = s14[t]
    <3>1. Flow!Made(r)' \subseteq Flow!Made(r) \cup {m}
      BY <1>6 DEF Flow!Made
    <3>2. t \in Flow!With(r, Flow!Limited)
      BY <1>3, <2>3, <2>4 DEF Flow!With
    <3> QED
      BY <1>3, <2>1, <2>2, <2>3, <3>1, <3>2, OneMade
  <2>5. CASE r # s14[t]
    <3>1. Flow!Made(r)' \subseteq Flow!Made(r)
      BY <1>6, <2>5 DEF Flow!Made
    <3>2. s22' \in Nat /\ s21'[r] \in Nat
      BY <1>3, <2>1
    <3> QED
      BY <1>3, <2>1, <2>2, <2>3, <3>1, <3>2, Recounted
  <2> QED
    BY <2>4, <2>5
<1> QED
  BY <1>7, <1>9, <1>10, <1>11 DEF Flow!FlowInv

(* Requests are counted by variables the queue has no part in.               *)
LEMMA CountsStay ==
    ASSUME UNCHANGED Flow!flow_vars, NEW r, Flow!Counted(r)
    PROVE  Flow!Counted(r)'
<1>1. UNCHANGED <<s13, s14, s15, s16, s17, s18, s20, s21, s22>>
  BY DEF Flow!flow_vars, Flow!gate_vars, Flow!history_vars
<1>2. Flow!Made(r)' = Flow!Made(r) /\ \A P : Flow!With(r, P)' = Flow!With(r, P)
  BY <1>1 DEF Flow!Made, Flow!With
<1> QED
  BY <1>1, <1>2 DEF Flow!Counted

(* A step of a thread's call touches only its own mission and its own file.  *)
LEMMA CallGoesOn ==
    ASSUME Flow!FlowInv, UNCHANGED Flow!flow_vars, UNCHANGED s5,
           NEW t \in ApiThreads, s13[t] = "enqueueing", Flow!Enqueueing(t)',
           DOMAIN s4' = ApiThreads, DOMAIN s6' = ApiThreads, DOMAIN s7' = ApiThreads,
           \A u \in ApiThreads \ {t} : s4'[u] = s4[u] /\ s6'[u] = s6[u] /\ s7'[u] = s7[u],
           DOMAIN s1' \subseteq DOMAIN s1 \cup {Flow!Its(t)},
           DOMAIN s1 \subseteq DOMAIN s1' \cup {Flow!Its(t)},
           s3 \subseteq s3' \cup {Flow!Its(t)}
    PROVE  Flow!FlowInv'
<1>1. Flow!FlowShape /\ Flow!Underway /\ Flow!Kept /\ \A r \in ClientRequests : Flow!Counted(r)
  BY DEF Flow!FlowInv
<1>2. UNCHANGED <<s5, s13, s14, s15, s16, s17, s18, s20, s21, s22>>
  BY DEF Flow!flow_vars, Flow!gate_vars, Flow!history_vars
<1>3. Flow!Enqueueing(t)
  BY <1>1 DEF Flow!Underway
<1>4. Flow!FlowShape'
  <2>1. Flow!Its(t) \in PlannedIds
    BY <1>3 DEF Flow!Enqueueing
  <2> QED
    BY <1>1, <1>2, <2>1 DEF Flow!FlowShape
<1>5. \A u \in ApiThreads : Flow!Its(u)' = Flow!Its(u)
  BY <1>2 DEF Flow!Its
<1>6. Flow!Underway'
  <2>1. ASSUME NEW u \in ApiThreads \ {t}, s13[u] = "enqueueing" PROVE Flow!Enqueueing(u)'
    <3>1. Flow!Enqueueing(u) /\ Flow!Its(u) # Flow!Its(t)
      BY <1>1, <1>3, <2>1 DEF Flow!Underway, Flow!Enqueueing
    <3>2. /\ Flow!Its(u) \in s3 => Flow!Its(u) \in s3'
          /\ Flow!Its(u) \in DOMAIN s1 => Flow!Its(u) \in DOMAIN s1'
      BY <3>1
    <3> QED
      BY <1>2, <1>5, <3>1, <3>2 DEF Flow!Enqueueing
  <2>2. ASSUME NEW u \in ApiThreads, s13[u] # "enqueueing" PROVE Flow!Resting(u)'
    BY <1>1, <2>2 DEF Flow!Underway, Flow!Resting
  <2> QED
    BY <1>2, <2>1, <2>2 DEF Flow!Underway
<1>7. Flow!Kept'
  <2>1. \A m \in DOMAIN s1 \cap s3 :
            (\A u \in ApiThreads : s13[u] = "enqueueing" => Flow!Its(u) # m)
                => m \in DOMAIN s1' \cap s3'
    OBVIOUS
  <2> QED
    BY <1>1, <1>2, <1>5, <2>1 DEF Flow!Kept
<1> QED
  BY <1>1, <1>4, <1>6, <1>7, CountsStay DEF Flow!FlowInv

LEMMA EnqueueSteps ==
    ASSUME Flow!FlowInv, NEW t \in ApiThreads, Flow!Enqueue(t)
    PROVE  Flow!FlowInv'
<1> DEFINE m == Flow!Its(t)
<1>1. Flow!FlowShape /\ s13[t] = "enqueueing" /\ Flow!Enqueueing(t) /\ Flow!A!Call(t)
      /\ UNCHANGED Flow!flow_vars
  BY DEF Flow!FlowInv, Flow!Underway, Flow!Enqueue
<1>2. /\ UNCHANGED <<s13, s14, s15, s16, s17, s18, s20, s21, s22>>
      /\ s4[t] # "idle" /\ ~Flow!A!Submit(t)
  BY <1>1 DEF Flow!flow_vars, Flow!gate_vars, Flow!history_vars, Flow!Enqueueing, Flow!A!Submit
<1>3. /\ DOMAIN s4 = ApiThreads /\ DOMAIN s5 = ApiThreads
      /\ DOMAIN s6 = ApiThreads /\ DOMAIN s7 = ApiThreads
  BY <1>1 DEF Flow!FlowShape
<1>4. /\ s5[t] = <<[id |-> m, dependencies |-> {}]>> /\ Len(s5[t]) = 1
      /\ s5[t][1].id = m /\ s5[t][1].dependencies = {}
      /\ s6[t] \in 0..1 /\ s7[t] \in 0..1 /\ m \in PlannedIds
  BY <1>1 DEF Flow!Enqueueing
(* What remains to be shown of each step.                                    *)
<1>5. ASSUME UNCHANGED s5,
             /\ DOMAIN s4' = ApiThreads /\ DOMAIN s6' = ApiThreads /\ DOMAIN s7' = ApiThreads
             /\ \A u \in ApiThreads \ {t} : s4'[u] = s4[u] /\ s6'[u] = s6[u] /\ s7'[u] = s7[u],
             /\ DOMAIN s1' \subseteq DOMAIN s1 \cup {m}
             /\ DOMAIN s1 \subseteq DOMAIN s1' \cup {m}
             /\ s3 \subseteq s3' \cup {m},
             /\ s4'[t] # "idle" /\ s6'[t] \in 0..1 /\ s7'[t] \in 0..1
             /\ s4'[t] = "writing" => s7'[t] = 0 /\ (s6'[t] = 1 => m \in s3')
             /\ s4'[t] = "enqueueing" => m \in s3' /\ (s7'[t] = 1 => m \in DOMAIN s1')
             /\ s4'[t] = "done" => m \in s3' \cap DOMAIN s1'
      PROVE  Flow!FlowInv'
  <2>1. \A u \in ApiThreads : Flow!Its(u)' = Flow!Its(u)
    BY <1>5 DEF Flow!Its
  <2>2. Flow!Enqueueing(t)'
    BY <1>1, <1>2, <1>5, <2>1 DEF Flow!Enqueueing
  <2> QED
    BY <1>1, <1>5, <2>2, CallGoesOn
<1>6. /\ s4[t] = "writing" => s7[t] = 0 /\ (s6[t] = 1 => m \in s3)
      /\ s4[t] = "enqueueing" => m \in s3 /\ (s7[t] = 1 => m \in DOMAIN s1)
  BY <1>1 DEF Flow!Enqueueing
<1> USE DEF Flow!A!queue_vars, Flow!A!Goes
<1>7. CASE Flow!A!WriteDefinition(t)
  <2>1. /\ s4[t] = "writing" /\ s6[t] < Len(s5[t]) /\ UNCHANGED <<s1, s5, s7>>
        /\ s3' = s3 \cup {s5[t][s6[t] + 1].id}
        /\ s4' = [s4 EXCEPT ![t] = "writing"] /\ s6' = [s6 EXCEPT ![t] = s6[t] + 1]
    BY <1>7 DEF Flow!A!WriteDefinition
  <2>2. s6[t] + 1 = 1 /\ s5[t][s6[t] + 1].id = m
    BY <1>4, <2>1
  <2> QED
    BY <1>3, <1>4, <1>5, <1>6, <2>1, <2>2
<1>8. CASE Flow!A!WriteFails(t)
  <2>1. /\ s3 \subseteq s3' /\ UNCHANGED <<s1, s5, s7>>
        /\ s4' = [s4 EXCEPT ![t] = "unlinking"] /\ s6' = [s6 EXCEPT ![t] = s6[t]]
    BY <1>8 DEF Flow!A!WriteFails
  <2> QED
    BY <1>3, <1>4, <1>5, <2>1
<1>9. CASE Flow!A!StartEnqueueing(t)
  <2>1. /\ s4[t] = "writing" /\ s6[t] = 1 /\ UNCHANGED <<s1, s3, s5, s7>>
        /\ s4' = [s4 EXCEPT ![t] = "enqueueing"] /\ s6' = [s6 EXCEPT ![t] = 0]
    BY <1>4, <1>9 DEF Flow!A!StartEnqueueing
  <2> QED
    BY <1>3, <1>4, <1>5, <1>6, <2>1
<1>10. CASE Flow!A!EnqueueItem(t)
  <2>1. /\ s4[t] = "enqueueing" /\ s7[t] < Len(s5[t]) /\ UNCHANGED <<s3, s4, s5, s6>>
        /\ s7' = [s7 EXCEPT ![t] = s7[t] + 1]
        /\ DOMAIN s1' = DOMAIN s1 \cup {s5[t][s7[t] + 1].id}
    BY <1>10 DEF Flow!A!EnqueueItem, Flow!A!Q!Enqueue, Flow!A!Q!Queued, Flow!A!Q!With
  <2>2. s7[t] + 1 = 1 /\ s5[t][s7[t] + 1].id = m
    BY <1>4, <2>1
  <2> QED
    BY <1>3, <1>4, <1>5, <1>6, <2>1, <2>2
<1>11. CASE Flow!A!EnqueueFails(t)
  <2>1. /\ UNCHANGED <<s1, s3, s5, s7>>
        /\ s4' = [s4 EXCEPT ![t] = "dequeuing"] /\ s6' = [s6 EXCEPT ![t] = 0]
    BY <1>11 DEF Flow!A!EnqueueFails
  <2> QED
    BY <1>3, <1>4, <1>5, <2>1
<1>12. CASE Flow!A!Finish(t)
  <2>1. /\ s4[t] = "enqueueing" /\ s7[t] = 1 /\ UNCHANGED <<s1, s3, s5, s7>>
        /\ s4' = [s4 EXCEPT ![t] = "done"] /\ s6' = [s6 EXCEPT ![t] = 0]
    BY <1>4, <1>12 DEF Flow!A!Finish
  <2> QED
    BY <1>3, <1>4, <1>5, <1>6, <2>1
<1>13. CASE Flow!A!RollBackQueue(t)
  <2>1. /\ s4[t] = "dequeuing" /\ s7[t] > 0 /\ UNCHANGED <<s3, s4, s5, s6>>
        /\ s7' = [s7 EXCEPT ![t] = s7[t] - 1]
        /\ Flow!A!Q!Dequeue(s5[t][s7[t]].id) \/ UNCHANGED s1
    BY <1>13 DEF Flow!A!RollBackQueue
  <2>2. s7[t] - 1 = 0 /\ s5[t][s7[t]].id = m
    BY <1>4, <2>1
  <2>3. DOMAIN s1' \subseteq DOMAIN s1 /\ DOMAIN s1 \subseteq DOMAIN s1' \cup {m}
    BY <2>1, <2>2 DEF Flow!A!Q!Dequeue, Flow!A!Q!Without
  <2> QED
    BY <1>3, <1>4, <1>5, <2>1, <2>2, <2>3
<1>14. CASE Flow!A!StartUnlinking(t)
  <2>1. /\ UNCHANGED <<s1, s3, s5, s7>>
        /\ s4' = [s4 EXCEPT ![t] = "unlinking"] /\ s6' = [s6 EXCEPT ![t] = 1]
    BY <1>4, <1>14 DEF Flow!A!StartUnlinking
  <2> QED
    BY <1>3, <1>4, <1>5, <2>1
<1>15. CASE Flow!A!UnlinkDefinition(t)
  <2>1. /\ s6[t] > 0 /\ (s3' = s3 \ {s5[t][s6[t]].id} \/ s3' = s3) /\ UNCHANGED <<s1, s5, s7>>
        /\ s4' = [s4 EXCEPT ![t] = "unlinking"] /\ s6' = [s6 EXCEPT ![t] = s6[t] - 1]
    BY <1>15 DEF Flow!A!UnlinkDefinition
  <2>2. s6[t] - 1 = 0 /\ s5[t][s6[t]].id = m
    BY <1>4, <2>1
  <2> QED
    BY <1>3, <1>4, <1>5, <2>1, <2>2
<1>16. CASE Flow!A!Reject(t)
  <2>1. /\ UNCHANGED <<s1, s3, s5, s7>>
        /\ s4' = [s4 EXCEPT ![t] = "rejected"] /\ s6' = [s6 EXCEPT ![t] = 0]
    BY <1>16 DEF Flow!A!Reject
  <2> QED
    BY <1>3, <1>4, <1>5, <2>1
<1> QED
  BY <1>1, <1>2, <1>7, <1>8, <1>9, <1>10, <1>11, <1>12, <1>13, <1>14, <1>15, <1>16
     DEF Flow!A!Call

(* What the worker does leaves the calls and the ids in the queue as they    *)
(* are.                                                                      *)
LEMMA WorkSteps ==
    ASSUME Flow!FlowInv, Flow!Work \/ UNCHANGED Flow!vars
    PROVE  Flow!FlowInv'
<1>1. Flow!FlowShape /\ Flow!Underway /\ Flow!Kept /\ \A r \in ClientRequests : Flow!Counted(r)
  BY DEF Flow!FlowInv
<1>2. UNCHANGED Flow!flow_vars /\ UNCHANGED <<s3, s4, s5, s6, s7>> /\ DOMAIN s1' = DOMAIN s1
  <2>1. CASE UNCHANGED Flow!vars
    BY <2>1 DEF Flow!vars, Flow!adapter_vars, Flow!call_vars
  <2>2. CASE Flow!Work
    <3>1. UNCHANGED Flow!flow_vars
      BY <2>2 DEF Flow!Work
    <3>2. ASSUME NEW m \in PlannedIds, Flow!A!WorkerClaims(m) \/ Flow!A!WorkerEnds(m)
          PROVE  UNCHANGED <<s3, s4, s5, s6, s7>> /\ DOMAIN s1' = DOMAIN s1
      <4>1. UNCHANGED <<s3, s4, s5, s6, s7>>
        BY <3>2 DEF Flow!A!WorkerClaims, Flow!A!WorkerEnds, Flow!A!call_vars
      <4>2. \/ \E state : s1' = [s1 EXCEPT ![m].state = state]
            \/ \E state, n : s1' = [s1 EXCEPT ![m].attempts_done = n, ![m].state = state]
        BY <3>2 DEF Flow!A!WorkerClaims, Flow!A!WorkerEnds, Flow!A!Q!Claim,
           Flow!A!Q!Complete, Flow!A!Q!Fail, Flow!A!Q!Block, Flow!A!Q!MoveTo
      <4> QED
        BY <4>1, <4>2
    <3>3. CASE Flow!A!WorkerRestarts
      BY <3>1, <3>3 DEF Flow!A!WorkerRestarts, Flow!A!call_vars, Flow!A!Q!RecoverStale
    <3> QED
      BY <2>2, <3>1, <3>2, <3>3 DEF Flow!Work
  <2> QED
    BY <2>1, <2>2
<1>3. UNCHANGED <<s13, s14, s15, s16, s17, s18, s20, s21, s22>>
  BY <1>2 DEF Flow!flow_vars, Flow!gate_vars, Flow!history_vars
<1>4. Flow!FlowShape'
  BY <1>1, <1>2, <1>3 DEF Flow!FlowShape
<1>5. \A u \in ApiThreads : Flow!Its(u)' = Flow!Its(u)
  BY <1>2 DEF Flow!Its
<1>6. Flow!Underway'
  <2>1. ASSUME NEW u \in ApiThreads, Flow!Enqueueing(u) PROVE Flow!Enqueueing(u)'
    BY <1>2, <1>3, <1>5, <2>1 DEF Flow!Enqueueing
  <2>2. ASSUME NEW u \in ApiThreads, Flow!Resting(u) PROVE Flow!Resting(u)'
    BY <1>2, <2>2 DEF Flow!Resting
  <2> QED
    BY <1>1, <1>3, <2>1, <2>2 DEF Flow!Underway
<1>7. Flow!Kept'
  BY <1>1, <1>2, <1>3, <1>5 DEF Flow!Kept
<1> QED
  BY <1>1, <1>2, <1>4, <1>6, <1>7, CountsStay DEF Flow!FlowInv

(* The answer: an accepted mission is nobody's any more, and is not rolled   *)
(* back.                                                                     *)
LEMMA AnswerStep ==
    ASSUME Flow!FlowInv, NEW t \in ApiThreads, Flow!Answer(t)
    PROVE  Flow!FlowInv'
<1>1. Flow!FlowShape /\ Flow!Underway /\ Flow!Kept /\ \A r \in ClientRequests : Flow!Counted(r)
  BY DEF Flow!FlowInv
<1>2. /\ s13[t] = "enqueueing"
      /\ s20' = IF s4[t] = "done" THEN s20 \cup {s14[t]} ELSE s20
      /\ s4' = [s4 EXCEPT ![t] = "idle"] /\ s5' = [s5 EXCEPT ![t] = <<>>]
      /\ s6' = [s6 EXCEPT ![t] = 0] /\ s7' = [s7 EXCEPT ![t] = 0]
      /\ s13' = [s13 EXCEPT ![t] = "idle"] /\ s14' = [s14 EXCEPT ![t] = Flow!None]
      /\ UNCHANGED <<s1, s3, s15, s16, s17, s18, s21, s22>>
  BY DEF Flow!Answer, Flow!Leave, Flow!Go, Flow!gate_vars
<1>3. /\ s13'[t] = "idle" /\ s4'[t] = "idle" /\ s6'[t] = 0 /\ s7'[t] = 0
      /\ s14[t] \in ClientRequests
      /\ \A u \in ApiThreads \ {t} :
            /\ s4'[u] = s4[u] /\ s5'[u] = s5[u] /\ s6'[u] = s6[u] /\ s7'[u] = s7[u]
            /\ s13'[u] = s13[u] /\ s14'[u] = s14[u]
  <2>1. /\ DOMAIN s4 = ApiThreads /\ DOMAIN s5 = ApiThreads /\ DOMAIN s6 = ApiThreads
        /\ DOMAIN s7 = ApiThreads /\ DOMAIN s13 = ApiThreads /\ DOMAIN s14 = ApiThreads
        /\ s14[t] \in ClientRequests
    BY <1>1, <1>2 DEF Flow!FlowShape
  <2> QED
    BY <1>2, <2>1
<1>4. Flow!FlowShape'
  <2>1. s13' \in [ApiThreads -> {"idle", "validating", "reserving", "enqueueing"} \cup Flow!Admitted]
    BY <1>1, <1>2 DEF Flow!FlowShape
  <2>2. s14' \in [ApiThreads -> ClientRequests \cup {Flow!None}]
    BY <1>1, <1>2 DEF Flow!FlowShape
  <2>3. s20' \subseteq ClientRequests
    BY <1>1, <1>2, <1>3 DEF Flow!FlowShape
  <2>4. \A u \in ApiThreads : s13'[u] # "idle" => s14'[u] \in ClientRequests
    BY <1>1, <1>3 DEF Flow!FlowShape
  <2> QED
    BY <1>1, <1>2, <2>1, <2>2, <2>3, <2>4 DEF Flow!FlowShape
<1>5. \A u \in ApiThreads \ {t} : Flow!Its(u)' = Flow!Its(u)
  BY <1>3 DEF Flow!Its
<1>6. Flow!Underway'
  <2>1. ASSUME NEW u \in ApiThreads \ {t}, Flow!Enqueueing(u) PROVE Flow!Enqueueing(u)'
    <3>1. \A v \in ApiThreads \ {u} : s13'[v] = "enqueueing" => Flow!Its(v)' # Flow!Its(u)'
      BY <1>3, <1>5, <2>1 DEF Flow!Enqueueing
    <3>2. UNCHANGED <<s1, s3, s18>>
      BY <1>2
    <3> QED
      BY <1>3, <1>5, <2>1, <3>1, <3>2 DEF Flow!Enqueueing
  <2>2. ASSUME NEW u \in ApiThreads \ {t}, Flow!Resting(u) PROVE Flow!Resting(u)'
    BY <1>3, <2>2 DEF Flow!Resting
  <2>3. Flow!Resting(t)'
    BY <1>3 DEF Flow!Resting
  <2> QED
    BY <1>1, <1>3, <2>1, <2>2, <2>3 DEF Flow!Underway
<1>7. Flow!Kept'
  <2>1. ASSUME NEW m, \A u \in ApiThreads \ {t} : s13[u] = "enqueueing" => Flow!Its(u) # m
        PROVE  \A u \in ApiThreads : s13'[u] = "enqueueing" => Flow!Its(u)' # m
    BY <1>3, <1>5, <2>1
  <2>2. ASSUME s4[t] = "done"
        PROVE  /\ Flow!Its(t) \in DOMAIN s1 \cap s3 /\ s18[Flow!Its(t)] = s14[t]
               /\ \A u \in ApiThreads \ {t} : s13[u] = "enqueueing" => Flow!Its(u) # Flow!Its(t)
    BY <1>1, <1>2, <2>2 DEF Flow!Underway, Flow!Enqueueing
  <2>3. ASSUME NEW r \in s20'
        PROVE  \E m \in DOMAIN s1 \cap s3 : s18[m] = r /\
                  \A u \in ApiThreads \ {t} : s13[u] = "enqueueing" => Flow!Its(u) # m
    <3>1. CASE r \in s20
      BY <1>1, <3>1 DEF Flow!Kept
    <3>2. CASE r \notin s20
      BY <1>2, <2>2, <2>3, <3>2
    <3> QED
      BY <3>1, <3>2
  <2> QED
    BY <1>2, <2>1, <2>3 DEF Flow!Kept
<1>8. ASSUME NEW r \in ClientRequests PROVE Flow!Counted(r)'
  <2>1. Flow!Counted(r) /\ s22 \in Nat /\ s21[r] \in Nat /\ s22' \in Nat /\ s21'[r] \in Nat
    BY <1>1, <1>2 DEF Flow!FlowShape
  <2>2. Flow!Made(r)' = Flow!Made(r)
    BY <1>2 DEF Flow!Made
  <2>3. ASSUME NEW P, "idle" \notin P PROVE Flow!With(r, P)' \subseteq Flow!With(r, P)
    BY <1>3, <2>3 DEF Flow!With
  <2>4. "idle" \notin Flow!Admitted /\ "idle" \notin Flow!Limited
    BY DEF Flow!Admitted, Flow!Limited
  <2> QED
    BY <1>2, <2>1, <2>2, <2>3, <2>4, Recounted
<1> QED
  BY <1>4, <1>6, <1>7, <1>8 DEF Flow!FlowInv

(* The API process dies: one more of each request may come.                  *)
LEMMA RestartStep ==
    ASSUME Flow!FlowInv, Flow!ApiRestarts
    PROVE  Flow!FlowInv'
<1>1. Flow!FlowShape /\ Flow!Kept /\ \A r \in ClientRequests : Flow!Counted(r)
  BY DEF Flow!FlowInv
<1>2. /\ s22' = s22 + 1 /\ s15' = {}
      /\ s13' = [u \in ApiThreads |-> "idle"] /\ s14' = [u \in ApiThreads |-> Flow!None]
      /\ s4' = [u \in ApiThreads |-> "idle"] /\ s5' = [u \in ApiThreads |-> <<>>]
      /\ s6' = [u \in ApiThreads |-> 0] /\ s7' = [u \in ApiThreads |-> 0]
      /\ UNCHANGED <<s1, s3, s16, s17, s18, s20, s21>>
  BY DEF Flow!ApiRestarts
<1>3. Flow!FlowShape'
  BY <1>1, <1>2 DEF Flow!FlowShape
<1>4. Flow!Underway'
  BY <1>2 DEF Flow!Underway, Flow!Resting
<1>5. Flow!Kept'
  <2>1. \A u \in ApiThreads : s13'[u] # "enqueueing"
    BY <1>2
  <2> QED
    BY <1>1, <1>2, <2>1 DEF Flow!Kept
<1>6. ASSUME NEW r \in ClientRequests PROVE Flow!Counted(r)'
  <2>1. Flow!Counted(r) /\ s22 \in Nat /\ s21[r] \in Nat /\ s22' \in Nat /\ s21'[r] \in Nat
    BY <1>1, <1>2 DEF Flow!FlowShape
  <2>2. Flow!Made(r)' = Flow!Made(r)
    BY <1>2 DEF Flow!Made
  <2>3. ASSUME NEW P, "idle" \notin P PROVE Flow!With(r, P)' \subseteq Flow!With(r, P)
    BY <1>2, <2>3 DEF Flow!With
  <2>4. "idle" \notin Flow!Admitted /\ "idle" \notin Flow!Limited
    BY DEF Flow!Admitted, Flow!Limited
  <2>5. (IF r \in s15' THEN 1 ELSE 0) + s22' + s21'[r] >= (IF r \in s15 THEN 1 ELSE 0) + s22 + s21[r]
    BY <1>2, <2>1
  <2> QED
    BY <1>2, <2>1, <2>2, <2>3, <2>4, <2>5, Recounted
<1> QED
  BY <1>3, <1>4, <1>5, <1>6 DEF Flow!FlowInv

LEMMA FlowKeeps ==
    Flow!FlowInv /\ (Flow!Next \/ UNCHANGED Flow!vars) => Flow!FlowInv'
<1> SUFFICES ASSUME Flow!FlowInv, Flow!Next \/ UNCHANGED Flow!vars
             PROVE  Flow!FlowInv'
  OBVIOUS
<1>1. ASSUME NEW t \in ApiThreads, Flow!Step(t) \/ \E r \in ClientRequests : Flow!Receive(t, r)
      PROVE  Flow!FlowInv'
  BY <1>1, GateSteps, PlanStep, EnqueueSteps, AnswerStep DEF Flow!Step
<1> QED
  BY <1>1, RestartStep, WorkSteps DEF Flow!Next

(* An accepted request's mission is queued, with its definition: there is a  *)
(* status to show.                                                           *)
LEMMA FlowHolds == Flow!FlowInv => Flow!RequestsAreTracked
<1> SUFFICES ASSUME Flow!FlowInv PROVE Flow!RequestsAreTracked
  OBVIOUS
<1>1. Flow!FlowShape /\ Flow!Kept /\ \A r \in ClientRequests : Flow!Counted(r)
  BY DEF Flow!FlowInv
<1>2. Flow!QueuedOnce
  <2> SUFFICES ASSUME NEW r \in ClientRequests
               PROVE  Flow!Cardinality({m \in DOMAIN s1 : s18[m] = r})
                         <= IF s16 THEN 1 ELSE 1 + s22 + s21[r]
    BY DEF Flow!QueuedOnce
  <2> DEFINE S == {m \in DOMAIN s1 : s18[m] = r}
             M == Flow!Made(r)
             A == Flow!With(r, Flow!Admitted)
             L == Flow!With(r, Flow!Limited)
  <2>1. S \subseteq M
    BY <1>1 DEF Flow!Made, Flow!FlowShape
  <2>2. IsFiniteSet(M) /\ IsFiniteSet(A) /\ IsFiniteSet(L)
    BY FewOfThem
  <2>3. IsFiniteSet(S) /\ Cardinality(S) <= Cardinality(M) /\ Cardinality(S) \in Nat
        /\ Cardinality(M) \in Nat /\ Cardinality(A) \in Nat /\ Cardinality(L) \in Nat
    <3> HIDE DEF S, M, A, L
    <3> QED
      BY <2>1, <2>2, FS_Subset, FS_CardinalityType
  <2>4. /\ Cardinality(M) + Cardinality(A) <= (IF r \in s15 THEN 1 ELSE 0) + s22 + s21[r]
        /\ s16 => Cardinality(M) + Cardinality(L) <= IF r \in s17 THEN 1 ELSE 0
    BY <1>1, CountedAlikeThere DEF Flow!Counted
  <2>5. s22 \in Nat /\ s21[r] \in Nat
    BY <1>1 DEF Flow!FlowShape
  <2>6. Cardinality(S) <= IF s16 THEN 1 ELSE 1 + s22 + s21[r]
    <3> HIDE DEF S, M, A, L
    <3> QED
      BY <2>3, <2>4, <2>5
  <2> QED
    BY <2>6, CountedAlikeThere
<1>3. Flow!AcceptedIsTracked
  <2> SUFFICES ASSUME NEW r \in s20 PROVE Flow!StatusOf(r) # "request_not_found"
    BY DEF Flow!AcceptedIsTracked
  <2> DEFINE states == {s1[m].state : m \in Flow!MissionsOf(r)}
             ranking == <<"running", "retrying", "failed", "blocked", "cancelled">>
             Least(i) == ranking[i] \in states /\ \A j \in 1..(i - 1) : ranking[j] \notin states
  <2>1. states # {}
    BY <1>1 DEF Flow!Kept, Flow!MissionsOf
  <2>2. ASSUME states \cap {ranking[i] : i \in DOMAIN ranking} # {}
        PROVE  ranking[CHOOSE i \in DOMAIN ranking : Least(i)] # "request_not_found"
    <3>1. DOMAIN ranking = 1..5
      OBVIOUS
    <3>2. \E i \in 1..5 : ranking[i] \in states
      BY <2>2, <3>1
    <3>3. \E i \in 1..5 : Least(i)
      <4> HIDE DEF ranking, states
      <4>1. CASE ranking[1] \in states
        BY <4>1
      <4>2. CASE ranking[1] \notin states /\ ranking[2] \in states
        BY <4>2
      <4>3. CASE ranking[1] \notin states /\ ranking[2] \notin states /\ ranking[3] \in states
        BY <4>3
      <4>4. CASE /\ ranking[1] \notin states /\ ranking[2] \notin states
                 /\ ranking[3] \notin states /\ ranking[4] \in states
        BY <4>4
      <4>5. CASE /\ ranking[1] \notin states /\ ranking[2] \notin states
                 /\ ranking[3] \notin states /\ ranking[4] \notin states /\ ranking[5] \in states
        BY <4>5
      <4> QED
        BY <3>2, <4>1, <4>2, <4>3, <4>4, <4>5
    <3>4. (CHOOSE i \in DOMAIN ranking : Least(i)) \in 1..5
      <4> HIDE DEF Least, ranking
      <4> QED
        BY <3>1, <3>3
    <3>5. \A i \in 1..5 : ranking[i] # "request_not_found"
      OBVIOUS
    <3> QED
      BY <3>4, <3>5
  <2> QED
    BY <2>1, <2>2 DEF Flow!StatusOf
<1> QED
  BY <1>2, <1>3 DEF Flow!RequestsAreTracked

(* A request becomes one mission, and one more for each restart of the API   *)
(* and each race at the gate, or one at most under a limiter; the status of  *)
(* an accepted one is found for ever: for any requests, threads, restarts    *)
(* and failures of enqueue_batch.                                            *)
THEOREM RequestsStayTracked == AnySpec => []RequestsAreTracked
<1> DEFINE Inv == component = "flow" => Flow!FlowInv
<1>1. AnyInit => Inv
  BY FlowBegins DEF AnyInit
<1>2. Inv /\ [AnyNext]_AnyVars => Inv'
  BY Chosen, FlowKeeps
<1>3. Inv => RequestsAreTracked
  BY FlowHolds DEF RequestsAreTracked
<1> QED
  BY <1>1, <1>2, <1>3, PTL DEF AnySpec, AnyVars

-----------------------------------------------------------------------------
(* Budgets: s1 budget, s2 today, s3 ledger, s4 pc, s5 day, s6 daily,         *)
(* s7 monthly, s8 known, s9 excused.                                         *)

(* What a set of records weighs, coin by coin.                               *)
Coins(W, S) == {c \in S \X Nat : c[2] \in 1..W[c[1]]}
SumOf(W, S) == Evaluation!Total([e \in S |-> W[e]])
Weights == [Evaluation!Entries -> Nat]

LEMMA CoinsOfOne ==
    ASSUME NEW W \in Weights, NEW e \in Evaluation!Entries
    PROVE  IsFiniteSet(Coins(W, {e})) /\ Cardinality(Coins(W, {e})) = W[e]
<1>1. PICK n \in Nat : n = W[e]
  BY DEF Weights
<1>2. IsFiniteSet(1..n) /\ Cardinality(1..n) = n
  <2>1. 1 \in Int /\ n \in Int
    OBVIOUS
  <2>2. IsFiniteSet(1..n) /\ Cardinality(1..n) = IF 1 > n THEN 0 ELSE n - 1 + 1
    BY <2>1, FS_Interval
  <2> QED
    BY <2>2
<1> DEFINE f == [k \in 1..n |-> <<e, k>>]
<1>3. Coins(W, {e}) = {<<e, k>> : k \in 1..n}
  BY <1>1 DEF Coins
<1>4. f \in Bijection(1..n, Coins(W, {e}))
  BY <1>3 DEF Bijection, Injection, IsInjective, Surjection
<1> QED
  BY <1>1, <1>2, <1>4, FS_Bijection DEF ExistsBijection

LEMMA CoinsAdd ==
    ASSUME NEW W \in Weights, NEW S \in SUBSET Evaluation!Entries, IsFiniteSet(S)
    PROVE  /\ IsFiniteSet(Coins(W, S)) /\ Cardinality(Coins(W, S)) \in Nat
           /\ \A e \in S : Cardinality(Coins(W, S)) = W[e] + Cardinality(Coins(W, S \ {e}))
<1>1. ASSUME NEW T \in SUBSET S PROVE IsFiniteSet(Coins(W, T))
  <2> DEFINE each == {Coins(W, {e}) : e \in T}
             f == [e \in T |-> Coins(W, {e})]
  <2>1. IsFiniteSet(T)
    BY FS_Subset
  <2>2. f \in Surjection(T, each)
    BY DEF Surjection
  <2>3. IsFiniteSet(each)
    BY <2>1, <2>2, FS_Surjection
  <2>4. \A C \in each : IsFiniteSet(C)
    BY CoinsOfOne
  <2>5. Coins(W, T) = UNION each
    BY DEF Coins
  <2> QED
    BY <2>3, <2>4, <2>5, FS_UNION
<1>2. ASSUME NEW e \in S
      PROVE  Cardinality(Coins(W, S)) = W[e] + Cardinality(Coins(W, S \ {e}))
  <2> DEFINE one == Coins(W, {e})
             rest == Coins(W, S \ {e})
  <2>1. Coins(W, S) = one \cup rest /\ one \cap rest = {}
    BY DEF Coins
  <2>2. IsFiniteSet(one) /\ IsFiniteSet(rest) /\ Cardinality(one) = W[e]
    BY <1>1, CoinsOfOne
  <2>3. Cardinality(one) \in Nat /\ Cardinality(rest) \in Nat
    BY <2>2, FS_CardinalityType
  <2>4. Cardinality(one \cup rest) = Cardinality(one) + Cardinality(rest) - 0
    <3> HIDE DEF one, rest
    <3> QED
      BY <2>1, <2>2, FS_Union, FS_EmptySet
  <2> QED
    BY <2>1, <2>2, <2>3, <2>4
<1> QED
  BY <1>1, <1>2, FS_CardinalityType

(* A total is a fold over the records.                                       *)
LEMMA TotalUnfolds ==
    ASSUME NEW w
    PROVE  Evaluation!Total(w) =
               (CHOOSE f : f = [s \in SUBSET DOMAIN w |->
                   IF s = {} THEN 0
                   ELSE w[CHOOSE x \in s : TRUE] + f[s \ {CHOOSE x \in s : TRUE}]])[DOMAIN w]
BY Zenon DEF Evaluation!Total, Evaluation!MapThenSumSet, Evaluation!MapThenFoldSet

(* In whatever order it takes them, it is the number of their coins.         *)
LEMMA TotalIsCoins ==
    ASSUME NEW W \in Weights, NEW S \in SUBSET Evaluation!Entries, IsFiniteSet(S)
    PROVE  SumOf(W, S) = Cardinality(Coins(W, S))
<1> DEFINE w == [e \in S |-> W[e]]
           Pick(s) == CHOOSE x \in s : TRUE
           Next1(f, s) == IF s = {} THEN 0 ELSE w[Pick(s)] + f[s \ {Pick(s)}]
           Fold(f) == f = [s \in SUBSET S |-> Next1(f, s)]
           g == [s \in SUBSET S |-> Cardinality(Coins(W, s))]
           h == CHOOSE f : Fold(f)
<1>1. \A s \in SUBSET S : s # {} => Pick(s) \in s
  OBVIOUS
<1>2. \A s \in SUBSET S : g[s] = Next1(g, s)
  <2> SUFFICES ASSUME NEW s \in SUBSET S PROVE g[s] = Next1(g, s)
    OBVIOUS
  <2>1. CASE s = {}
    <3>1. Coins(W, s) = {}
      BY <2>1 DEF Coins
    <3> QED
      BY <2>1, <3>1, FS_EmptySet
  <2>2. CASE s # {}
    <3>1. PICK x \in s : x = Pick(s)
      BY <1>1, <2>2
    <3>2. Cardinality(Coins(W, s)) = W[x] + Cardinality(Coins(W, s \ {x}))
      BY CoinsAdd, FS_Subset
    <3> HIDE DEF Pick
    <3> QED
      BY <2>2, <3>1, <3>2
  <2> QED
    BY <2>1, <2>2
<1>3. Fold(g)
  <2> HIDE DEF Next1
  <2> QED
    BY <1>2
<1>4. Fold(h)
  <2> HIDE DEF Fold, g
  <2> QED
    BY <1>3
<1>5. \A s \in SUBSET S : h[s] = g[s]
  <2> DEFINE bad == {s \in SUBSET S : h[s] # g[s]}
             R == StrictSubsetOrdering(S)
  <2> SUFFICES ASSUME bad # {} PROVE FALSE
    OBVIOUS
  <2>1. IsWellFoundedOn(R, SUBSET S)
    <3>1. FiniteSubsetsOf(S) = SUBSET S
      BY FS_FiniteSubsetsOfFinite
    <3> QED
      BY <3>1, FS_StrictSubsetOrderingWellFounded
  <2>2. PICK s \in bad : \A t \in bad : <<t, s>> \notin R
    <3> HIDE DEF bad, R
    <3>1. bad \subseteq SUBSET S
      BY DEF bad
    <3> QED
      BY <2>1, <3>1, WFMin
  <2>3. h[s] = Next1(h, s) /\ g[s] = Next1(g, s)
    <3>1. h = [t \in SUBSET S |-> Next1(h, t)]
      BY <1>4
    <3> HIDE DEF h, g, Next1
    <3> QED
      BY <1>2, <3>1
  <2>4. s # {}
    BY <2>2, <2>3
  <2>5. PICK x \in s : x = Pick(s)
    BY <1>1, <2>4
  <2>6. s \ {x} \notin bad
    <3>1. <<s \ {x}, s>> \in R
      BY DEF StrictSubsetOrdering
    <3> QED
      BY <2>2, <3>1
  <2>7. h[s \ {x}] = g[s \ {x}]
    <3> HIDE DEF h, g
    <3> QED
      BY <2>6
  <2>8. h[s] = g[s]
    <3> HIDE DEF h, g, Pick
    <3> QED
      BY <2>3, <2>5, <2>7
  <2> QED
    BY <2>2, <2>8
<1>6. Evaluation!Total(w) = h[S]
  <2>1. DOMAIN w = S
    OBVIOUS
  <2> HIDE DEF w
  <2> QED
    BY Zenon, <2>1, TotalUnfolds
<1> QED
  BY <1>5, <1>6 DEF SumOf

(* Sums: one record more, records that are left out, and lesser weights.     *)
LEMMA Sums ==
    ASSUME NEW W \in Weights, NEW S \in SUBSET Evaluation!Entries, IsFiniteSet(S)
    PROVE  /\ SumOf(W, S) \in Nat
           /\ SumOf(W, {}) = 0
           /\ \A T \in SUBSET S : SumOf(W, T) <= SumOf(W, S)
           /\ \A e \in Evaluation!Entries \ S : SumOf(W, S \cup {e}) = SumOf(W, S) + W[e]
           /\ \A e \in S : SumOf(W, S) = SumOf(W, S \ {e}) + W[e]
           /\ \A V \in Weights : (\A e \in S : V[e] <= W[e]) => SumOf(V, S) <= SumOf(W, S)
<1>1. ASSUME NEW T \in SUBSET S
      PROVE  IsFiniteSet(T) /\ SumOf(W, T) = Cardinality(Coins(W, T))
             /\ Cardinality(Coins(W, T)) \in Nat
  BY FS_Subset, TotalIsCoins, CoinsAdd
<1>2. SumOf(W, {}) = 0
  <2>1. Coins(W, {}) = {}
    BY DEF Coins
  <2> QED
    BY <1>1, <2>1, FS_EmptySet
<1>3. ASSUME NEW T \in SUBSET S PROVE SumOf(W, T) <= SumOf(W, S)
  <2>1. Coins(W, T) \subseteq Coins(W, S)
    BY DEF Coins
  <2> QED
    BY <1>1, <2>1, CoinsAdd, FS_Subset
<1>4. \A e \in Evaluation!Entries : W[e] \in Nat
  BY DEF Weights
<1>5. ASSUME NEW e \in Evaluation!Entries \ S
      PROVE  SumOf(W, S \cup {e}) = SumOf(W, S) + W[e]
  <2> DEFINE T == S \cup {e}
  <2>1. T \in SUBSET Evaluation!Entries /\ IsFiniteSet(T) /\ e \in T /\ T \ {e} = S
    BY FS_AddElement
  <2>2. SumOf(W, T) = Cardinality(Coins(W, T))
    BY <2>1, TotalIsCoins
  <2>3. Cardinality(Coins(W, T)) = W[e] + Cardinality(Coins(W, T \ {e}))
    <3> HIDE DEF T
    <3> QED
      BY <2>1, CoinsAdd
  <2>4. SumOf(W, T) = SumOf(W, S) + W[e]
    <3>1. SumOf(W, S) = Cardinality(Coins(W, S)) /\ Cardinality(Coins(W, S)) \in Nat
          /\ W[e] \in Nat
      BY <1>1, <1>4
    <3>2. Cardinality(Coins(W, T \ {e})) = Cardinality(Coins(W, S))
      BY Zenon, <2>1
    <3> HIDE DEF T
    <3> QED
      BY <2>2, <2>3, <3>1, <3>2
  <2> QED
    BY <2>4
<1>6. ASSUME NEW e \in S PROVE SumOf(W, S) = SumOf(W, S \ {e}) + W[e]
  BY <1>1, <1>4, CoinsAdd
<1>7. ASSUME NEW V \in Weights, \A e \in S : V[e] <= W[e]
      PROVE  SumOf(V, S) <= SumOf(W, S)
  <2>1. Coins(V, S) \subseteq Coins(W, S)
    <3> SUFFICES ASSUME NEW c \in Coins(V, S) PROVE c \in Coins(W, S)
      OBVIOUS
    <3>1. c \in S \X Nat /\ c[1] \in S /\ c[2] \in Nat /\ c[2] \in 1..V[c[1]]
      BY DEF Coins
    <3>2. V[c[1]] \in Nat /\ W[c[1]] \in Nat /\ V[c[1]] <= W[c[1]]
      BY <1>7, <3>1 DEF Weights
    <3> QED
      BY <3>1, <3>2 DEF Coins
  <2>2. SumOf(V, S) = Cardinality(Coins(V, S))
    BY TotalIsCoins
  <2> QED
    BY <1>1, <2>1, <2>2, CoinsAdd, FS_Subset
<1> QED
  BY <1>1, <1>2, <1>3, <1>5, <1>6, <1>7

(* What records weigh: what was used, and the part of it that was promised.  *)
UsedWeight == [e \in Evaluation!Entries |-> e.used]
ForeseenWeight ==
    [e \in Evaluation!Entries |->
        IF e.used > Evaluation!Promise(e.request) THEN Evaluation!Promise(e.request) ELSE e.used]

LEMMA PromiseIsNat == \A r \in Spenders : Evaluation!Promise(r) \in Nat
BY EvaluationAssumption DEF Evaluation!Promise

LEMMA UsageSums ==
    ASSUME NEW S \in SUBSET Evaluation!Entries, IsFiniteSet(S)
    PROVE  /\ Evaluation!Used(S) \in Nat /\ Evaluation!Foreseen(S) \in Nat
           /\ Evaluation!Foreseen(S) <= Evaluation!Used(S)
           /\ Evaluation!Foreseen({}) = 0
           /\ \A T \in SUBSET S : Evaluation!Foreseen(T) <= Evaluation!Foreseen(S)
           /\ \A e \in Evaluation!Entries \ S :
                 Evaluation!Foreseen(S \cup {e}) = Evaluation!Foreseen(S) + ForeseenWeight[e]
           /\ \A e \in S :
                 Evaluation!Foreseen(S) = Evaluation!Foreseen(S \ {e}) + ForeseenWeight[e]
<1>1. UsedWeight \in Weights
  BY DEF UsedWeight, Weights, Evaluation!Entries
<1>2. ForeseenWeight \in Weights
  BY PromiseIsNat DEF ForeseenWeight, Weights, Evaluation!Entries
<1>3. \A T \in SUBSET Evaluation!Entries :
         Evaluation!Used(T) = SumOf(UsedWeight, T)
  <2> SUFFICES ASSUME NEW T \in SUBSET Evaluation!Entries
               PROVE  Evaluation!Used(T) = SumOf(UsedWeight, T)
    OBVIOUS
  <2>1. [e \in T |-> e.used] = [e \in T |-> UsedWeight[e]]
    BY DEF UsedWeight
  <2> QED
    BY Zenon, <2>1 DEF Evaluation!Used, SumOf
<1>4. \A T \in SUBSET Evaluation!Entries :
         Evaluation!Foreseen(T) = SumOf(ForeseenWeight, T)
  <2> SUFFICES ASSUME NEW T \in SUBSET Evaluation!Entries
               PROVE  Evaluation!Foreseen(T) = SumOf(ForeseenWeight, T)
    OBVIOUS
  <2>1. [e \in T |-> IF e.used > Evaluation!Promise(e.request)
                     THEN Evaluation!Promise(e.request) ELSE e.used]
        = [e \in T |-> ForeseenWeight[e]]
    BY DEF ForeseenWeight
  <2> QED
    BY Zenon, <2>1 DEF Evaluation!Foreseen, SumOf
<1>5. \A e \in S : ForeseenWeight[e] <= UsedWeight[e]
  BY PromiseIsNat DEF ForeseenWeight, UsedWeight, Evaluation!Entries
<1>6. \A e \in Evaluation!Entries \ S : S \cup {e} \in SUBSET Evaluation!Entries
  OBVIOUS
<1>7. \A T \in SUBSET S : T \in SUBSET Evaluation!Entries
  OBVIOUS
<1>8. SumOf(ForeseenWeight, S) <= SumOf(UsedWeight, S) /\ SumOf(UsedWeight, S) \in Nat
  BY <1>1, <1>2, <1>5, Sums
<1> HIDE DEF UsedWeight, ForeseenWeight
<1> QED
  BY <1>2, <1>3, <1>4, <1>6, <1>7, <1>8, Sums

LEMMA SpendingBegins == Evaluation!Init => Evaluation!SpendingInv
<1> SUFFICES ASSUME Evaluation!Init PROVE Evaluation!SpendingInv
  OBVIOUS
<1> USE DEF Evaluation!Init
<1>1. Evaluation!SpendingShape
  BY DEF Evaluation!SpendingShape, Evaluation!Entries
<1>2. Evaluation!Committed = {} /\ s3 = {}
  BY DEF Evaluation!Committed, Evaluation!Promised
<1>3. Evaluation!Recorded
  BY <1>2, FS_EmptySet DEF Evaluation!Recorded, Evaluation!IsFiniteSet, IsFiniteSet
<1>4. Evaluation!ReadRight
  BY DEF Evaluation!ReadRight
<1>5. Evaluation!WithinBudget
  <2>1. Evaluation!Foreseen({}) = 0
    <3>1. {} \in SUBSET Evaluation!Entries /\ IsFiniteSet({})
      BY FS_EmptySet
    <3> QED
      BY <3>1, UsageSums
  <2>2. \A d : {e \in Evaluation!Committed : e.day = d} = {}
    BY <1>2
  <2> QED
    BY <1>2, <2>1, <2>2, EvaluationAssumption DEF Evaluation!WithinBudget
<1> QED
  BY <1>1, <1>3, <1>4, <1>5 DEF Evaluation!SpendingInv

LEMMA FiniteThere == \A S : Evaluation!IsFiniteSet(S) <=> IsFiniteSet(S)
BY Zenon DEF Evaluation!IsFiniteSet, IsFiniteSet

(* The requests that were read for keep what they read, while nothing is     *)
(* recorded.                                                                 *)
LEMMA ReadStays ==
    ASSUME Evaluation!ReadRight, NEW u \in Spenders, UNCHANGED s3, s9 \subseteq s9',
           s4'[u] = s4[u], s5'[u] = s5[u], s6'[u] = s6[u], s7'[u] = s7[u], s8'[u] = s8[u]
    PROVE  /\ s4'[u] \in {"monthly", "decide"} =>
                 /\ s8'[u] \subseteq s3'
                 /\ \/ s6'[u] = Evaluation!Unreadable /\ "daily_unread" \in s9'
                    \/ s8'[u] = s3' => s6'[u] = Evaluation!Used({e \in s3' : e.day = s5'[u]})
           /\ s4'[u] = "decide" =>
                 \/ s7'[u] = Evaluation!Unreadable /\ "monthly_unread" \in s9'
                 \/ s8'[u] = s3' => s7'[u] = Evaluation!Used(s3')
BY DEF Evaluation!ReadRight, Evaluation!OfDay

(* What a step that leaves the ledger and what is committed alone keeps.     *)
LEMMA SpendingStays ==
    ASSUME Evaluation!SpendingInv, UNCHANGED <<s1, s3>>,
           Evaluation!SpendingShape', Evaluation!ReadRight',
           \A e \in s3 : s4'[e.request] = "done",
           Evaluation!Committed' = Evaluation!Committed, s9 \subseteq s9'
    PROVE  Evaluation!SpendingInv'
<1>1. Evaluation!Recorded /\ Evaluation!WithinBudget
  BY DEF Evaluation!SpendingInv
<1>2. Evaluation!Recorded'
  BY <1>1, FiniteThere DEF Evaluation!Recorded
<1>3. Evaluation!WithinBudget'
  BY <1>1 DEF Evaluation!WithinBudget, Evaluation!Foreseen, Evaluation!Promise, Evaluation!Counted
<1> QED
  BY <1>2, <1>3 DEF Evaluation!SpendingInv

(* A request is admitted, on the day it was sent.                            *)
LEMMA OneCommitted ==
    ASSUME Evaluation!SpendingInv, NEW r \in Spenders, s4[r] \notin {"admitted", "done"},
           NEW d \in Nat, UNCHANGED <<s1, s3>>,
           s4' = [s4 EXCEPT ![r] = "admitted"], s5' = [s5 EXCEPT ![r] = d]
    PROVE  LET e == [request |-> r, day |-> d, used |-> Evaluation!Promise(r)]
           IN  /\ Evaluation!Committed' = Evaluation!Committed \cup {e}
               /\ e \in Evaluation!Entries \ Evaluation!Committed
               /\ Evaluation!Recorded'
<1> DEFINE e == [request |-> r, day |-> d, used |-> Evaluation!Promise(r)]
<1>1. Evaluation!SpendingShape /\ Evaluation!Recorded
  BY DEF Evaluation!SpendingInv
<1>2. s4'[r] = "admitted" /\ s5'[r] = d
      /\ \A u \in Spenders \ {r} : s4'[u] = s4[u] /\ s5'[u] = s5[u]
  BY <1>1 DEF Evaluation!SpendingShape
<1>3. Evaluation!Promised' = Evaluation!Promised \cup {e}
  BY <1>2 DEF Evaluation!Promised, Evaluation!Promise, Evaluation!Counted
<1>4. e \in Evaluation!Entries \ Evaluation!Committed
  <2>1. \A f \in s3 : f.request # r
    BY <1>1 DEF Evaluation!Recorded
  <2>2. \A f \in Evaluation!Promised : f.request # r
    BY DEF Evaluation!Promised
  <2> QED
    BY <2>1, <2>2, PromiseIsNat DEF Evaluation!Entries, Evaluation!Committed
<1>5. Evaluation!Committed' = Evaluation!Committed \cup {e}
  BY <1>3 DEF Evaluation!Committed
<1>6. Evaluation!Recorded'
  <2>1. IsFiniteSet(Evaluation!Committed')
    BY <1>1, <1>5, FiniteThere, FS_AddElement DEF Evaluation!Recorded
  <2>2. \A f \in s3 : s4'[f.request] = "done"
    BY <1>1, <1>2 DEF Evaluation!Recorded, Evaluation!SpendingShape, Evaluation!Entries
  <2> QED
    BY <1>1, <2>1, <2>2, FiniteThere DEF Evaluation!Recorded
<1> QED
  BY <1>4, <1>5, <1>6

LEMMA CommittedEntries ==
    ASSUME Evaluation!SpendingInv
    PROVE  /\ Evaluation!Committed \in SUBSET Evaluation!Entries /\ IsFiniteSet(Evaluation!Committed)
           /\ \A S \in SUBSET Evaluation!Committed :
                 S \in SUBSET Evaluation!Entries /\ IsFiniteSet(S)
           /\ s3 \in SUBSET Evaluation!Committed
<1>1. Evaluation!Committed \in SUBSET Evaluation!Entries
  BY PromiseIsNat DEF Evaluation!SpendingInv, Evaluation!SpendingShape, Evaluation!Committed,
         Evaluation!Promised, Evaluation!Entries
<1>2. IsFiniteSet(Evaluation!Committed)
  BY FiniteThere DEF Evaluation!SpendingInv, Evaluation!Recorded
<1> QED
  BY <1>1, <1>2, FS_Subset DEF Evaluation!Committed

(* Time passes; a request is looked at without being admitted.               *)
LEMMA LookSteps ==
    ASSUME Evaluation!SpendingInv,
           \/ Evaluation!Midnight \/ UNCHANGED Evaluation!vars
           \/ \E r \in Spenders : Evaluation!Check(r) \/ Evaluation!ReadDaily(r)
                                  \/ Evaluation!ReadMonthly(r)
    PROVE  Evaluation!SpendingInv'
<1>1. /\ Evaluation!SpendingShape /\ Evaluation!Recorded
      /\ Evaluation!ReadRight /\ Evaluation!WithinBudget
  BY DEF Evaluation!SpendingInv
<1>2. \A f \in s3 : f.request \in Spenders /\ s4[f.request] = "done"
  BY <1>1 DEF Evaluation!SpendingShape, Evaluation!Entries, Evaluation!Recorded
<1>3. CASE Evaluation!Midnight \/ UNCHANGED Evaluation!vars
  <2>1. UNCHANGED <<s1, s3, s4, s5, s6, s7, s8, s9>> /\ s2' \in Nat
    BY <1>1, <1>3 DEF Evaluation!Midnight, Evaluation!vars, Evaluation!read_vars,
       Evaluation!SpendingShape
  <2>2. Evaluation!SpendingShape'
    BY <1>1, <2>1 DEF Evaluation!SpendingShape
  <2>3. Evaluation!ReadRight'
    BY <1>1, <2>1 DEF Evaluation!ReadRight, Evaluation!OfDay
  <2>4. Evaluation!Committed' = Evaluation!Committed
    BY <2>1 DEF Evaluation!Committed, Evaluation!Promised, Evaluation!Promise, Evaluation!Counted
  <2> QED
    BY <1>2, <2>1, <2>2, <2>3, <2>4, SpendingStays
<1>4. ASSUME NEW r \in Spenders,
             Evaluation!Check(r) \/ Evaluation!ReadDaily(r) \/ Evaluation!ReadMonthly(r)
      PROVE  Evaluation!SpendingInv'
  <2> USE DEF Evaluation!Go, Evaluation!read_vars
  <2>1. s4[r] \in {"new", "daily", "monthly"} /\ UNCHANGED <<s1, s2, s3>> /\ s9 \subseteq s9'
    BY <1>4 DEF Evaluation!Check, Evaluation!ReadDaily, Evaluation!ReadMonthly
  <2>2. \A f \in s3 : f.request # r
    BY <1>2, <2>1
  <2>3. ASSUME NEW place \in {"refused", "daily", "monthly", "decide"},
               NEW d \in Nat, s4' = [s4 EXCEPT ![r] = place], s5' = [s5 EXCEPT ![r] = d],
               DOMAIN s6' = Spenders, DOMAIN s7' = Spenders, DOMAIN s8' = Spenders,
               \A u \in Spenders \ {r} : s6'[u] = s6[u] /\ s7'[u] = s7[u] /\ s8'[u] = s8[u],
               /\ place \in {"monthly", "decide"} =>
                    /\ s8'[r] \subseteq s3'
                    /\ \/ s6'[r] = Evaluation!Unreadable /\ "daily_unread" \in s9'
                       \/ s8'[r] = s3' => s6'[r] = Evaluation!Used({e \in s3' : e.day = d})
               /\ place = "decide" =>
                    \/ s7'[r] = Evaluation!Unreadable /\ "monthly_unread" \in s9'
                    \/ s8'[r] = s3' => s7'[r] = Evaluation!Used(s3')
        PROVE  Evaluation!SpendingInv'
    <3>1. s4'[r] = place /\ s5'[r] = d
          /\ \A u \in Spenders \ {r} : s4'[u] = s4[u] /\ s5'[u] = s5[u]
      BY <1>1, <2>3 DEF Evaluation!SpendingShape
    <3>2. Evaluation!SpendingShape'
      <4>1. s4' \in [Spenders -> {"new", "refused", "daily", "monthly", "decide", "admitted", "done"}]
            /\ s5' \in [Spenders -> Nat]
        BY <1>1, <2>3 DEF Evaluation!SpendingShape
      <4> QED
        BY <1>1, <2>1, <2>3, <4>1 DEF Evaluation!SpendingShape
    <3>3. ASSUME NEW u \in Spenders
          PROVE  /\ s4'[u] \in {"monthly", "decide"} =>
                       /\ s8'[u] \subseteq s3'
                       /\ \/ s6'[u] = Evaluation!Unreadable /\ "daily_unread" \in s9'
                          \/ s8'[u] = s3' => s6'[u] = Evaluation!Used({e \in s3' : e.day = s5'[u]})
                 /\ s4'[u] = "decide" =>
                       \/ s7'[u] = Evaluation!Unreadable /\ "monthly_unread" \in s9'
                       \/ s8'[u] = s3' => s7'[u] = Evaluation!Used(s3')
      <4>1. CASE u = r
        <5>1. {e \in s3' : e.day = s5'[r]} = {e \in s3' : e.day = d}
          BY <3>1
        <5> QED
          BY <2>3, <3>1, <4>1, <5>1
      <4>2. CASE u # r
        BY <1>1, <2>1, <2>3, <3>1, <4>2, ReadStays
      <4> QED
        BY <4>1, <4>2
    <3>4. Evaluation!ReadRight'
      BY <3>3 DEF Evaluation!ReadRight, Evaluation!OfDay
    <3>5. Evaluation!Committed' = Evaluation!Committed
      BY <2>1, <2>3, <3>1 DEF Evaluation!Committed, Evaluation!Promised, Evaluation!Promise,
         Evaluation!Counted
    <3>6. \A e \in s3 : s4'[e.request] = "done"
      BY <1>2, <2>2, <3>1
    <3> QED
      BY <2>1, <3>2, <3>4, <3>5, <3>6, SpendingStays
  <2>4. s2 \in Nat /\ s5[r] \in Nat /\ s5 = [s5 EXCEPT ![r] = s5[r]]
        /\ DOMAIN s6 = Spenders /\ DOMAIN s7 = Spenders /\ DOMAIN s8 = Spenders
    BY <1>1 DEF Evaluation!SpendingShape
  <2>5. CASE Evaluation!Check(r)
    <3>1. /\ s4[r] = "new" /\ s5' = [s5 EXCEPT ![r] = s2] /\ UNCHANGED <<s6, s7, s8, s9>>
      BY <2>5 DEF Evaluation!Check
    <3>2. \/ \E place \in {"refused", "daily"} : s4' = [s4 EXCEPT ![r] = place]
          \/ s1.limits = "nothing" /\ s4' = [s4 EXCEPT ![r] = "admitted"]
      <4>1. CASE s1.limits = "nothing"
        BY <2>5, <4>1 DEF Evaluation!Check
      <4>2. CASE s1.limits # "nothing" /\ Evaluation!Promise(r) > PerRequest
        BY <2>5, <4>2 DEF Evaluation!Check
      <4>3. CASE s1.limits # "nothing" /\ ~(Evaluation!Promise(r) > PerRequest)
        BY <2>5, <4>3 DEF Evaluation!Check
      <4> QED
        BY <4>1, <4>2, <4>3
    <3>3. CASE \E place \in {"refused", "daily"} : s4' = [s4 EXCEPT ![r] = place]
      BY <2>3, <2>4, <3>1, <3>3
    <3>4. CASE s1.limits = "nothing" /\ s4' = [s4 EXCEPT ![r] = "admitted"]
      <4>1. Evaluation!Recorded'
        BY <2>1, <2>4, <3>1, <3>4, OneCommitted
      <4>2. Evaluation!WithinBudget'
        BY <2>1, <3>4 DEF Evaluation!WithinBudget
      <4>3. Evaluation!SpendingShape'
        <5>1. s4' \in [Spenders -> {"new", "refused", "daily", "monthly", "decide", "admitted", "done"}]
              /\ s5' \in [Spenders -> Nat]
          BY <1>1, <3>1, <3>4 DEF Evaluation!SpendingShape
        <5> QED
          BY <1>1, <2>1, <3>1, <5>1 DEF Evaluation!SpendingShape
      <4>4. ASSUME NEW u \in Spenders, s4'[u] \in {"monthly", "decide"}
            PROVE  /\ s8'[u] \subseteq s3'
                   /\ \/ s6'[u] = Evaluation!Unreadable /\ "daily_unread" \in s9'
                      \/ s8'[u] = s3' => s6'[u] = Evaluation!Used({e \in s3' : e.day = s5'[u]})
                   /\ s4'[u] = "decide" =>
                         \/ s7'[u] = Evaluation!Unreadable /\ "monthly_unread" \in s9'
                         \/ s8'[u] = s3' => s7'[u] = Evaluation!Used(s3')
        <5>1. u # r /\ s4'[u] = s4[u] /\ s5'[u] = s5[u]
          BY <1>1, <3>1, <3>4, <4>4 DEF Evaluation!SpendingShape
        <5> QED
          BY <1>1, <2>1, <3>1, <4>4, <5>1, ReadStays
      <4>5. Evaluation!ReadRight'
        BY <4>4 DEF Evaluation!ReadRight, Evaluation!OfDay
      <4> QED
        BY <4>1, <4>2, <4>3, <4>5 DEF Evaluation!SpendingInv
    <3> QED
      BY <3>2, <3>3, <3>4
  <2>6. CASE Evaluation!ReadDaily(r)
    <3>1. /\ s4' = [s4 EXCEPT ![r] = "monthly"] /\ s8' = [s8 EXCEPT ![r] = s3]
          /\ UNCHANGED <<s3, s5, s7>>
          /\ \/ s6' = [s6 EXCEPT ![r] = Evaluation!Used({e \in s3 : e.day = s5[r]})]
             \/ s6' = [s6 EXCEPT ![r] = Evaluation!Unreadable] /\ "daily_unread" \in s9'
      BY <2>6 DEF Evaluation!ReadDaily, Evaluation!OfDay
    <3>2. s8'[r] = s3'
          /\ \/ s6'[r] = Evaluation!Used({e \in s3' : e.day = s5[r]})
             \/ s6'[r] = Evaluation!Unreadable /\ "daily_unread" \in s9'
      BY <2>4, <3>1
    <3> QED
      BY <2>3, <2>4, <3>1, <3>2
  <2>7. CASE Evaluation!ReadMonthly(r)
    <3>1. /\ s4' = [s4 EXCEPT ![r] = "decide"] /\ s4[r] = "monthly" /\ UNCHANGED <<s3, s5, s6, s8>>
          /\ \/ s7' = [s7 EXCEPT ![r] = Evaluation!Used(s3)]
             \/ s7' = [s7 EXCEPT ![r] = Evaluation!Unreadable] /\ "monthly_unread" \in s9'
      BY <2>7 DEF Evaluation!ReadMonthly
    <3>2. \/ s7'[r] = Evaluation!Used(s3')
          \/ s7'[r] = Evaluation!Unreadable /\ "monthly_unread" \in s9'
      BY <2>4, <3>1
    <3>3. /\ s8'[r] \subseteq s3'
          /\ \/ s6'[r] = Evaluation!Unreadable /\ "daily_unread" \in s9'
             \/ s8'[r] = s3' => s6'[r] = Evaluation!Used({e \in s3' : e.day = s5[r]})
      BY <1>1, <2>1, <3>1 DEF Evaluation!ReadRight, Evaluation!OfDay
    <3> QED
      BY <2>3, <2>4, <3>1, <3>2, <3>3
  <2> QED
    BY <1>4, <2>5, <2>6, <2>7
<1> QED
  BY <1>3, <1>4

(* The decision: a request that is admitted without a reason fits in.        *)
LEMMA DecideStep ==
    ASSUME Evaluation!SpendingInv, NEW r \in Spenders, Evaluation!Decide(r)
    PROVE  Evaluation!SpendingInv'
<1> DEFINE refused == \/ /\ Evaluation!Counted(r)
                         /\ \/ Evaluation!Exceeds(s6[r], r, Daily)
                            \/ Evaluation!Exceeds(s7[r], r, Monthly)
                      \/ r \notin Priced /\ s1.unknown = "block"
           missed == \E u \in Evaluation!Underway : \A e \in s8[r] : e.request # u
           new == [request |-> r, day |-> s5[r], used |-> Evaluation!Promise(r)]
           C == Evaluation!Committed
<1>1. /\ Evaluation!SpendingShape /\ Evaluation!Recorded
      /\ Evaluation!ReadRight /\ Evaluation!WithinBudget
  BY DEF Evaluation!SpendingInv
<1>2. /\ s4[r] = "decide" /\ UNCHANGED <<s1, s2, s3, s5>>
      /\ s4' = [s4 EXCEPT ![r] = IF refused THEN "refused" ELSE "admitted"]
      /\ s9' = IF Evaluation!Counted(r) /\ ~refused /\ missed THEN s9 \cup {"in_flight"} ELSE s9
      /\ s6' = [s6 EXCEPT ![r] = 0] /\ s7' = [s7 EXCEPT ![r] = 0] /\ s8' = [s8 EXCEPT ![r] = {}]
  BY DEF Evaluation!Decide, Evaluation!Go
<1>3. /\ s4'[r] \notin {"monthly", "decide"}
      /\ \A u \in Spenders \ {r} :
            s4'[u] = s4[u] /\ s6'[u] = s6[u] /\ s7'[u] = s7[u] /\ s8'[u] = s8[u]
      /\ s9 \subseteq s9' /\ s5[r] \in Nat /\ s5' = [s5 EXCEPT ![r] = s5[r]]
  BY <1>1, <1>2 DEF Evaluation!SpendingShape
<1>4. Evaluation!SpendingShape'
  <2>1. s4' \in [Spenders -> {"new", "refused", "daily", "monthly", "decide", "admitted", "done"}]
    BY <1>1, <1>2 DEF Evaluation!SpendingShape
  <2> QED
    BY <1>1, <1>2, <2>1 DEF Evaluation!SpendingShape
<1>5. Evaluation!ReadRight'
  <2>1. ASSUME NEW u \in Spenders, s4'[u] \in {"monthly", "decide"}
        PROVE  /\ s8'[u] \subseteq s3'
               /\ \/ s6'[u] = Evaluation!Unreadable /\ "daily_unread" \in s9'
                  \/ s8'[u] = s3' => s6'[u] = Evaluation!Used({e \in s3' : e.day = s5'[u]})
               /\ s4'[u] = "decide" =>
                     \/ s7'[u] = Evaluation!Unreadable /\ "monthly_unread" \in s9'
                     \/ s8'[u] = s3' => s7'[u] = Evaluation!Used(s3')
    BY <1>1, <1>2, <1>3, <2>1, ReadStays
  <2> QED
    BY <2>1 DEF Evaluation!ReadRight, Evaluation!OfDay
<1>6. CASE refused
  <2>1. Evaluation!Committed' = C
    BY <1>2, <1>3, <1>6 DEF Evaluation!Committed, Evaluation!Promised, Evaluation!Promise,
       Evaluation!Counted, Evaluation!SpendingShape
  <2>2. \A e \in s3 : s4'[e.request] = "done"
    BY <1>1, <1>2, <1>3 DEF Evaluation!Recorded, Evaluation!SpendingShape, Evaluation!Entries
  <2> QED
    BY <1>2, <1>3, <1>4, <1>5, <2>1, <2>2, SpendingStays
<1>7. CASE ~refused
  <2>1. Evaluation!Committed' = C \cup {new} /\ new \in Evaluation!Entries \ C
        /\ Evaluation!Recorded'
    BY <1>2, <1>3, <1>7, OneCommitted
  <2>2. C \in SUBSET Evaluation!Entries /\ IsFiniteSet(C) /\ s3 \in SUBSET C
        /\ \A S \in SUBSET C : S \in SUBSET Evaluation!Entries /\ IsFiniteSet(S)
    BY CommittedEntries
  <2>3. /\ Evaluation!Promise(r) \in Nat /\ ForeseenWeight[new] = Evaluation!Promise(r)
        /\ new.request = r /\ new.day = s5[r]
    BY <2>1, PromiseIsNat DEF ForeseenWeight
  <2>4. CASE Evaluation!Counted(r) /\ missed
    <3>1. "in_flight" \in s9'
      BY <1>2, <1>7, <2>4
    <3>2. Evaluation!WithinBudget'
      BY <3>1 DEF Evaluation!WithinBudget
    <3> QED
      BY <1>4, <1>5, <2>1, <3>2 DEF Evaluation!SpendingInv
  <2>5. CASE ~(Evaluation!Counted(r) /\ missed)
    <3> DEFINE n == Evaluation!Promise(r)
               month == s1.limits # "nothing" /\ s9 \cap {"in_flight", "monthly_unread"} = {}
               unread == {"in_flight", "daily_unread", "after_midnight"}
    <3>1. Evaluation!Counted(r) => s8[r] = s3 /\ C = s3
      <4> SUFFICES ASSUME Evaluation!Counted(r) PROVE s8[r] = s3 /\ C = s3
        OBVIOUS
      <4>1. \A u \in Spenders : s4[u] \in {"admitted", "done"} => \E e \in s8[r] : e.request = u
        BY <2>5 DEF Evaluation!Underway
      <4>2. s8[r] \subseteq s3
        BY <1>1, <1>2 DEF Evaluation!ReadRight
      <4>3. \A u \in Spenders : s4[u] # "admitted"
        BY <1>1, <4>1, <4>2 DEF Evaluation!Recorded
      <4>4. \A f \in s3 : f \in s8[r]
        BY <1>1, <4>1, <4>2 DEF Evaluation!Recorded, Evaluation!SpendingShape, Evaluation!Entries
      <4> QED
        BY <4>2, <4>3, <4>4 DEF Evaluation!Committed, Evaluation!Promised
    <3>2. ~Evaluation!Counted(r) => n = 0
      BY DEF Evaluation!Promise
    <3>3. month => Evaluation!Foreseen(C \cup {new}) <= Monthly
      <4>1. Evaluation!Foreseen(C \cup {new}) = Evaluation!Foreseen(C) + n
            /\ Evaluation!Foreseen(C) \in Nat /\ Evaluation!Used(C) \in Nat
            /\ Evaluation!Foreseen(C) <= Evaluation!Used(C)
        <5> HIDE DEF C, new
        <5> QED
          BY <2>1, <2>2, <2>3, UsageSums
      <4>2. month => Evaluation!Foreseen(C) <= Monthly
        BY <1>1 DEF Evaluation!WithinBudget
      <4>3. CASE ~Evaluation!Counted(r)
        BY <3>2, <4>1, <4>2, <4>3
      <4>4. CASE Evaluation!Counted(r) /\ month
        <5>1. s7[r] = Evaluation!Used(C)
          BY <1>1, <1>2, <3>1, <4>4 DEF Evaluation!ReadRight
        <5>2. ~Evaluation!Exceeds(s7[r], r, Monthly)
          BY <1>7, <4>4
        <5>3. s7[r] + n <= Monthly
          <6>1. s7[r] \in Nat
            BY <4>1, <5>1
          <6> QED
            BY <2>3, <5>2, <6>1, EvaluationAssumption DEF Evaluation!Exceeds, Evaluation!Unreadable
        <5> HIDE DEF C, new, n, month
        <5>4. Evaluation!Used(C) + n <= Monthly
          BY <5>1, <5>3
        <5>5. n \in Nat
          BY <2>3 DEF n
        <5> QED
          BY <4>1, <5>4, <5>5, EvaluationAssumption
      <4> QED
        BY <4>3, <4>4
    <3>4. ASSUME NEW d \in Days, s1.limits # "nothing", s9 \cap unread = {}
          PROVE  Evaluation!Foreseen({e \in C \cup {new} : e.day = d}) <= Daily
      <4> DEFINE D == {e \in C : e.day = d}
      <4>1. Evaluation!Foreseen(D) <= Daily
        BY <1>1, <3>4 DEF Evaluation!WithinBudget
      <4>2. CASE d # s5[r]
        <5>1. {e \in C \cup {new} : e.day = d} = D
          BY <2>3, <4>2
        <5> QED
          BY <4>1, <5>1
      <4>3. CASE d = s5[r]
        <5>1. {e \in C \cup {new} : e.day = d} = D \cup {new}
          BY <2>3, <4>3
        <5>2. D \in SUBSET Evaluation!Entries /\ IsFiniteSet(D) /\ new \in Evaluation!Entries \ D
          BY <2>1, <2>2
        <5>3. /\ Evaluation!Foreseen(D \cup {new}) = Evaluation!Foreseen(D) + n
              /\ Evaluation!Foreseen(D) \in Nat /\ Evaluation!Used(D) \in Nat
              /\ Evaluation!Foreseen(D) <= Evaluation!Used(D)
          <6> HIDE DEF D, new
          <6> QED
            BY <2>3, <5>2, UsageSums
        <5>4. Evaluation!Foreseen({e \in C \cup {new} : e.day = d}) = Evaluation!Foreseen(D) + n
          <6>1. Evaluation!Foreseen({e \in C \cup {new} : e.day = d})
                = Evaluation!Foreseen(D \cup {new})
            BY Zenon, <5>1
          <6> QED
            BY Zenon, <5>3, <6>1
        <5>5. CASE ~Evaluation!Counted(r)
          <6>1. PICK f, g : f = Evaluation!Foreseen(D) /\ g = Evaluation!Foreseen({e \in C \cup {new} : e.day = d})
            OBVIOUS
          <6>2. f \in Nat /\ f <= Daily /\ g = f + n
            BY Zenon, <4>1, <5>3, <5>4, <6>1
          <6>3. g <= Daily
            BY <3>2, <5>5, <6>2
          <6> QED
            BY Zenon, <6>1, <6>3
        <5>6. CASE Evaluation!Counted(r)
          <6>1. s6[r] = Evaluation!Used(D)
            BY <1>1, <1>2, <3>1, <3>4, <4>3, <5>6 DEF Evaluation!ReadRight, Evaluation!OfDay
          <6>2. ~Evaluation!Exceeds(s6[r], r, Daily)
            BY <1>7, <5>6
          <6>3. s6[r] + n <= Daily
            <7>1. s6[r] \in Nat
              BY <5>3, <6>1
            <7> HIDE DEF D
            <7> QED
              BY <2>3, <6>2, <7>1, EvaluationAssumption DEF Evaluation!Exceeds, Evaluation!Unreadable
          <6>4. n \in Nat
            BY <2>3
          <6>5. Evaluation!Used(D) + n <= Daily
            BY Zenon, <6>1, <6>3
          <6>6. PICK f, g, u : /\ f = Evaluation!Foreseen(D) /\ u = Evaluation!Used(D)
                               /\ g = Evaluation!Foreseen({e \in C \cup {new} : e.day = d})
            OBVIOUS
          <6>7. f \in Nat /\ u \in Nat /\ f <= u /\ u + n <= Daily /\ g = f + n
            BY Zenon, <5>3, <5>4, <6>5, <6>6
          <6>8. g <= Daily
            BY <6>4, <6>7, EvaluationAssumption
          <6> QED
            BY Zenon, <6>6, <6>8
        <5> QED
          BY <5>5, <5>6
      <4> QED
        BY <4>2, <4>3
    <3>5. s9' = s9
      BY <1>2, <2>5
    <3>6. Evaluation!WithinBudget'
      <4> HIDE DEF C, new, missed, refused
      <4> QED
        BY <1>2, <2>1, <3>3, <3>4, <3>5 DEF Evaluation!WithinBudget, Evaluation!Foreseen,
           Evaluation!Promise, Evaluation!Counted
    <3> QED
      BY <1>4, <1>5, <2>1, <3>6 DEF Evaluation!SpendingInv
  <2> QED
    BY <2>4, <2>5
<1> QED
  BY <1>6, <1>7

(* The record of an admitted request takes its place, on the day it was sent *)
(* or a later one.                                                           *)
LEMMA RecordStep ==
    ASSUME Evaluation!SpendingInv, NEW r \in Spenders, Evaluation!Record(r)
    PROVE  Evaluation!SpendingInv'
<1> DEFINE old == [request |-> r, day |-> s5[r], used |-> Evaluation!Promise(r)]
           C == Evaluation!Committed
<1>1. /\ Evaluation!SpendingShape /\ Evaluation!Recorded
      /\ Evaluation!ReadRight /\ Evaluation!WithinBudget
  BY DEF Evaluation!SpendingInv
<1>2. PICK d \in s5[r] .. s2, n \in Spent :
          /\ s3' = s3 \cup {[request |-> r, day |-> d, used |-> n]}
          /\ s9' = IF d # s5[r] THEN s9 \cup {"after_midnight"} ELSE s9
  BY DEF Evaluation!Record
<1> DEFINE new == [request |-> r, day |-> d, used |-> n]
<1>3. /\ s4[r] = "admitted" /\ s4' = [s4 EXCEPT ![r] = "done"]
      /\ UNCHANGED <<s1, s2, s5, s6, s7, s8>>
  BY DEF Evaluation!Record, Evaluation!Go, Evaluation!read_vars
<1>4. /\ s4'[r] = "done" /\ \A u \in Spenders \ {r} : s4'[u] = s4[u]
      /\ d \in Nat /\ s5[r] \in Nat /\ new \in Evaluation!Entries /\ s9 \subseteq s9'
      /\ new.request = r /\ new.day = d /\ old.request = r /\ old.day = s5[r]
  BY <1>1, <1>2, <1>3, EvaluationAssumption DEF Evaluation!SpendingShape, Evaluation!Entries
<1>5. \A f \in s3 : f.request \in Spenders /\ f.request # r /\ s4[f.request] = "done"
  BY <1>1, <1>3 DEF Evaluation!Recorded, Evaluation!SpendingShape, Evaluation!Entries
<1>6. Evaluation!SpendingShape'
  <2>1. s4' \in [Spenders -> {"new", "refused", "daily", "monthly", "decide", "admitted", "done"}]
    BY <1>1, <1>3 DEF Evaluation!SpendingShape
  <2> QED
    BY <1>1, <1>2, <1>3, <1>4, <2>1 DEF Evaluation!SpendingShape
<1>7. Evaluation!ReadRight'
  <2>1. ASSUME NEW u \in Spenders, s4'[u] \in {"monthly", "decide"}
        PROVE  s8'[u] \subseteq s3' /\ s8'[u] # s3'
    <3>1. s4[u] \in {"monthly", "decide"}
      BY <1>4, <2>1
    <3>2. s8[u] \subseteq s3
      BY <1>1, <3>1 DEF Evaluation!ReadRight
    <3>3. new \in s3' /\ new \notin s3
      BY <1>2, <1>4, <1>5
    <3> QED
      BY <1>2, <1>3, <3>2, <3>3
  <2> QED
    BY <2>1 DEF Evaluation!ReadRight
<1>8. Evaluation!Promised = Evaluation!Promised' \cup {old} /\ \A f \in Evaluation!Promised' : f.request # r
  BY <1>3, <1>4 DEF Evaluation!Promised, Evaluation!Promise, Evaluation!Counted
<1>9. /\ old \in C /\ Evaluation!Committed' = (C \ {old}) \cup {new}
      /\ new \notin C \ {old}
  <2>1. C = s3 \cup Evaluation!Promised' \cup {old}
    BY <1>8 DEF Evaluation!Committed
  <2>2. Evaluation!Committed' = s3 \cup {new} \cup Evaluation!Promised'
    BY <1>2 DEF Evaluation!Committed
  <2>3. \A f \in s3 \cup Evaluation!Promised' : f.request # r
    BY <1>5, <1>8
  <2> HIDE DEF C, old, new
  <2> QED
    BY <1>4, <2>1, <2>2, <2>3
<1>10. C \in SUBSET Evaluation!Entries /\ IsFiniteSet(C)
       /\ \A S \in SUBSET C : S \in SUBSET Evaluation!Entries /\ IsFiniteSet(S)
  BY CommittedEntries
<1>11. Evaluation!Recorded'
  <2>1. IsFiniteSet((C \ {old}) \cup {new})
    <3>1. IsFiniteSet(C \ {old})
      BY <1>10
    <3> HIDE DEF C, old, new
    <3> QED
      BY <3>1, FS_AddElement
  <2>2. IsFiniteSet(Evaluation!Committed')
    BY <1>9, <2>1
  <2>3. \A f \in s3' : s4'[f.request] = "done"
    BY <1>2, <1>4, <1>5
  <2>4. \A f, g \in s3' : f.request = g.request => f = g
    BY <1>1, <1>2, <1>4, <1>5 DEF Evaluation!Recorded
  <2> QED
    BY <2>2, <2>3, <2>4, FiniteThere DEF Evaluation!Recorded
<1>12. /\ ForeseenWeight[new] <= ForeseenWeight[old]
       /\ ForeseenWeight[new] \in Nat /\ ForeseenWeight[old] \in Nat
  <2>1. PICK k \in Nat : k = Evaluation!Promise(r)
    BY PromiseIsNat
  <2>2. old \in Evaluation!Entries /\ new.used = n /\ old.used = k
    BY <1>9, <1>10, <2>1
  <2>3. ForeseenWeight[old] = k /\ ForeseenWeight[new] = IF n > k THEN k ELSE n
    BY <1>4, <2>1, <2>2 DEF ForeseenWeight
  <2>4. n \in Nat
    BY EvaluationAssumption
  <2> HIDE DEF old, new
  <2> QED
    BY <2>3, <2>4
(* Whatever of these were there before and the other after, on one day. *)
<1>13. ASSUME NEW S \in SUBSET C, old \in S
       PROVE  /\ Evaluation!Foreseen((S \ {old}) \cup {new}) <= Evaluation!Foreseen(S)
              /\ Evaluation!Foreseen((S \ {old}) \cup {new}) \in Nat
              /\ Evaluation!Foreseen(S) \in Nat
  <2> DEFINE T == S \ {old}
  <2>1. S \in SUBSET Evaluation!Entries /\ IsFiniteSet(S)
        /\ T \in SUBSET Evaluation!Entries /\ IsFiniteSet(T)
    BY <1>10
  <2>2. new \in Evaluation!Entries \ T
    BY <1>4, <1>9
  <2>3. Evaluation!Foreseen(T \cup {new}) = Evaluation!Foreseen(T) + ForeseenWeight[new]
        /\ Evaluation!Foreseen(T) \in Nat
    <3> HIDE DEF T, new
    <3> QED
      BY <2>1, <2>2, UsageSums
  <2>4. Evaluation!Foreseen(S) = Evaluation!Foreseen(T) + ForeseenWeight[old]
    BY <1>13, <2>1, UsageSums
  <2> HIDE DEF T, old, new
  <2>5. PICK a, b : a = ForeseenWeight[old] /\ b = ForeseenWeight[new]
    OBVIOUS
  <2>6. /\ Evaluation!Foreseen(T \cup {new}) <= Evaluation!Foreseen(S)
        /\ Evaluation!Foreseen(T \cup {new}) \in Nat /\ Evaluation!Foreseen(S) \in Nat
    BY <1>12, <2>3, <2>4, <2>5
  <2> QED
    BY Zenon, <2>6 DEF T
<1>14. Monthly \in Nat /\ Daily \in Nat
  BY EvaluationAssumption
<1>15. s1.limits # "nothing" /\ s9 \cap {"in_flight", "monthly_unread"} = {}
          => Evaluation!Foreseen((C \ {old}) \cup {new}) <= Monthly
  <2>1. s1.limits # "nothing" /\ s9 \cap {"in_flight", "monthly_unread"} = {}
          => Evaluation!Foreseen(C) <= Monthly
    BY <1>1 DEF Evaluation!WithinBudget
  <2>2. /\ Evaluation!Foreseen((C \ {old}) \cup {new}) <= Evaluation!Foreseen(C)
        /\ Evaluation!Foreseen((C \ {old}) \cup {new}) \in Nat
        /\ Evaluation!Foreseen(C) \in Nat
    BY <1>9, <1>13
  <2> HIDE DEF C, old, new
  <2>3. PICK f, g : f = Evaluation!Foreseen(C) /\ g = Evaluation!Foreseen((C \ {old}) \cup {new})
    OBVIOUS
  <2> QED
    BY <1>14, <2>1, <2>2, <2>3
<1>16. CASE d = s5[r]
  <2>1. ASSUME NEW e \in Days, s1.limits # "nothing",
               s9 \cap {"in_flight", "daily_unread", "after_midnight"} = {}
        PROVE  Evaluation!Foreseen({f \in (C \ {old}) \cup {new} : f.day = e}) <= Daily
    <3> DEFINE D == {f \in C : f.day = e}
    <3>1. Evaluation!Foreseen(D) <= Daily
      BY <1>1, <2>1 DEF Evaluation!WithinBudget
    <3>2. CASE e # d
      <4>1. {f \in (C \ {old}) \cup {new} : f.day = e} = D
        BY <1>4, <1>16, <3>2
      <4> QED
        BY <3>1, <4>1
    <3>3. CASE e = d
      <4>1. {f \in (C \ {old}) \cup {new} : f.day = e} = (D \ {old}) \cup {new} /\ old \in D
        BY <1>4, <1>9, <1>16, <3>3
      <4>2. /\ Evaluation!Foreseen((D \ {old}) \cup {new}) <= Evaluation!Foreseen(D)
            /\ Evaluation!Foreseen((D \ {old}) \cup {new}) \in Nat
            /\ Evaluation!Foreseen(D) \in Nat
        BY <1>13, <4>1
      <4>3. Evaluation!Foreseen((D \ {old}) \cup {new}) <= Daily
        <5> HIDE DEF D, old, new
        <5>1. PICK f, g : f = Evaluation!Foreseen(D) /\ g = Evaluation!Foreseen((D \ {old}) \cup {new})
          OBVIOUS
        <5> QED
          BY <1>14, <3>1, <4>2, <5>1
      <4> QED
        BY Zenon, <4>1, <4>3
    <3> QED
      BY <3>2, <3>3
  <2>2. Evaluation!WithinBudget'
    <3>1. s9' = s9
      BY <1>2, <1>16
    <3> HIDE DEF C, old, new
    <3> QED
      BY <1>3, <1>9, <1>15, <2>1, <3>1 DEF Evaluation!WithinBudget, Evaluation!Foreseen,
         Evaluation!Promise, Evaluation!Counted
  <2> QED
    BY <1>6, <1>7, <1>11, <2>2 DEF Evaluation!SpendingInv
<1>17. CASE d # s5[r]
  <2>1. "after_midnight" \in s9' /\ s9 \subseteq s9'
    BY <1>2, <1>17
  <2>2. Evaluation!WithinBudget'
    <3> HIDE DEF C, old, new
    <3> QED
      BY <1>3, <1>9, <1>15, <2>1 DEF Evaluation!WithinBudget, Evaluation!Foreseen,
         Evaluation!Promise, Evaluation!Counted
  <2> QED
    BY <1>6, <1>7, <1>11, <2>2 DEF Evaluation!SpendingInv
<1> QED
  BY <1>16, <1>17

LEMMA SpendingKeeps ==
    Evaluation!SpendingInv /\ (Evaluation!Next \/ UNCHANGED Evaluation!vars)
        => Evaluation!SpendingInv'
BY LookSteps, DecideStep, RecordStep DEF Evaluation!Next, Evaluation!Step

(* What is recorded was promised.                                            *)
LEMMA SpendingHolds == Evaluation!SpendingInv => Evaluation!OverspentForAReason
<1> SUFFICES ASSUME Evaluation!SpendingInv, s1.limits # "nothing" PROVE Evaluation!OverspentForAReason
  BY DEF Evaluation!OverspentForAReason
<1> DEFINE C == Evaluation!Committed
<1>1. Evaluation!WithinBudget
  BY DEF Evaluation!SpendingInv
<1>2. /\ C \in SUBSET Evaluation!Entries /\ IsFiniteSet(C) /\ s3 \in SUBSET C
      /\ \A S \in SUBSET C : S \in SUBSET Evaluation!Entries /\ IsFiniteSet(S)
  BY CommittedEntries
<1>3. Evaluation!Foreseen(s3) <= Evaluation!Foreseen(C)
      /\ Evaluation!Foreseen(s3) \in Nat /\ Evaluation!Foreseen(C) \in Nat
  <2> HIDE DEF C
  <2> QED
    BY <1>2, UsageSums
<1>4. ASSUME NEW d \in Days
      PROVE  LET D == {e \in Evaluation!Committed : e.day = d}
             IN  /\ Evaluation!Foreseen({e \in s3 : e.day = d}) <= Evaluation!Foreseen(D)
                 /\ Evaluation!Foreseen({e \in s3 : e.day = d}) \in Nat
                 /\ Evaluation!Foreseen(D) \in Nat
  <2> DEFINE D == {e \in C : e.day = d}
             E == {e \in s3 : e.day = d}
  <2>1. /\ D \in SUBSET Evaluation!Entries /\ IsFiniteSet(D) /\ E \in SUBSET D
        /\ E \in SUBSET Evaluation!Entries /\ IsFiniteSet(E)
    BY <1>2
  <2>2. Evaluation!Foreseen(E) <= Evaluation!Foreseen(D)
        /\ Evaluation!Foreseen(E) \in Nat /\ Evaluation!Foreseen(D) \in Nat
    <3> HIDE DEF D, E
    <3> QED
      BY <2>1, UsageSums
  <2> QED
    BY <2>2
<1> HIDE DEF C
<1>5. Evaluation!Foreseen(s3) > Monthly => s9 \cap {"in_flight", "monthly_unread"} # {}
  BY <1>1, <1>3, EvaluationAssumption DEF Evaluation!WithinBudget, C
<1>6. ASSUME NEW d \in Days, Evaluation!Foreseen({e \in s3 : e.day = d}) > Daily
      PROVE  s9 \cap {"in_flight", "daily_unread", "after_midnight"} # {}
  <2>1. ~(Evaluation!Foreseen({e \in Evaluation!Committed : e.day = d}) <= Daily)
    BY <1>4, <1>6, EvaluationAssumption
  <2> QED
    BY <1>1, <2>1 DEF Evaluation!WithinBudget
<1> QED
  BY <1>5, <1>6 DEF Evaluation!OverspentForAReason, Evaluation!OfDay

(* Usage that was estimated overspends a budget only by a request in flight  *)
(* while another was checked, an unreadable ledger, or, for a day, midnight: *)
(* for any requests, known prices, estimates and usages, limits and days.    *)
THEOREM OverspendingHasReasons == AnySpec => []OverspentForAReason
<1> DEFINE Inv == component = "evaluation" => Evaluation!SpendingInv
<1>1. AnyInit => Inv
  BY SpendingBegins DEF AnyInit
<1>2. Inv /\ [AnyNext]_AnyVars => Inv'
  BY Chosen, SpendingKeeps
<1>3. Inv => OverspentForAReason
  BY SpendingHolds DEF OverspentForAReason
<1> QED
  BY <1>1, <1>2, <1>3, PTL DEF AnySpec, AnyVars

=============================================================================
