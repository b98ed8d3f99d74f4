--------------------------- MODULE DependencyDfs ---------------------------
(***************************************************************************)
(* MissionQueue._validate_no_cycles of agent/runtime/mission_queue.py: the *)
(* depth-first search every queue operation runs over the dependencies,    *)
(* as a machine that steps from node to node.  MissionQueue uses the set   *)
(* definition NoCycles in its place; the properties say that they agree.   *)
(***************************************************************************)
EXTENDS Integers, Sequences

CONSTANTS
    Nodes,       (* identifiers, numbered in the order sorted() gives them     *)
    KnownSets    (* the sets of identifiers that may be queued                 *)

(* Of any identifiers, sorted() puts one first.                              *)
ASSUME DfsAssumption ==
    /\ Nodes \subseteq Int
    /\ \A S \in (SUBSET Nodes) \ {{}} : \E n \in S : \A k \in S : n <= k
    /\ KnownSets \subseteq SUBSET Nodes

VARIABLES
    missions,    (* the queue under validation: id -> dependencies             *)
    color,       (* of each queued mission                                     *)
    stack,       (* the activations of dfs(): a node and its edges left to try *)
    verdict,     (* "searching", or what the call came to                      *)
    path         (* the path an exception names                                *)

vars == <<missions, color, stack, verdict, path>>

Q == INSTANCE MissionQueue
        WITH Missions <- Nodes, Priorities <- {0}, RetryLimits <- {0}, MaxSeq <- 0,
             next_seq <- 1

Known == DOMAIN missions

Edges(u) == missions[u].dependencies \cap Known

Lowest(S) == CHOOSE n \in S : \A k \in S : n <= k

Colored(c) == {u \in Known : color[u] = c}

Top == stack[Len(stack)]

Frame(u) == [node |-> u, rest |-> Edges(u)]

(* The edge is taken off the activation on top.                              *)
Tried(v) ==
    [stack EXCEPT ![Len(stack)] = [node |-> Top.node, rest |-> Top.rest \ {v}]]

-----------------------------------------------------------------------------
Init ==
    /\ \E K \in KnownSets : missions \in [K -> [dependencies : SUBSET Nodes]]
    /\ color = [u \in Known |-> "white"]
    /\ stack = <<>>
    /\ verdict = IF \E u \in Known : u \in missions[u].dependencies
                 THEN "cycle" ELSE "searching"
    /\ path = <<>>

(* The outer loop: the next white root, or the end.                          *)
Root ==
    /\ verdict = "searching"
    /\ stack = <<>>
    /\ Colored("white") # {}
    /\ LET u == Lowest(Colored("white"))
       IN  /\ color' = [color EXCEPT ![u] = "gray"]
           /\ stack' = <<Frame(u)>>
    /\ UNCHANGED <<missions, verdict, path>>

Accept ==
    /\ verdict = "searching"
    /\ stack = <<>>
    /\ Colored("white") = {}
    /\ verdict' = "accepted"
    /\ UNCHANGED <<missions, color, stack, path>>

(* One turn of the loop of dfs(): descend, raise, or pass over a black node. *)
Descend ==
    /\ verdict = "searching"
    /\ stack # <<>>
    /\ Top.rest # {}
    /\ LET v == Lowest(Top.rest)
       IN  /\ color[v] = "white"
           /\ color' = [color EXCEPT ![v] = "gray"]
           /\ stack' = Append(Tried(v), Frame(v))
    /\ UNCHANGED <<missions, verdict, path>>

BackEdge ==
    /\ verdict = "searching"
    /\ stack # <<>>
    /\ Top.rest # {}
    /\ LET v == Lowest(Top.rest)
       IN  /\ color[v] = "gray"
           /\ path' = Append([i \in 1..Len(stack) |-> stack[i].node], v)
    /\ verdict' = "cycle"
    /\ UNCHANGED <<missions, color, stack>>

(* Mutant of PassOver: any node met before is passed over.                   *)
PassOverAny ==
    /\ verdict = "searching"
    /\ stack # <<>>
    /\ Top.rest # {}
    /\ LET v == Lowest(Top.rest)
       IN  /\ color[v] # "white"
           /\ stack' = Tried(v)
    /\ UNCHANGED <<missions, color, verdict, path>>

PassOver ==
    /\ verdict = "searching"
    /\ stack # <<>>
    /\ Top.rest # {}
    /\ LET v == Lowest(Top.rest)
       IN  /\ color[v] = "black"
           /\ stack' = Tried(v)
    /\ UNCHANGED <<missions, color, verdict, path>>

Return ==
    /\ verdict = "searching"
    /\ stack # <<>>
    /\ Top.rest = {}
    /\ color' = [color EXCEPT ![Top.node] = "black"]
    /\ stack' = SubSeq(stack, 1, Len(stack) - 1)
    /\ UNCHANGED <<missions, verdict, path>>

Next == Root \/ Accept \/ Descend \/ BackEdge \/ PassOver \/ Return

Spec == Init /\ [][Next]_vars

-----------------------------------------------------------------------------
(* The type invariant of the search.                                         *)
DfsTypeOK ==
    /\ Known \in KnownSets
    /\ missions \in [Known -> [dependencies : SUBSET Nodes]]
    /\ color \in [Known -> {"white", "gray", "black"}]
    /\ stack \in Seq([node : Known, rest : SUBSET Known])
    /\ verdict \in {"searching", "accepted", "cycle"}

(* The queue is accepted only if no set of missions waits for itself.        *)
AcceptedIsAcyclic == verdict = "accepted" => Q!NoCycles(missions)

(* An exception is raised only for a queue with a cycle, and unless it is a  *)
(* self-dependency the path it names is one: each mission depends on the     *)
(* next, and the last is on it before.                                       *)
RaisedIsCyclic ==
    verdict = "cycle" =>
        /\ ~Q!NoCycles(missions)
        /\ path # <<>> =>
              /\ \A i \in 1..Len(path) - 1 :
                    path[i + 1] \in missions[path[i]].dependencies
              /\ \E i \in 1..Len(path) - 1 : path[i] = path[Len(path)]

(* The call accepts the queues without a cycle, and names one of the others. *)
VerdictIsRight == AcceptedIsAcyclic /\ RaisedIsCyclic

(* What keeps the search right: the gray missions are the open activations,  *)
(* everything a black mission depends on is black, and the black missions    *)
(* hold no cycle.                                                            *)
GrayIsOpen == \A u \in Colored("gray") : \E i \in 1..Len(stack) : stack[i].node = u

BlackIsClosed == \A u \in Colored("black") : Edges(u) \subseteq Colored("black")

BlackIsAcyclic ==
    \A S \in (SUBSET Colored("black")) \ {{}} :
        \E u \in S : missions[u].dependencies \cap S = {}

(* Every edge an activation has dealt with leads to a black mission, or to   *)
(* the activation above it.                                                  *)
DealtWith ==
    \A i \in 1..Len(stack) :
        \A v \in Edges(stack[i].node) \ stack[i].rest :
            \/ color[v] = "black"
            \/ i < Len(stack) /\ stack[i + 1].node = v

(* The activations follow dependencies.                                      *)
Trail ==
    \A i \in 1..Len(stack) :
        /\ stack[i].rest \subseteq Edges(stack[i].node)
        /\ i < Len(stack) => stack[i + 1].node \in Edges(stack[i].node)

NoSelfDependency ==
    verdict # "cycle" => \A u \in Known : u \notin missions[u].dependencies

AcceptedIsBlack == verdict = "accepted" => Colored("black") = Known

DfsInvariant ==
    /\ GrayIsOpen
    /\ BlackIsClosed
    /\ BlackIsAcyclic
    /\ DealtWith
    /\ Trail
    /\ NoSelfDependency
    /\ AcceptedIsBlack
    /\ RaisedIsCyclic
=============================================================================
