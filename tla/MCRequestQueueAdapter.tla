------------------------ MODULE MCRequestQueueAdapter -----------------------
(* Instances of RequestQueueAdapter for TLC.                                 *)
EXTENDS RequestQueueAdapter

CONSTANTS m1, m2, m3, s1, s2

Item(m, D) == [id |-> m, dependencies |-> D]

(* A batch in which one mission depends on the other.                       *)
OneCall == [s \in {s1} |-> {<<Item(m1, {}), Item(m2, {m1})>>}]
=============================================================================
