---------------------- MODULE MCManualReviewApproval ------------------------
(* Instances of ManualReviewApproval for TLC.                                *)
EXTENDS ManualReviewApproval

AllCalls == {"approve", "reject", "reconcile"}

(* Overlapping decisions, rollbacks and the panel are followed for missions  *)
(* that merge, and without pushes of others.  Deciders run the same code, so *)
(* one of them makes the calls that no other overlaps.                       *)
Simple ==
    /\ upstream = 0 /\ ~unmerged
    /\ \A m \in Conflicting :
          /\ \A d \in Deciders : job[d].mission # m
          /\ Q!InState(m, {"blocked"}) /\ record[m] = NoRecord
          /\ m \notin Commits(main) \cup Commits(origin)

First == CHOOSE d \in Deciders : TRUE

Explored ==
    /\ Simple \/ (~crossed /\ rollbacks = 0 /\ interventions = 0)
    /\ ~crossed => \A d \in Deciders \ {First} : pc[d] = "idle"
=============================================================================
