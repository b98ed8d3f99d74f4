------------------------- MODULE MCSiteOperations ---------------------------
(* An instance of SiteOperations for TLC.                                    *)
EXTENDS SiteOperations

MCCost == [t \in Tasks |-> 1]
=============================================================================
