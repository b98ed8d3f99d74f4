---------------------- MODULE MCDevelopmentSupervisor -----------------------
(* An instance of DevelopmentSupervisor for TLC.                             *)
EXTENDS DevelopmentSupervisor

MCPlan == <<"m", "n">>
MCDependsOn == [m \in {"m", "n"} |-> IF m = "n" THEN {"m"} ELSE {}]
=============================================================================
