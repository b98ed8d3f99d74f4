---- MODULE MCMissionExecution ----
(* The instance of MissionExecution for TLC: model values only. *)
EXTENDS MissionExecution
====
