------------------------- MODULE MCBackgroundWorker -------------------------
(* Instances of BackgroundWorker for TLC.                                    *)
EXTENDS BackgroundWorker

MCStatuses == {"success", "retry", "exhausted", "blocked"}
MCAllStatuses == MCStatuses \cup {"unknown"}

Daemon == [once |-> FALSE, idle_limit |-> NoIdleLimit]

(* The systemd unit, which passes no option.                                 *)
DaemonModes == {Daemon}

(* The unit, --once, and --max-idle-cycles 2.                                *)
AllModes == {Daemon, [Daemon EXCEPT !.once = TRUE], [Daemon EXCEPT !.idle_limit = 2]}
=============================================================================
