----------------------------- MODULE UsageLedger ----------------------------
(***************************************************************************)
(* The ledger of provider usage: agent/providers/provider_usage_ledger.py. *)
(* Processes share its two files.  A record is added under a lock of the   *)
(* file, which the kernel releases when a process dies; the file is        *)
(* written to one temporary name and moved into place.  The files are      *)
(* created without the lock.  What a summary adds up is BudgetEvaluation.  *)
(* A process is taken as one thread: its own lock keeps the others out.    *)
(***************************************************************************)
EXTENDS Naturals

CONSTANTS
    Processes,
    Usages,           (* usage ids, which callers choose                      *)
    MaxFailures       (* bound on writes that fail, locks that are not had in
                         time and processes that die                          *)

VARIABLES
    file,             (* provider_usage.json: how often it has each usage     *)
    tmp,              (* .provider_usage.json.tmp                             *)
    lock,             (* who has provider_usage.lock                          *)
    events,           (* usages that usage_recorded was emitted for           *)
    pc, usage, data,  (* of each process; data: what it is about to write     *)
    failures,
    crossed           (* history: the file was created while it was there     *)

vars == <<file, tmp, lock, events, pc, usage, data, failures, crossed>>

Missing == [u \in {} |-> 0]      (* there is no such file                      *)
Free == "free"
NoUsage == "none"
EmptyLedger == [u \in Usages |-> 0]

Init ==
    /\ file = Missing /\ tmp = Missing /\ lock = Free /\ events = {}
    /\ pc = [p \in Processes |-> "new"]
    /\ usage = [p \in Processes |-> NoUsage]
    /\ data = [p \in Processes |-> EmptyLedger]
    /\ failures = 0 /\ crossed = FALSE

Go(p, place) == pc' = [pc EXCEPT ![p] = place]
Prepare(p, d) == data' = [data EXCEPT ![p] = d]

-----------------------------------------------------------------------------
(* _init_files: a look, and then a file without records.                     *)

CheckFiles(p) ==
    /\ pc[p] = "new"
    /\ Go(p, IF file = Missing THEN "create" ELSE "ready")
    /\ Prepare(p, EmptyLedger)
    /\ UNCHANGED <<file, tmp, lock, events, usage, failures, crossed>>

-----------------------------------------------------------------------------
(* record_usage                                                              *)

(* A record that is not valid, or of an unknown project, provider or model,  *)
(* gets as far as this and leaves nothing but an event.                      *)
Begin(p, u) ==
    /\ pc[p] = "ready"
    /\ usage' = [usage EXCEPT ![p] = u]
    /\ Go(p, "acquire")
    /\ UNCHANGED <<file, tmp, lock, events, data, failures, crossed>>

(* Mutant of Acquire: only this process's lock.                              *)
AcquireAnyway(p) ==
    /\ pc[p] = "acquire"
    /\ lock' = p
    /\ Go(p, "load")
    /\ UNCHANGED <<file, tmp, events, usage, data, failures, crossed>>

Acquire(p) ==
    /\ pc[p] = "acquire" /\ lock = Free
    /\ lock' = p
    /\ Go(p, "load")
    /\ UNCHANGED <<file, tmp, events, usage, data, failures, crossed>>

(* The usage is there already: the lock is released and the call raises.     *)
Load(p) ==
    /\ pc[p] = "load"
    /\ IF file[usage[p]] > 0
       THEN lock' = Free /\ Go(p, "ready") /\ UNCHANGED data
       ELSE /\ Prepare(p, [file EXCEPT ![usage[p]] = @ + 1])
            /\ Go(p, "write") /\ UNCHANGED lock
    /\ UNCHANGED <<file, tmp, events, usage, failures, crossed>>

(* _atomic_write_json, of _init_files and of record_usage: the same name.    *)
WriteTmp(p) ==
    /\ pc[p] \in {"create", "write"}
    /\ tmp' = data[p]
    /\ Go(p, IF pc[p] = "create" THEN "install" ELSE "move")
    /\ crossed' = (crossed \/ (pc[p] = "create" /\ ~(file = Missing /\ tmp = Missing)))
    /\ UNCHANGED <<file, lock, events, usage, data, failures>>

Release(p) == lock' = IF lock = p THEN Free ELSE lock

(* What the name leads to by now is moved; when nothing, the call raises.    *)
Move(p) ==
    /\ pc[p] \in {"move", "install"}
    /\ IF tmp = Missing
       THEN UNCHANGED file /\ Go(p, IF pc[p] = "move" THEN "ready" ELSE "new")
       ELSE file' = tmp /\ Go(p, IF pc[p] = "move" THEN "event" ELSE "ready")
    /\ tmp' = Missing
    /\ crossed' = (crossed \/ (pc[p] = "install" /\ file # Missing))
    /\ Release(p)
    /\ UNCHANGED <<events, usage, data, failures>>

(* usage_recorded, when the usage lock is free again.  Its file has a lock   *)
(* and a write of its own; what goes wrong there is in Raise.                *)
EmitRecorded(p) ==
    /\ pc[p] = "event"
    /\ events' = events \cup {usage[p]}
    /\ Go(p, "ready")
    /\ UNCHANGED <<file, tmp, lock, usage, data, failures, crossed>>

-----------------------------------------------------------------------------
(* A lock is not had for two seconds, a write fails, or the event does: the  *)
(* call raises, and the temporary file goes, whoever wrote it.               *)
Raise(p) ==
    /\ pc[p] \in {"acquire", "load", "write", "move", "create", "install", "event"}
    /\ failures < MaxFailures
    /\ failures' = failures + 1
    /\ tmp' = IF pc[p] \in {"create", "write", "move", "install"} THEN Missing ELSE tmp
    /\ Go(p, IF pc[p] \in {"create", "install"} THEN "new" ELSE "ready")
    /\ Release(p)
    /\ UNCHANGED <<file, events, usage, data, crossed>>

Crash(p) ==
    /\ pc[p] # "new" /\ failures < MaxFailures
    /\ failures' = failures + 1
    /\ Go(p, "new")
    /\ Release(p)
    /\ UNCHANGED <<file, tmp, events, usage, data, crossed>>

Next ==
    \E p \in Processes :
        \/ CheckFiles(p) \/ Acquire(p) \/ Load(p) \/ WriteTmp(p) \/ Move(p)
        \/ EmitRecorded(p) \/ Raise(p) \/ Crash(p)
        \/ \E u \in Usages : Begin(p, u)

Spec == Init /\ [][Next]_vars

-----------------------------------------------------------------------------
(* The inductive invariant of RecordedOnce.  Who has got past _init_files    *)
(* finds a file, who loads, writes and moves has the lock, and until a file  *)
(* is created over another the one that is about to be moved into place is   *)
(* the present one and one usage more.                                       *)
WithLock == {"load", "write", "move"}
WithoutFile == {"new", "create", "install"}
WithUsage == {"acquire", "event"} \cup WithLock

LedgerTypeOK ==
    /\ pc \in [Processes -> {"ready"} \cup WithoutFile \cup WithUsage]
    /\ file = Missing \/ file \in [Usages -> Nat]
    /\ tmp = Missing \/ tmp \in [Usages -> Nat]
    /\ data \in [Processes -> [Usages -> Nat]]
    /\ usage \in [Processes -> Usages \cup {NoUsage}]
    /\ events \subseteq Usages

Placed ==
    \A p \in Processes :
        /\ pc[p] \in WithUsage => usage[p] \in Usages
        /\ pc[p] \in WithLock => lock = p
        /\ pc[p] \notin WithoutFile => file # Missing
        /\ pc[p] = "create" => data[p] = EmptyLedger

FileGrows ==
    /\ file = Missing => events = {} /\ tmp \in {Missing, EmptyLedger}
    /\ file # Missing => \A u \in Usages : file[u] \in {0, 1}
    /\ \A u \in events : file[u] = 1
    /\ \A p \in Processes :
          /\ pc[p] = "event" => file[usage[p]] = 1
          /\ pc[p] \in {"write", "move"} =>
                file[usage[p]] = 0 /\ data[p] = [file EXCEPT ![usage[p]] = 1]
          /\ pc[p] = "move" => tmp \in {Missing, data[p]}

LedgerInv == LedgerTypeOK /\ Placed /\ (~crossed => FileGrows)

(* What was reported as recorded is in the ledger, and nothing is in it      *)
(* twice, with every process adding to one file, dying in the middle and     *)
(* trying again: except when a process that found no file creates one while  *)
(* another has begun to use it.                                              *)
RecordedOnce ==
    ~crossed =>
        /\ \A u \in events : file[u] = 1
        /\ \A p \in Processes : pc[p] = "event" => file[usage[p]] = 1
        /\ file # Missing => \A u \in Usages : file[u] <= 1
=============================================================================
