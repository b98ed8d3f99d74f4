------------------------ MODULE BudgetConfigStore --------------------------
(***************************************************************************)
(* The budget configurations (agent/providers/                             *)
(* provider_budget_config_store.py): one store object per process over two *)
(* shared files, configurations and events.  An operation locks, reloads,  *)
(* changes the object's memory and writes both files.  The lock object     *)
(* refuses re-entry by a field it reads before it has the lock, and keeps  *)
(* one handle for all threads: a handle that is replaced, dropped or       *)
(* closed gives up the file lock taken through it.  One project is         *)
(* modelled; a configuration is the number of the save that wrote it, and  *)
(* negative when it was removed.                                           *)
(***************************************************************************)
EXTENDS Integers, FiniteSets

CONSTANTS
    Threads, ProcessOf,    (* threads, and the process each belongs to        *)
    MaxSaves, MaxCrashes   (* bounds                                          *)

Nobody == "nobody"
Processes == {ProcessOf[t] : t \in Threads}

VARIABLES
    configs,          (* the file of configurations; that of events is left out *)
    memory,           (* what each store object holds                         *)
    flock,            (* whose handle holds the lock on the file              *)
    handle, owner,    (* fields of each lock object                           *)
    pc, op,           (* where each thread is, and in which operation         *)
    base,             (* what it reloaded                                     *)
    closed,           (* threads whose handle another thread closed           *)
    saves, crashes,   (* counters                                             *)
    mixed,            (* history: processes with two threads in the lock      *)
    lost              (* history: a save overwrote one it had not loaded      *)

lock_vars == <<flock, handle, owner, closed>>
file_vars == <<configs, saves>>
history_vars == <<crashes, lost>>
vars == <<file_vars, memory, lock_vars, pc, op, base, history_vars, mixed>>

P(t) == ProcessOf[t]
Go(t, place) == pc' = [pc EXCEPT ![t] = place]
Idle(t) ==
    /\ Go(t, "idle")
    /\ op' = [op EXCEPT ![t] = "none"]
    /\ base' = [base EXCEPT ![t] = 0]

Present(c) == c > 0

(* Thread u has passed acquire(), so that only the field keeps its handle.   *)
Inside(u) == pc[u] \in {"reload", "change", "save configs", "save events", "release"}

(* The lock of handle h is given up, if it has it.                           *)
Dropped(h) == IF flock = h THEN Nobody ELSE flock

Init ==
    /\ configs = 0 /\ saves = 0
    /\ memory = [p \in Processes |-> 0]
    /\ flock = Nobody /\ closed = {}
    /\ handle = [p \in Processes |-> Nobody]
    /\ owner = [p \in Processes |-> Nobody]
    /\ pc = [t \in Threads |-> "idle"]
    /\ op = [t \in Threads |-> "none"]
    /\ base = [t \in Threads |-> 0]
    /\ crashes = 0
    /\ mixed = {} /\ lost = FALSE

-----------------------------------------------------------------------------
(* acquire()                                                                 *)

(* The store's lock has no owner, or the call is refused at once.            *)
Call(t) ==
    /\ pc[t] = "idle"
    /\ owner[P(t)] = Nobody
    /\ \E o \in {"configure", "update", "remove", "get"} : op' = [op EXCEPT ![t] = o]
    /\ Go(t, "open")
    /\ mixed' = IF \E u \in Threads \ {t} : P(u) = P(t) /\ pc[u] # "idle"
                THEN mixed \cup {P(t)} ELSE mixed
    /\ UNCHANGED <<file_vars, memory, lock_vars, base, history_vars>>

(* The field takes the new handle; the one it had may be dropped thereby.    *)
Open(t) ==
    LET old == handle[P(t)] IN
    /\ pc[t] = "open"
    /\ handle' = [handle EXCEPT ![P(t)] = t]
    /\ flock' = IF old \in Threads /\ Inside(old) THEN Dropped(old) ELSE flock
    /\ Go(t, "try")
    /\ UNCHANGED <<file_vars, memory, owner, closed, op, base, history_vars, mixed>>

(* The lock is taken through the thread's own handle, and lasts only if that *)
(* is still the field's.                                                     *)
Lock(t) ==
    /\ pc[t] = "try" /\ t \notin closed
    /\ flock = Nobody
    /\ flock' = IF handle[P(t)] = t THEN t ELSE Nobody
    /\ owner' = [owner EXCEPT ![P(t)] = t]
    /\ Go(t, "reload")
    /\ UNCHANGED <<file_vars, memory, handle, closed, op, base, history_vars, mixed>>

(* The lock is held for too long, or another thread closed the handle: the   *)
(* field is cleared whatever it holds by now.                                *)
GiveUp(t) ==
    LET old == handle[P(t)] IN
    /\ pc[t] = "try"
    /\ flock # Nobody \/ t \in closed
    /\ handle' = [handle EXCEPT ![P(t)] = Nobody]
    /\ flock' = IF old \in Threads /\ Inside(old) THEN Dropped(old) ELSE flock
    /\ closed' = closed \ {t}
    /\ Idle(t)
    /\ UNCHANGED <<file_vars, memory, owner, history_vars, mixed>>

-----------------------------------------------------------------------------
(* What the operations do inside the lock.                                   *)

(* Mutant: The files are read once, when the store is made. *)
LoadedOnce(t) == memory[P(t)]

(* _reload_if_changed()                                                      *)
Loaded(t) == configs

Reload(t) ==
    /\ pc[t] = "reload"
    /\ memory' = [memory EXCEPT ![P(t)] = Loaded(t)]
    /\ base' = [base EXCEPT ![t] = Loaded(t)]
    /\ Go(t, "change")
    /\ UNCHANGED <<file_vars, lock_vars, op, history_vars, mixed>>

(* A read, or an operation that finds (or misses) a configuration.           *)
Leave(t) ==
    /\ pc[t] = "change"
    /\ \/ op[t] = "get"
       \/ op[t] = "configure" /\ Present(memory[P(t)])
       \/ op[t] \in {"update", "remove"} /\ ~Present(memory[P(t)])
    /\ Go(t, "release")
    /\ UNCHANGED <<file_vars, memory, lock_vars, op, base, history_vars, mixed>>

Change(t) ==
    /\ pc[t] = "change"
    /\ saves < MaxSaves
    /\ \/ op[t] = "configure" /\ ~Present(memory[P(t)])
       \/ op[t] \in {"update", "remove"} /\ Present(memory[P(t)])
    /\ saves' = saves + 1
    /\ memory' = [memory EXCEPT ![P(t)] = IF op[t] = "remove" THEN -saves' ELSE saves']
    /\ Go(t, "save configs")
    /\ UNCHANGED <<configs, lock_vars, op, base, history_vars, mixed>>

(* _save_state() writes what the memory holds by now, in two files.          *)
SaveConfigs(t) ==
    /\ pc[t] = "save configs"
    /\ configs' = memory[P(t)]
    /\ lost' = (lost \/ configs # base[t])
    /\ Go(t, "save events")
    /\ UNCHANGED <<saves, memory, lock_vars, op, base, crashes, mixed>>

SaveEvents(t) ==
    /\ pc[t] = "save events"
    /\ Go(t, "release")
    /\ UNCHANGED <<file_vars, memory, lock_vars, op, base, history_vars, mixed>>

(* A write fails; the call raises with its memory changed.                   *)
SaveFails(t) ==
    /\ pc[t] \in {"save configs", "save events"}
    /\ Go(t, "release")
    /\ UNCHANGED <<file_vars, memory, lock_vars, op, base, history_vars, mixed>>

-----------------------------------------------------------------------------
(* release(): not by its owner, it raises and leaves the lock as it is; with *)
(* no handle in the field it raises too, and the store refuses every later   *)
(* call.  The handle it unlocks and closes may be another thread's.          *)
Release(t) ==
    LET h == handle[P(t)] IN
    /\ pc[t] = "release"
    /\ IF owner[P(t)] # t \/ h = Nobody
       THEN UNCHANGED lock_vars
       ELSE /\ flock' = Dropped(h)
            /\ handle' = [handle EXCEPT ![P(t)] = Nobody]
            /\ owner' = [owner EXCEPT ![P(t)] = Nobody]
            /\ closed' = IF pc[h] = "try" THEN closed \cup {h} ELSE closed
    /\ Idle(t)
    /\ UNCHANGED <<file_vars, memory, history_vars, mixed>>

(* A process dies, and its store is made anew.                               *)
Crash(p) ==
    /\ crashes < MaxCrashes
    /\ crashes' = crashes + 1
    /\ pc' = [t \in Threads |-> IF P(t) = p THEN "idle" ELSE pc[t]]
    /\ op' = [t \in Threads |-> IF P(t) = p THEN "none" ELSE op[t]]
    /\ base' = [t \in Threads |-> IF P(t) = p THEN 0 ELSE base[t]]
    /\ flock' = IF flock \in Threads /\ P(flock) = p THEN Nobody ELSE flock
    /\ handle' = [handle EXCEPT ![p] = Nobody]
    /\ owner' = [owner EXCEPT ![p] = Nobody]
    /\ closed' = {t \in closed : P(t) # p}
    /\ memory' = [memory EXCEPT ![p] = configs]
    /\ UNCHANGED <<file_vars, lost, mixed>>

Step(t) ==
    \/ Call(t) \/ Open(t) \/ Lock(t) \/ GiveUp(t)
    \/ Reload(t) \/ Leave(t) \/ Change(t)
    \/ SaveConfigs(t) \/ SaveEvents(t) \/ SaveFails(t)
    \/ Release(t)

Next == (\E t \in Threads : Step(t)) \/ \E p \in Processes : Crash(p)

Spec == Init /\ [][Next]_vars

-----------------------------------------------------------------------------
(* The inductive invariant of NoLostUpdate: no two threads of one process in *)
(* a call, with as much of the types as the argument needs.                  *)
StoreTypeOK ==
    /\ handle \in [Processes -> Threads \cup {Nobody}]
    /\ DOMAIN owner = Processes
    /\ DOMAIN pc = Threads
    /\ DOMAIN base = Threads

(* One thread of each process at a time is in a call, and the handle in the  *)
(* field of the lock is its own.                                             *)
OneInCall ==
    \A t, u \in Threads : P(t) = P(u) /\ pc[t] # "idle" /\ pc[u] # "idle" => t = u

HandleIsOwn ==
    /\ \A t \in Threads : pc[t] = "try" \/ Inside(t) => handle[P(t)] = t
    /\ \A p \in Processes : handle[p] \in Threads => P(handle[p]) = p

(* So whoever passed acquire() has the lock on the file.                     *)
InsideHasLock == \A t \in Threads : Inside(t) => flock = t /\ owner[P(t)] = t

(* Therefore the file is what it reloaded, until it writes it.               *)
BaseIsCurrent ==
    \A t \in Threads : pc[t] \in {"change", "save configs"} => base[t] = configs

Unmixed ==
    /\ OneInCall
    /\ HandleIsOwn
    /\ InsideHasLock
    /\ BaseIsCurrent
    /\ ~lost

StoreInv == StoreTypeOK /\ (mixed = {} => Unmixed)

(* A configuration one call saved is never overwritten by a call that had    *)
(* not seen it, whichever processes save, fail and die in between.  What     *)
(* breaks it are two threads of one process that enter the lock together:    *)
(* they share its one handle.                                                *)
NoLostUpdate == mixed = {} => ~lost

=============================================================================
