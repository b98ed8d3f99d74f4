--------------------------- MODULE ProjectRegistry --------------------------
(***************************************************************************)
(* The registry of projects: agent/projects/project_registry.py.  A        *)
(* process loads the file once, when its registry is built, changes its    *)
(* copy under a lock of its threads, and writes the copy whole under a     *)
(* lock of the file; the events are appended after that.  A change whose   *)
(* write fails raises and stays in the copy.                               *)
(***************************************************************************)
EXTENDS Naturals

CONSTANTS
    Processes,
    Projects,
    Times,        (* what the clock may show, which goes back at times        *)
    MaxChanges,   (* bound on the calls that change the registry              *)
    MaxFailures   (* bound on writes that fail and on processes that die      *)

States == {"active", "suspended", "archived"}

VARIABLES
    file,         (* project_registry.json                                    *)
    memory,       (* _projects of each process                                *)
    latest,       (* _last_updated of each process                            *)
    pc,           (* the change each process is about to persist              *)
    changes, failures,
    told,         (* history: what the last call that returned made of each   *)
    unwritten,    (* history: projects a failed write left changed in a copy  *)
    stale,        (* history: processes that were built before another wrote  *)
    apart         (* history: one of these wrote after that                   *)

count_vars == <<changes, failures>>
history_vars == <<told, unwritten, stale, apart>>
vars == <<file, memory, latest, pc, count_vars, history_vars>>

Absent == [status |-> "absent", created |-> 0, updated |-> 0]
Idle == "idle"

Init ==
    /\ file = [x \in Projects |-> Absent]
    /\ memory = [p \in Processes |-> file]
    /\ latest = [p \in Processes |-> [x \in Projects |-> 0]]
    /\ pc = [p \in Processes |-> Idle]
    /\ changes = 0 /\ failures = 0
    /\ told = file /\ unwritten = {} /\ stale = {} /\ apart = FALSE

Exists(p, x) == memory[p][x] # Absent

(* updated_at moves on although the clock went back.                         *)
After(last, now) == IF now <= last THEN last + 1 ELSE now

-----------------------------------------------------------------------------
(* A change of the copy.  validate_project may refuse it: nothing happens.   *)

Change(p, x, project) ==
    /\ pc[p] = Idle /\ changes < MaxChanges
    /\ changes' = changes + 1
    /\ memory' = [memory EXCEPT ![p][x] = project]
    /\ latest' = [latest EXCEPT ![p][x] = project.updated]
    /\ pc' = [pc EXCEPT ![p] = x]
    /\ UNCHANGED <<file, failures, history_vars>>

CreateProject(p, x, now) ==
    /\ ~Exists(p, x)
    /\ \E s \in States : Change(p, x, [status |-> s, created |-> now, updated |-> now])

(* update_project: any field but created_at and the id.                      *)
UpdateProject(p, x, now) ==
    /\ Exists(p, x)
    /\ \E s \in States :
          Change(p, x, [memory[p][x] EXCEPT !.status = s, !.updated = After(latest[p][x], now)])

(* suspend, activate and archive: a state it has is not written again.       *)
SetStatus(p, x, now) ==
    /\ Exists(p, x)
    /\ \E s \in States \ {memory[p][x].status} :
          Change(p, x, [memory[p][x] EXCEPT !.status = s, !.updated = After(latest[p][x], now)])

(* Only an active project is protected, and only as far as the copy knows.   *)
DeleteProject(p, x) ==
    /\ Exists(p, x)
    /\ \E force \in BOOLEAN : memory[p][x].status = "active" => force
    /\ Change(p, x, Absent)

-----------------------------------------------------------------------------
(* _persist_unlocked                                                         *)

(* Mutant of Persist: only the project that was changed is written.          *)
PersistOne(p) ==
    /\ pc[p] # Idle
    /\ LET x == pc[p]
       IN  /\ file' = [[y \in Projects |-> Absent] EXCEPT ![x] = memory[p][x]]
           /\ told' = [told EXCEPT ![x] = memory[p][x]]
           /\ unwritten' = unwritten \ {x}
    /\ apart' = (apart \/ p \in stale)
    /\ stale' = Processes \ {p}
    /\ pc' = [pc EXCEPT ![p] = Idle]
    /\ UNCHANGED <<memory, latest, count_vars>>

(* The file is replaced by the copy, also with what an earlier call that     *)
(* raised had changed.                                                       *)
Persist(p) ==
    /\ pc[p] # Idle
    /\ LET x == pc[p]
       IN  /\ file' = memory[p]
           /\ told' = [told EXCEPT ![x] = memory[p][x]]
           /\ unwritten' = unwritten \ {x}
    /\ apart' = (apart \/ p \in stale)
    /\ stale' = Processes \ {p}
    /\ pc' = [pc EXCEPT ![p] = Idle]
    /\ UNCHANGED <<memory, latest, count_vars>>

(* The disk refuses; the call raises.                                        *)
PersistFails(p) ==
    /\ pc[p] # Idle /\ failures < MaxFailures
    /\ failures' = failures + 1
    /\ unwritten' = unwritten \cup {pc[p]}
    /\ pc' = [pc EXCEPT ![p] = Idle]
    /\ UNCHANGED <<file, memory, latest, changes, told, stale, apart>>

(* The process dies and is started again: _load_registry.                    *)
Restart(p) ==
    /\ failures < MaxFailures
    /\ failures' = failures + 1
    /\ memory' = [memory EXCEPT ![p] = file]
    /\ latest' = [latest EXCEPT ![p] = [x \in Projects |-> file[x].updated]]
    /\ pc' = [pc EXCEPT ![p] = Idle]
    /\ stale' = stale \ {p}
    /\ UNCHANGED <<file, changes, told, unwritten, apart>>

-----------------------------------------------------------------------------
Next ==
    \E p \in Processes :
        \/ \E x \in Projects, now \in Times :
              CreateProject(p, x, now) \/ UpdateProject(p, x, now) \/ SetStatus(p, x, now)
        \/ \E x \in Projects : DeleteProject(p, x)
        \/ Persist(p) \/ PersistFails(p) \/ Restart(p)

Spec == Init /\ [][Next]_vars

-----------------------------------------------------------------------------
(* What a call was told it made of a project is what the file has of it, and *)
(* a process built later starts from: until the next call for that project,  *)
(* whatever happens to others, by as many processes as take turns.  Two      *)
(* exceptions: once a process writes that was built before another one's     *)
(* last write, which it has not seen, nothing is promised; and a change of   *)
(* the project that failed may still be written with a later one of another. *)
ToldIsKept ==
    ~apart => \A x \in Projects \ unwritten : file[x] = told[x]
-----------------------------------------------------------------------------
(* The inductive invariant of ToldIsKept: the copy of a process that is not  *)
(* stale differs from the file in what it is about to write, and in what it  *)
(* could not write.                                                          *)

Project == [status : States \cup {"absent"}, created : Nat, updated : Nat]

RegistryTypeOK ==
    /\ file \in [Projects -> Project] /\ told \in [Projects -> Project]
    /\ memory \in [Processes -> [Projects -> Project]]
    /\ latest \in [Processes -> [Projects -> Nat]]
    /\ pc \in [Processes -> Projects \cup {Idle}]
    /\ unwritten \subseteq Projects /\ stale \subseteq Processes

UpToDate ==
    \A p \in Processes \ stale, x \in Projects :
        memory[p][x] = file[x] \/ pc[p] = x \/ x \in unwritten

Kept == RegistryTypeOK /\ UpToDate /\ ToldIsKept
=============================================================================
