------------------------ MODULE ProviderRateLimiter ------------------------
(***************************************************************************)
(* The request limiter of one project                                      *)
(* (agent/providers/provider_rate_limiter.py).  Threads of several         *)
(* processes share the project's state file: writers take a lock of their  *)
(* process and then a lock on a file, check_request() takes only the       *)
(* first, and the other readers take none, although the first look at a    *)
(* missing file writes a blank one.  Time is a number; a call reads the    *)
(* clock before it queues for the locks.  Events are left out.             *)
(***************************************************************************)
EXTENDS Integers, FiniteSets

CONSTANTS
    Threads, ProcessOf,    (* threads, and the process each belongs to        *)
    Requests,              (* request ids                                     *)
    Configs,               (* configurations: the capacity (burst_limit, or else
                              request_limit), the window, and whether it is on *)
    Changes,               (* what is changed of one: some of these fields    *)
    MaxClock               (* bound on the clock                              *)

NoOne == "no one"

(* No configuration limits as little as one that is off.                     *)
NoConfig == [capacity |-> 0, window |-> 0, enabled |-> FALSE]
NoChange == [none |-> 0]
Blank == [config |-> NoConfig, entries |-> {}]
Missing == [config |-> NoConfig]

VARIABLES
    clock,
    file,         (* state.json: the configuration, the entries of the window *)
    mutex,        (* who holds each process's lock                            *)
    stuck,        (* threads that never give that lock back                   *)
    lock,         (* who holds the lock on the file                           *)
    pc, call,     (* where each thread is, and in which call                  *)
    seen,         (* what it loaded                                           *)
    granted,      (* history: admissions under a limit since it was configured *)
    terms,        (* history: the largest capacity and the shortest window since
                     then, and whether the limit is on                        *)
    wiped         (* history: a reader's blank state replaced a real one      *)

limits_vars == <<mutex, stuck, lock>>
history_vars == <<granted, terms, wiped>>
vars == <<clock, file, limits_vars, pc, call, seen, history_vars>>

Process(t) == ProcessOf[t]
Go(t, place) == pc' = [pc EXCEPT ![t] = place]

Calls ==
    [op : {"register", "check"}, id : Requests, config : {NoConfig}, changes : {NoChange}]
    \cup [op : {"configure"}, id : {NoOne}, config : Configs, changes : {NoChange}]
    \cup [op : {"update"}, id : {NoOne}, config : {NoConfig}, changes : Changes]
    \cup [op : {"remove", "read"}, id : {NoOne}, config : {NoConfig}, changes : {NoChange}]

NoCall == [op |-> "none", id |-> NoOne, config |-> NoConfig, changes |-> NoChange, now |-> 0]

Writing(t) == call[t].op \notin {"read", "check"}

Init ==
    /\ clock = 0
    /\ file = Missing
    /\ mutex = [p \in {ProcessOf[t] : t \in Threads} |-> NoOne]
    /\ stuck = {}
    /\ lock = NoOne
    /\ pc = [t \in Threads |-> "idle"]
    /\ call = [t \in Threads |-> NoCall]
    /\ seen = [t \in Threads |-> Missing]
    /\ granted = {}
    /\ terms = NoConfig
    /\ wiped = FALSE

Tick ==
    /\ clock < MaxClock
    /\ clock' = clock + 1
    /\ UNCHANGED <<file, limits_vars, pc, call, seen, history_vars>>

(* A call begins: it reads the clock and asks for its locks.                 *)
Call(t) ==
    /\ pc[t] = "idle"
    /\ \E c \in Calls :
        /\ call' = [call EXCEPT ![t] =
                       [op |-> c.op, id |-> c.id, config |-> c.config,
                        changes |-> c.changes, now |-> clock]]
        /\ Go(t, IF c.op = "read" THEN "look" ELSE "enter")
    /\ UNCHANGED <<clock, file, limits_vars, seen, history_vars>>

(* The lock of the process, which its owner may take again.                  *)
EnterProcess(t) ==
    /\ pc[t] = "enter"
    /\ mutex[Process(t)] \in {NoOne, t}
    /\ mutex' = [mutex EXCEPT ![Process(t)] = t]
    /\ Go(t, IF Writing(t) THEN "lock" ELSE "look")
    /\ UNCHANGED <<clock, file, stuck, lock, call, seen, history_vars>>

EnterFile(t) ==
    /\ pc[t] = "lock"
    /\ lock = NoOne
    /\ lock' = t
    /\ Go(t, "look")
    /\ UNCHANGED <<clock, file, mutex, stuck, call, seen, history_vars>>

(* __enter__ raises, so that __exit__ never runs for the process's lock.     *)
LockTimesOut(t) ==
    /\ pc[t] = "lock"
    /\ lock # NoOne
    /\ stuck' = stuck \cup {t}
    /\ Go(t, "idle")
    /\ call' = [call EXCEPT ![t] = NoCall]
    /\ UNCHANGED <<clock, file, mutex, lock, seen, history_vars>>

(* _load_state(), of which the blank file is a second step.                  *)
Load(t) ==
    /\ pc[t] = "look"
    /\ seen' = [seen EXCEPT ![t] = IF file = Missing THEN Blank ELSE file]
    /\ Go(t, IF file = Missing THEN "blank" ELSE "loaded")
    /\ UNCHANGED <<clock, file, limits_vars, call, history_vars>>

WriteBlank(t) ==
    /\ pc[t] = "blank"
    /\ file' = Blank
    /\ wiped' = (wiped \/ file \notin {Missing, Blank})
    /\ Go(t, "loaded")
    /\ UNCHANGED <<clock, limits_vars, call, seen, granted, terms>>

-----------------------------------------------------------------------------
(* What a call does with what it loaded, until its locks are released.       *)

(* Mutant of Pruned: entries leave the window one tick early.                *)
PrunedEarly(entries, now, window) == {e \in entries : e.at > now - window + 1}

(* _prune_entries_inplace()                                                  *)
Pruned(entries, now, window) == {e \in entries : e.at > now - window}

Release(t) ==
    /\ Go(t, "idle")
    /\ mutex' = IF mutex[Process(t)] = t /\ t \notin stuck
                THEN [mutex EXCEPT ![Process(t)] = NoOne] ELSE mutex
    /\ lock' = IF lock = t THEN NoOne ELSE lock
    /\ call' = [call EXCEPT ![t] = NoCall]
    /\ seen' = [seen EXCEPT ![t] = Missing]

(* Returns without a change: a reader, a refused request, a change to a      *)
(* configuration that is not there.                                          *)
Return(t) ==
    LET c == call[t]
        config == seen[t].config
        entries == IF seen[t] = Missing THEN {}
                   ELSE Pruned(seen[t].entries, c.now, config.window)
    IN  /\ pc[t] = "loaded"
        /\ \/ ~Writing(t)
           \/ c.op = "update" /\ config = NoConfig
           \/ /\ c.op = "register"
              /\ config.enabled
              /\ \/ \E e \in entries : e.id = c.id
                 \/ Cardinality(entries) >= config.capacity
        /\ Release(t)
        /\ UNCHANGED <<clock, file, stuck, history_vars>>

(* check_and_register() without a configuration, or with one that is off:    *)
(* nothing is counted, and nothing pruned.                                   *)
AdmitFreely(t) ==
    /\ pc[t] = "loaded" /\ call[t].op = "register"
    /\ ~seen[t].config.enabled
    /\ granted' = IF terms.enabled
                  THEN granted \cup {[id |-> call[t].id, at |-> call[t].now]}
                  ELSE granted
    /\ Release(t)
    /\ UNCHANGED <<clock, file, stuck, terms, wiped>>

(* check_and_register() admits the request.                                  *)
Register(t) ==
    LET c == call[t]
        config == seen[t].config
        entries == Pruned(seen[t].entries, c.now, config.window)
        entry == [id |-> c.id, at |-> c.now]
    IN  /\ pc[t] = "loaded" /\ c.op = "register"
        /\ config.enabled
        /\ \A e \in entries : e.id # c.id
        /\ Cardinality(entries) < config.capacity
        /\ file' = [config |-> config, entries |-> entries \cup {entry}]
        /\ granted' = granted \cup {entry}
        /\ Release(t)
        /\ UNCHANGED <<clock, stuck, terms, wiped>>

(* configure_limit() and remove_limit() start a new window.                  *)
Replace(t) ==
    /\ pc[t] = "loaded" /\ call[t].op \in {"configure", "remove"}
    /\ file' = [config |-> call[t].config, entries |-> {}]
    /\ granted' = {}
    /\ terms' = call[t].config
    /\ Release(t)
    /\ UNCHANGED <<clock, stuck, wiped>>

(* What becomes of a configuration when some of its fields change.           *)
Changed(config, changes) ==
    [f \in DOMAIN config |-> IF f \in DOMAIN changes THEN changes[f] ELSE config[f]]

(* update_limit() changes the configuration and keeps the window's entries,  *)
(* those too that a longer window would have kept and no longer has.         *)
Update(t) ==
    LET new == Changed(seen[t].config, call[t].changes)
    IN  /\ pc[t] = "loaded" /\ call[t].op = "update"
        /\ seen[t].config # NoConfig
        /\ file' = [seen[t] EXCEPT !.config = new]
        /\ terms' = [capacity |-> IF new.capacity > terms.capacity
                                  THEN new.capacity ELSE terms.capacity,
                     window |-> IF new.window < terms.window
                                THEN new.window ELSE terms.window,
                     enabled |-> new.enabled]
        /\ Release(t)
        /\ UNCHANGED <<clock, stuck, granted, wiped>>

Step(t) ==
    \/ Call(t) \/ EnterProcess(t) \/ EnterFile(t) \/ LockTimesOut(t)
    \/ Load(t) \/ WriteBlank(t)
    \/ Return(t) \/ AdmitFreely(t) \/ Register(t) \/ Replace(t) \/ Update(t)

Next == Tick \/ \E t \in Threads : Step(t)

Spec == Init /\ [][Next]_vars

-----------------------------------------------------------------------------
(* The inductive invariant of NeverOvercommitted: the file has all that was  *)
(* admitted in the window, and whoever writes it has its lock.               *)
Entries == [id : Requests, at : Int]

Valid == [capacity : Nat, window : Nat \ {0}, enabled : BOOLEAN]
Terms == [capacity : Nat, window : Nat, enabled : BOOLEAN]

States == [config : Valid \cup {NoConfig}, entries : {E \in SUBSET Entries : IsFiniteSet(E)}]

CallOK(t) ==
    /\ call[t].now \in Int /\ call[t].now <= clock
    /\ call[t].op = "register" => call[t].id \in Requests
    /\ call[t].op = "configure" => call[t].config \in Configs
    /\ call[t].op = "update" => call[t].changes \in Changes
    /\ call[t].op = "remove" => call[t].config = NoConfig

LimiterShape ==
    /\ clock \in Int /\ terms \in Terms /\ granted \subseteq Entries
    /\ DOMAIN pc = Threads /\ DOMAIN call = Threads /\ DOMAIN seen = Threads
    /\ file = Missing \/ file \in States
    /\ \A t \in Threads :
          /\ pc[t] # "idle" => CallOK(t)
          /\ pc[t] \in {"blank", "loaded"} => seen[t] \in States

(* Who writes has the lock on the file, and the file is what it read.        *)
WritersAlone ==
    \A t \in Threads :
        Writing(t) =>
            /\ pc[t] \in {"look", "blank", "loaded"} => lock = t
            /\ pc[t] = "blank" => seen[t] = Blank /\ file \in {Missing, Blank}
            /\ pc[t] = "loaded" => seen[t] = file

(* The file says what is configured, and what was admitted since.            *)
FileCounts ==
    /\ terms = NoConfig <=> file.config = NoConfig
    /\ file.config.enabled = terms.enabled
    /\ terms # NoConfig =>
          /\ terms \in Valid
          /\ file.config.capacity <= terms.capacity
          /\ file.config.window >= terms.window
          /\ Cardinality(file.entries) <= terms.capacity
          /\ {g \in granted : g.at > clock - terms.window} \subseteq file.entries

LimiterInv == LimiterShape /\ (~wiped => WritersAlone /\ FileCounts)

(* "Registration must be atomic and ensure no over-commit"                   *)
(* (provider_rate_limiter.py:309): whichever processes register, in whatever *)
(* order their clock readings reach the file, and however the limit is       *)
(* changed, switched off and on again, the requests it admitted in one       *)
(* window since it was configured never exceed it.  Of a limit that was      *)
(* changed these are its shortest window and its largest capacity: what was  *)
(* pruned is forgotten, and what was admitted not taken back.  Requests let  *)
(* through while it is off are not counted.  The exception is a reader that  *)
(* found no file and replaced the one written meanwhile.                     *)
NeverOvercommitted ==
    \/ wiped \/ terms = NoConfig
    \/ Cardinality({g \in granted : g.at > clock - terms.window}) <= terms.capacity

=============================================================================
