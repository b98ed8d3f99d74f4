---------------------------- MODULE ProjectMemory ---------------------------
(***************************************************************************)
(* The memory of a project: agent/memory/project_memory_manager.py with    *)
(* its store.  Recording is atomic, under the manager's lock; a snapshot,  *)
(* a handoff and an export are made of several looks at the store, and any *)
(* number of threads makes them.  A record's id is the hash of its kind    *)
(* and its data, so what was recorded before is not recorded again.        *)
(* Records are numbered by their place in the store, which is also the     *)
(* order of their created_at.  Of the sections of a handoff there are the  *)
(* accepted decisions, the works and a policy; the other lists are cut and *)
(* stored like that of the works.                                          *)
(***************************************************************************)
EXTENDS Naturals, Sequences, FiniteSets, SequencesExt

CONSTANTS
    Threads,
    Decisions, Works, Policies,    (* what can be recorded                    *)
    Accepted,        (* decisions with the status accepted                    *)
    MaxWorks,        (* works that a handoff shows, the latest: 50            *)
    Supersedes,      (* decision -> the decisions it supersedes, at most one  *)
    Oversized,       (* data that exceeds max_record_bytes even when cut      *)
    MaxRecords,      (* bound on the calls that record                        *)
    MaxCalls         (* bound on the snapshots and handoffs that are begun    *)

VARIABLES
    log,           (* _by_project_order, with the records                     *)
    handoff,       (* the bundle in the store: what it was made from          *)
    pc, mine,      (* of each thread                                          *)
    begun,
    asked,         (* history: what was recorded; the latest policy last      *)
    due,           (* history: what finished handoffs had to show             *)
    overlapped     (* history: two handoffs were in the making at a time      *)

history_vars == <<begun, asked, due, overlapped>>
vars == <<log, handoff, pc, mine, history_vars>>

(* What record_architecture_decision, record_work, record_issue, the         *)
(* captures and callers with a preference hand to create_record.             *)
Recordable == Decisions \cup Works \cup Policies

Kind(data) ==
    IF data \in Decisions THEN "decision" ELSE IF data \in Works THEN "work" ELSE "policy"

(* _redact and _bounded_payload: what is too large even with its strings and *)
(* lists cut is replaced by the same sentence.                               *)
Stored(data) == IF data \in Oversized THEN "truncated" ELSE data

Entry(data) == [kind |-> Kind(data), data |-> Stored(data), upto |-> 0]
Snapshot(n) == [kind |-> "snapshot", data |-> "snapshot", upto |-> n]

None == [kind |-> "none", upto |-> 0, snapshot |-> 0, at |-> 0, current |-> TRUE]

Nothing == [snapshot |-> 0, upto |-> 0, at |-> 0, current |-> TRUE, due |-> <<>>]

Go(t, place, m) ==
    /\ pc' = [pc EXCEPT ![t] = place]
    /\ mine' = [mine EXCEPT ![t] = m]

LastOf(S) == CHOOSE i \in S : \A j \in S : j <= i

(* get_latest_snapshot: its number, or 0.                                    *)
LatestSnapshot ==
    LET snapshots == {i \in DOMAIN log : log[i].kind = "snapshot"}
    IN  IF snapshots = {} THEN 0 ELSE LastOf(snapshots)

(* What a handoff shows of the first n records: the decisions that say they  *)
(* are accepted, which one that was cut does not, and the latest works.      *)
ShownDecisions(n) ==
    {log[i].data : i \in {j \in 1..n : log[j].kind = "decision" /\ log[j].data \in Accepted}}

From(places, i) == {j \in places : i <= j}
Latest(places) == {i \in places : Cardinality(From(places, i)) <= MaxWorks}
WorksAmong(n) == {i \in 1..n : log[i].kind = "work"}
ShownWorks(n) == {log[i].data : i \in Latest(WorksAmong(n))}

(* _latest_policy among the first n: what was cut has no policy any more.    *)
LatestPolicy(n) ==
    LET policies == {i \in 1..n : log[i].kind = "policy" /\ log[i].data # "truncated"}
    IN  IF policies = {} THEN "none" ELSE log[LastOf(policies)].data

(* _compute_handoff_status: newer records of the kinds it looks at.          *)
Current(at) == \A i \in (at + 1)..Len(log) : log[i].kind \notin {"decision", "work"}

Generating == {"snapshot", "list", "stamp", "status", "store"}

-----------------------------------------------------------------------------
(* Recording.                                                                *)

(* append_record: a record with the same content is the one there is.        *)
AppendRecord(entry) ==
    log' = IF entry \in ToSet(log) THEN log ELSE Append(log, entry)

(* _validate_reference                                                       *)
Referable(data) ==
    data \in Decisions => \A d \in Supersedes[data] : Entry(d) \in ToSet(log)

(* create_record.  (_creates_cycle compares the ids of decisions with those  *)
(* of records and finds nothing.)                                            *)
Record(data) ==
    /\ Len(asked) < MaxRecords
    /\ Referable(data)
    /\ AppendRecord(Entry(data))
    /\ asked' = Append(asked, data)
    /\ UNCHANGED <<handoff, pc, mine, begun, due, overlapped>>

-----------------------------------------------------------------------------
(* create_snapshot: it lists the records under the lock and appends the      *)
(* snapshot later; generated_at makes each snapshot a record of its own.     *)

BeginSnapshot(t) ==
    /\ pc[t] = "idle" /\ begun < MaxCalls
    /\ begun' = begun + 1
    /\ Go(t, "append", [Nothing EXCEPT !.upto = Len(log)])
    /\ UNCHANGED <<log, handoff, asked, due, overlapped>>

EndSnapshot(t) ==
    /\ pc[t] = "append"
    /\ log' = Append(log, Snapshot(mine[t].upto))
    /\ Go(t, "idle", Nothing)
    /\ UNCHANGED <<handoff, history_vars>>

-----------------------------------------------------------------------------
(* generate_handoff.                                                         *)

Begin(t) ==
    /\ pc[t] = "idle" /\ begun < MaxCalls
    /\ begun' = begun + 1
    /\ Go(t, "list", [Nothing EXCEPT !.snapshot = LatestSnapshot, !.due = asked])
    /\ overlapped' = (overlapped \/ \E u \in Threads : pc[u] \in Generating)
    /\ UNCHANGED <<log, handoff, asked, due>>

(* Mutant of List: the records of the snapshot are taken, where there is one. *)
ListSnapshot(t) ==
    /\ pc[t] = "list"
    /\ LET s == mine[t].snapshot
       IN  Go(t, IF s = 0 THEN "snapshot" ELSE "stamp",
              [mine[t] EXCEPT !.upto = IF s = 0 THEN Len(log) ELSE log[s].upto])
    /\ UNCHANGED <<log, handoff, history_vars>>

(* The records are listed, after the snapshot was looked for.                *)
List(t) ==
    /\ pc[t] = "list"
    /\ Go(t, IF mine[t].snapshot = 0 THEN "snapshot" ELSE "stamp",
          [mine[t] EXCEPT !.upto = Len(log)])
    /\ UNCHANGED <<log, handoff, history_vars>>

(* Where there was none a snapshot is made, from another look at the store.  *)
MakeSnapshot(t) ==
    /\ pc[t] = "snapshot"
    /\ log' = Append(log, Snapshot(Len(log)))
    /\ Go(t, "stamp", [mine[t] EXCEPT !.snapshot = Len(log) + 1])
    /\ UNCHANGED <<handoff, history_vars>>

(* generated_at                                                              *)
Stamp(t) ==
    /\ pc[t] = "stamp"
    /\ Go(t, "status", [mine[t] EXCEPT !.at = Len(log)])
    /\ UNCHANGED <<log, handoff, history_vars>>

Status(t) ==
    /\ pc[t] = "status"
    /\ Go(t, "store", [mine[t] EXCEPT !.current = Current(mine[t].at)])
    /\ UNCHANGED <<log, handoff, history_vars>>

Bundle(m) ==
    [kind |-> "handoff", upto |-> m.upto, snapshot |-> m.snapshot, at |-> m.at,
     current |-> m.current]

(* export_handoff: the latest to get here is the one that is kept.           *)
Store(t) ==
    /\ pc[t] = "store"
    /\ handoff' = Bundle(mine[t])
    /\ due' = IF Len(mine[t].due) > Len(due) THEN mine[t].due ELSE due
    /\ Go(t, "idle", Nothing)
    /\ UNCHANGED <<log, begun, asked, overlapped>>

-----------------------------------------------------------------------------
Init ==
    /\ log = <<>> /\ handoff = None
    /\ pc = [t \in Threads |-> "idle"]
    /\ mine = [t \in Threads |-> Nothing]
    /\ begun = 0 /\ asked = <<>> /\ due = <<>> /\ overlapped = FALSE

Step(t) ==
    \/ BeginSnapshot(t) \/ EndSnapshot(t)
    \/ Begin(t)
    \/ List(t) \/ MakeSnapshot(t) \/ Stamp(t) \/ Status(t) \/ Store(t)

Next ==
    \/ \E data \in Recordable : Record(data)
    \/ \E t \in Threads : Step(t)

Spec == Init /\ [][Next]_vars

-----------------------------------------------------------------------------
(* A work that is not shown was recorded, for the first time, before each of *)
(* those that are.                                                           *)
Outnumbered(i) ==
    LET shown == ShownWorks(handoff.upto)
    IN  /\ Cardinality(shown) >= MaxWorks
        /\ \E first \in 1..i :
              /\ Entry(due[first]) = Entry(due[i])
              /\ \A j \in 1..first : due[j] \in Works => Stored(due[j]) \notin shown

(* The decisions accepted before a handoff was asked for are in the handoff  *)
(* the store has once that one was made, so are the works, but for those     *)
(* that have as many newer ones as a handoff shows, and its policy is the    *)
(* latest recorded.  The exceptions: a decision that was cut, whatever its   *)
(* status was; an older handoff that was in the making at the same time and  *)
(* is stored last; and a policy that is back in force: then the record of    *)
(* the first time is found, none is added, and the one between stays.        *)
HandedOver ==
    LET policies == {i \in DOMAIN due : due[i] \in Policies \ Oversized}
        back == \E i, j \in policies : i < j /\ due[i] = due[j]
        since == {asked[i] : i \in (Len(due) + 1)..Len(asked)}
    IN  ~overlapped =>
            /\ \A i \in DOMAIN due :
                  /\ due[i] \in Accepted \ Oversized =>
                        due[i] \in ShownDecisions(handoff.upto)
                  /\ due[i] \in Works =>
                        Stored(due[i]) \in ShownWorks(handoff.upto) \/ Outnumbered(i)
            /\ policies # {} /\ ~back =>
                  LatestPolicy(handoff.upto) \in {due[LastOf(policies)]} \cup since

-----------------------------------------------------------------------------
(* Why HandedOver holds: the inductive invariant.                            *)

Entries ==
    [kind : {"decision", "work", "policy", "snapshot"},
     data : Recordable \cup {"truncated", "snapshot"}, upto : Nat]

MemoryShape ==
    /\ log \in Seq(Entries) /\ asked \in Seq(Recordable)
    /\ pc \in [Threads -> {"idle", "append"} \cup Generating]
    /\ mine \in [Threads -> [snapshot : Nat, upto : Nat, at : Nat, current : BOOLEAN,
                             due : Seq(Recordable)]]
    /\ due \in Seq(Recordable) /\ handoff.upto \in Nat

(* The log has what was recorded, each at the place of its first time.       *)
Logged == \A i \in DOMAIN asked : \E k \in DOMAIN log : log[k] = Entry(asked[i])

Sourced ==
    \A k \in DOMAIN log :
        log[k].kind # "snapshot" => \E i \in DOMAIN asked : log[k] = Entry(asked[i])

InOrder ==
    \A j, k \in DOMAIN log : \A i \in DOMAIN asked :
        /\ j < k /\ log[j].kind # "snapshot" /\ log[k] = Entry(asked[i])
        => \E h \in DOMAIN asked : h < i /\ log[j] = Entry(asked[h])

(* What was recorded when a handoff began was recorded first.                *)
Began(earlier) == Len(earlier) <= Len(asked) /\ \A i \in DOMAIN earlier : earlier[i] = asked[i]

(* The records up to a place have all of them.                               *)
HoldsUpto(earlier, n) ==
    /\ n <= Len(log)
    /\ \A i \in DOMAIN earlier : \E k \in 1..n : log[k] = Entry(earlier[i])

(* Threads that make handoffs one after the other make them of more and more. *)
OneAfterTheOther ==
    \A t \in Threads :
        pc[t] \in Generating =>
            /\ Len(due) <= Len(mine[t].due)
            /\ \A u \in Threads : pc[u] \in Generating => u = t

MemoryInv ==
    /\ MemoryShape
    /\ Logged /\ Sourced /\ InOrder
    /\ Began(due)
    /\ \A t \in Threads :
          /\ Began(mine[t].due)
          /\ pc[t] \in Generating \ {"list"} => HoldsUpto(mine[t].due, mine[t].upto)
    /\ ~overlapped => OneAfterTheOther /\ HoldsUpto(due, handoff.upto)
=============================================================================
