-------------------------- MODULE ExecutionRecords -------------------------
(***************************************************************************)
(* The files an execution leaves behind, and who reads them meanwhile: the *)
(* checkpoints of agent/runtime/checkpoint_store.py and the reports that   *)
(* agent/runtime/production_execution_reporter.py has written by           *)
(* agent/execution/execution_report_writer.py and finds again with a walk  *)
(* through their directory.  Worker processes may be killed, and a write   *)
(* may fail, at any point; readers take no lock.                           *)
(*                                                                         *)
(* Both stores write a temporary file beside the target and rename it.     *)
(* Those of the checkpoints end in .tmp and no reader sees them; those of  *)
(* the reports end in .json like the reports.                              *)
(***************************************************************************)
EXTENDS Integers

CONSTANTS
    Workers, Readers,
    Attempts,      (* execution ids of checkpoints: a mission and an attempt  *)
    MissionOf,     (* the mission of each attempt                             *)
    Queries,       (* sets of missions reports are asked for                  *)
    LastSequence,  (* of an execution's checkpoints: 3 in the worker          *)
    MaxRuns,       (* bound: executions in all                                *)
    MaxSecond,     (* bound: the clock, in seconds, starts at 1               *)
    MaxFailures    (* bound: writes that fail and workers that die            *)

Missions == {MissionOf[a] : a \in Attempts}

VARIABLES
    pc, attempt,   (* of each worker: where it is, and its execution id       *)
    run,           (* of each worker: which of all executions it is in        *)
    sequence,      (* of each worker: the checkpoint it saves                 *)
    stamp,         (* of each worker: completed_at of its report              *)
    records,       (* of each attempt: the sequences of its checkpoints       *)
    files,         (* the directory of the reports: [report, run, whole], run
                      being 0 for a report and not for a temporary file       *)
    doing,         (* of each reader: the call it is in                       *)
    told,          (* history: the newest report of each mission a call
                      answered with                                           *)
    withdrawn,     (* history: a temporary file was removed for its rename
                      failed: what was told of it is no longer so             *)
    runs, second, failures

worker_vars == <<pc, attempt, run, sequence, stamp>>
disk_vars == <<records, files>>
reader_vars == <<doing, told, withdrawn>>
bound_vars == <<runs, second, failures>>
vars == <<worker_vars, disk_vars, reader_vars, bound_vars>>

Idle == [call |-> "none", listing |-> {}, found |-> {}, floor |-> 0, slipped |-> FALSE]

Name(f) == <<f.report, f.run>>

Seconds(P) == {p.second : p \in P}

Newest(S) == IF S = {} THEN 0 ELSE CHOOSE x \in S : \A y \in S : y <= x

Go(w, place) == pc' = [pc EXCEPT ![w] = place]

Fail == failures < MaxFailures /\ failures' = failures + 1

Final(p) == [report |-> p, run |-> 0, whole |-> TRUE]

-----------------------------------------------------------------------------
(* Workers.                                                                  *)

(* An attempt that a recovery returned to the queue is executed again, under *)
(* the same id, perhaps while its first execution goes on.                   *)
Begin(w, a) ==
    /\ pc[w] = "idle"
    /\ runs < MaxRuns
    /\ runs' = runs + 1
    /\ run' = [run EXCEPT ![w] = runs + 1]
    /\ attempt' = [attempt EXCEPT ![w] = a]
    /\ sequence' = [sequence EXCEPT ![w] = 0]
    /\ Go(w, "saving")
    /\ UNCHANGED <<stamp, disk_vars, reader_vars, second, failures>>

(* What a worker does after a checkpoint, saved or not: only a success has a *)
(* report.                                                                   *)
Onward(w) ==
    IF sequence[w] < LastSequence
    THEN sequence' = [sequence EXCEPT ![w] = @ + 1] /\ Go(w, "saving")
    ELSE UNCHANGED sequence /\ (Go(w, "completed") \/ Go(w, "idle"))

(* save() up to the rename.  _save_checkpoint swallows a failure.            *)
OpenCheckpoint(w) ==
    /\ pc[w] = "saving"
    /\ \/ Go(w, "replacing") /\ UNCHANGED <<sequence, failures>>
       \/ Fail /\ Onward(w)
    /\ UNCHANGED <<attempt, run, stamp, disk_vars, reader_vars, runs, second>>

(* os.replace: whatever was saved under this attempt and sequence is gone.   *)
ReplaceCheckpoint(w) ==
    /\ pc[w] = "replacing"
    /\ \/ /\ records' = [records EXCEPT ![attempt[w]] = @ \cup {sequence[w]}]
          /\ UNCHANGED failures
       \/ Fail /\ UNCHANGED records
    /\ Onward(w)
    /\ UNCHANGED <<attempt, run, stamp, files, reader_vars, runs, second>>

(* persist_result: the execution id and completed_at are the time it is.     *)
Stamp(w) ==
    /\ pc[w] = "completed"
    /\ stamp' = [stamp EXCEPT ![w] = second]
    /\ Go(w, "stamped")
    /\ UNCHANGED <<attempt, run, sequence, disk_vars, reader_vars, bound_vars>>

ReportOf(w) == [mission |-> MissionOf[attempt[w]], second |-> stamp[w]]

Temp(w, whole) == [report |-> ReportOf(w), run |-> run[w], whole |-> whole]

InLock == {"creating", "writing", "moving"}

(* store_report, in the lock of the reports: one that is there under this id *)
(* stays, and is the answer.                                                 *)
Look(w) ==
    /\ pc[w] = "stamped"
    /\ \A v \in Workers : pc[v] \notin InLock
    /\ Go(w, IF Final(ReportOf(w)) \in files THEN "idle" ELSE "creating")
    /\ UNCHANGED <<attempt, run, sequence, stamp, disk_vars, reader_vars, bound_vars>>

Create(w) ==
    /\ pc[w] = "creating"
    /\ files' = files \cup {Temp(w, FALSE)}
    /\ Go(w, "writing")
    /\ UNCHANGED <<attempt, run, sequence, stamp, records, reader_vars, bound_vars>>

(* A write that fails leaves the temporary file behind.                      *)
Write(w) ==
    /\ pc[w] = "writing"
    /\ \/ /\ files' = (files \ {Temp(w, FALSE)}) \cup {Temp(w, TRUE)}
          /\ Go(w, "moving")
          /\ UNCHANGED failures
       \/ Fail /\ Go(w, "idle") /\ UNCHANGED files
    /\ UNCHANGED <<attempt, run, sequence, stamp, records, reader_vars, runs, second>>

(* The rename, and who loses a file of its listing; a rename that fails      *)
(* removes the temporary file too.                                           *)
Move(w) ==
    /\ pc[w] = "moving"
    /\ \/ /\ files' = (files \ {Temp(w, TRUE)}) \cup {Final(ReportOf(w))}
          /\ UNCHANGED <<withdrawn, failures>>
       \/ Fail /\ files' = files \ {Temp(w, TRUE)} /\ withdrawn' = TRUE
    /\ doing' = [r \in Readers |->
                    IF Name(Temp(w, TRUE)) \in doing[r].listing
                    THEN [doing[r] EXCEPT !.slipped = TRUE] ELSE doing[r]]
    /\ Go(w, "idle")
    /\ UNCHANGED <<attempt, run, sequence, stamp, records, told, runs, second>>

(* The process is killed: its lock goes with it, its temporary file stays.   *)
Die(w) ==
    /\ pc[w] # "idle"
    /\ Fail
    /\ Go(w, "idle")
    /\ UNCHANGED <<attempt, run, sequence, stamp, disk_vars, reader_vars, runs, second>>

Tick ==
    /\ second < MaxSecond
    /\ second' = second + 1
    /\ UNCHANGED <<worker_vars, disk_vars, reader_vars, runs, failures>>

-----------------------------------------------------------------------------
(* Readers.                                                                  *)

(* find_by_mission_id, find_by_request_id and list_reports: glob("*.json")   *)
(* takes temporary files for reports.                                        *)
ListReports(r, Q) ==
    LET asked == {f \in files : f.report.mission \in Q}
        known == {f.report.second : f \in {g \in asked : g.run = 0}} \cup {told[m] : m \in Q}
    IN  /\ doing[r] = Idle
        /\ doing' = [doing EXCEPT ![r] =
              [Idle EXCEPT !.call = "reports", !.listing = {Name(f) : f \in asked},
                           !.floor = Newest(known)]]
        /\ UNCHANGED <<worker_vars, disk_vars, told, withdrawn, bound_vars>>

(* A file that is gone, or is no JSON, is skipped.                           *)
ReadReport(r) ==
    /\ \E n \in doing[r].listing :
          doing' = [doing EXCEPT
             ![r].listing = @ \ {n},
             ![r].found = @ \cup {f.report : f \in {g \in files : g.whole /\ Name(g) = n}}]
    /\ UNCHANGED <<worker_vars, disk_vars, told, withdrawn, bound_vars>>

(* Mutant of Answer: sorted the other way round.                             *)
AnswerOldest(found) ==
    IF found = {} THEN 0 ELSE CHOOSE x \in Seconds(found) : \A y \in Seconds(found) : x <= y

(* Sorted by completed_at, reverse: the newest comes first.                  *)
Answer(found) == Newest(Seconds(found))

ReturnReports(r) ==
    /\ doing[r].call = "reports"
    /\ doing[r].listing = {}
    /\ told' = [m \in Missions |->
                   Newest({told[m]} \cup Seconds({p \in doing[r].found : p.mission = m}))]
    /\ doing' = [doing EXCEPT ![r] = Idle]
    /\ UNCHANGED <<worker_vars, disk_vars, withdrawn, bound_vars>>

(* latest(): the record of the highest sequence there is; -1 for none.       *)
Latest(a) ==
    IF records[a] = {} THEN -1
    ELSE CHOOSE n \in records[a] : \A k \in records[a] : k <= n

-----------------------------------------------------------------------------
Init ==
    /\ pc = [w \in Workers |-> "idle"]
    /\ attempt = [w \in Workers |-> "none"]
    /\ run = [w \in Workers |-> 0]
    /\ sequence = [w \in Workers |-> 0]
    /\ stamp = [w \in Workers |-> 0]
    /\ records = [a \in Attempts |-> {}]
    /\ files = {}
    /\ doing = [r \in Readers |-> Idle]
    /\ told = [m \in Missions |-> 0]
    /\ withdrawn = FALSE
    /\ runs = 0
    /\ second = 1
    /\ failures = 0

Step(w) ==
    \/ \E a \in Attempts : Begin(w, a)
    \/ OpenCheckpoint(w) \/ ReplaceCheckpoint(w)
    \/ Stamp(w) \/ Look(w) \/ Create(w) \/ Write(w) \/ Move(w)
    \/ Die(w)

Read(r) ==
    \/ \E Q \in Queries : ListReports(r, Q)
    \/ ReadReport(r)
    \/ ReturnReports(r)

Next ==
    \/ Tick
    \/ \E w \in Workers : Step(w)
    \/ \E r \in Readers : Read(r)

Spec == Init /\ [][Next]_vars

-----------------------------------------------------------------------------
(* The inductive invariant of AnswersAreRecent.  Nothing is dated in the     *)
(* future; what was found or told is in a whole file, of either name, until  *)
(* one is withdrawn; what a call is to find was found, or is in its listing; *)
(* and until something fails every checkpoint before the present is saved.   *)
Reports == [mission : Missions, second : Nat]

RecordsTypeOK ==
    /\ pc \in [Workers -> {"idle", "saving", "replacing", "completed", "stamped"} \cup InLock]
    /\ attempt \in [Workers -> Attempts \cup {"none"}]
    /\ \A w \in Workers : pc[w] # "idle" => attempt[w] \in Attempts
    /\ run \in [Workers -> Nat]
    /\ \A w \in Workers : pc[w] # "idle" => run[w] # 0
    /\ sequence \in [Workers -> 0..LastSequence]
    /\ stamp \in [Workers -> Nat]
    /\ records \in [Attempts -> SUBSET (0..LastSequence)]
    /\ files \subseteq [report : Reports, run : Nat, whole : BOOLEAN]
    /\ \A f \in files : f.run = 0 => f.whole
    /\ doing \in [Readers -> [call : {"none", "reports"}, listing : SUBSET (Reports \X Nat),
                              found : SUBSET Reports, floor : Nat, slipped : BOOLEAN]]
    /\ told \in [Missions -> Nat]
    /\ runs \in Nat /\ second \in Nat /\ failures \in Nat

NoneLater ==
    /\ \A w \in Workers : stamp[w] <= second
    /\ \A f \in files : f.report.second <= second
    /\ \A m \in Missions : told[m] <= second
    /\ \A r \in Readers : \A p \in doing[r].found : p.second <= second

OnDisk(p) == \E f \in files : f.whole /\ f.report = p

FoundOnDisk ==
    /\ \A r \in Readers : \A p \in doing[r].found : OnDisk(p)
    /\ \A m \in Missions : told[m] # 0 => OnDisk([mission |-> m, second |-> told[m]])

FoundInTime(r) ==
    \/ doing[r].slipped
    \/ doing[r].floor = 0
    \/ \E p \in doing[r].found : p.second >= doing[r].floor
    \/ \E f \in files : /\ f.whole /\ f.report.second >= doing[r].floor
                       /\ Name(f) \in doing[r].listing

CheckpointsKept ==
    failures = 0 =>
        \A w \in Workers : pc[w] \in {"saving", "replacing"} /\ sequence[w] # 0 =>
                              sequence[w] - 1 \in records[attempt[w]]

RecordsInv ==
    /\ RecordsTypeOK /\ NoneLater /\ CheckpointsKept
    /\ ~withdrawn =>
          /\ FoundOnDisk
          /\ \A r \in Readers : doing[r].call = "reports" => FoundInTime(r)

(* What a reader is about to be told is as new as every report that was in   *)
(* place, and every answer that had been given, when it began: although it   *)
(* takes no lock, reads temporary files, and workers die between a write and *)
(* a rename.  Not so when a temporary file it was about to read was renamed  *)
(* under it, or one that had been read was withdrawn.  And no execution is   *)
(* ahead of the latest checkpoint of its attempt, but for a save that        *)
(* failed; it may well be behind it, when an earlier execution of the same   *)
(* attempt, before a recovery, had come farther.                             *)
AnswersAreRecent ==
    /\ \A r \in Readers :
          doing[r].call = "reports" /\ doing[r].listing = {} =>
             doing[r].slipped \/ withdrawn \/ Answer(doing[r].found) >= doing[r].floor
    /\ \A w \in Workers :
          failures = 0 /\ pc[w] \in {"saving", "replacing"} =>
             Latest(attempt[w]) >= sequence[w] - 1
=============================================================================
