----------------------------- MODULE PatchEngine ----------------------------
(***************************************************************************)
(* The patch engine: agent/git/patch_engine.py.  A patch is a sequence of  *)
(* changes to files.  All are tried on what the files contain, then they   *)
(* are written one by one, with a copy of each file kept beside it; when   *)
(* one cannot be written, the files are put back.  Others may write to the *)
(* files meanwhile.  A file is the set of its lines, or of runs of lines   *)
(* that are changed together.  "latin" is what is not ASCII in a file that *)
(* is not UTF-8, "recoded" the same read as latin-1 and written as UTF-8.  *)
(***************************************************************************)
EXTENDS Naturals, Sequences

CONSTANTS
    Paths,        (* files of the repository                                  *)
    Patches,      (* sequences of changes: the two paths, and the lines of the
                     hunks that are context, removed and added               *)
    MaxFailures   (* bound on copies and writes the disk refuses              *)

VARIABLES
    files,        (* what each contains                                       *)
    phase,
    patch, dry,   (* of the call                                              *)
    i,            (* the change it is at                                      *)
    previews, backups, applied,
    failures,
    before,       (* history: files when the call began                       *)
    edited,       (* history: files somebody else wrote to during the call    *)
    unrestored    (* history: files whose copy could not be put back          *)

call_vars == <<patch, dry, i, previews, backups, applied>>
history_vars == <<before, edited, unrestored>>
vars == <<files, phase, call_vars, failures, history_vars>>

DevNull == "/dev/null"
Absent == {"absent"}     (* there is no such file; {} is an empty one          *)
Base == {"base", "rest"}
Foreign == {"latin", "recoded"}

None == [p \in {} |-> Base]

Init ==
    /\ files \in [Paths -> {Base, Base \cup {"latin"}, Absent}]
    /\ phase = "idle"
    /\ patch = <<>> /\ dry = FALSE /\ i = 0
    /\ previews = None /\ backups = None /\ applied = {}
    /\ failures = 0
    /\ before = files /\ edited = {} /\ unrestored = {}

IsNewFile(c) == c.old = DevNull

(* A file that is renamed is changed under its old name.                     *)
Target(c) == IF c.old # DevNull THEN c.old ELSE c.new

(* Within the repository: neither absolute nor through its parent.           *)
Safe(c) == {c.old, c.new} \subseteq Paths \cup {DevNull} /\ {c.old, c.new} # {DevNull}

Set(f, p, content) == [q \in DOMAIN f \cup {p} |-> IF q = p THEN content ELSE f[q]]

-----------------------------------------------------------------------------
(* apply: the patch is parsed and its paths are looked at before anything    *)
(* else; a patch that fails there raises and leaves no trace.                *)
Call(text, dry_run) ==
    /\ phase = "idle"
    /\ text # <<>> /\ \A k \in DOMAIN text : Safe(text[k])
    /\ phase' = "preview"
    /\ patch' = text /\ dry' = dry_run /\ i' = 1
    /\ UNCHANGED <<files, previews, backups, applied, failures, history_vars>>

(* _read_file_lines: a file that is not UTF-8 is read as latin-1.            *)
Decoded(content) ==
    IF "latin" \in content THEN (content \ {"latin"}) \cup {"recoded"} ELSE content

(* _apply_hunks_preview: the context and what is removed must be there.  What *)
(* is removed need not be all of a file that is to go, which is then left.    *)
Applies(c, content) == content # Absent /\ c.context \cup c.removes \subseteq Decoded(content)
Changed(c, content) == (Decoded(content) \ c.removes) \cup c.adds

(* _build_new_file_lines: nothing but additions, where there was no file.     *)
Creates(c, content) == content = Absent /\ c.context = {} /\ c.removes = {}

Change == patch[i]

Preview ==
    /\ phase = "preview" /\ i <= Len(patch)
    /\ LET content == files[Target(Change)]
       IN  /\ IF IsNewFile(Change) THEN Creates(Change, content) ELSE Applies(Change, content)
           /\ previews' = Set(previews, Target(Change),
                              IF IsNewFile(Change) THEN Change.adds ELSE Changed(Change, content))
    /\ i' = i + 1
    /\ UNCHANGED <<files, phase, patch, dry, backups, applied, failures, history_vars>>

PreviewFails ==
    /\ phase = "preview" /\ i <= Len(patch)
    /\ LET content == files[Target(Change)]
       IN  IF IsNewFile(Change) THEN ~Creates(Change, content) ELSE ~Applies(Change, content)
    /\ phase' = "rollback"
    /\ UNCHANGED <<files, call_vars, failures, history_vars>>

EndPreview ==
    /\ phase = "preview" /\ i > Len(patch)
    /\ phase' = IF dry THEN "dry" ELSE "write"
    /\ i' = 1
    /\ UNCHANGED <<files, patch, dry, previews, backups, applied, failures, history_vars>>

(* The copy gets a name of its own.  A file that has gone fails the call.    *)
Backup ==
    /\ phase = "write" /\ i <= Len(patch) /\ ~IsNewFile(Change)
    /\ IF files[Target(Change)] = Absent
       THEN phase' = "rollback" /\ UNCHANGED backups
       ELSE phase' = "replace" /\ backups' = Set(backups, Target(Change), files[Target(Change)])
    /\ UNCHANGED <<files, patch, dry, i, previews, applied, failures, history_vars>>

(* _write_atomic: what was previewed, as UTF-8, replaces what is there.      *)
Write ==
    /\ i <= Len(patch)
    /\ phase = "replace" \/ (phase = "write" /\ IsNewFile(Change))
    /\ files' = [files EXCEPT ![Target(Change)] = previews[Target(Change)]]
    /\ applied' = applied \cup {Target(Change)}
    /\ i' = i + 1 /\ phase' = "write"
    /\ UNCHANGED <<patch, dry, previews, backups, failures, history_vars>>

(* The disk refuses the copy or the file.                                    *)
WriteFails ==
    /\ phase \in {"write", "replace"} /\ i <= Len(patch)
    /\ failures < MaxFailures
    /\ failures' = failures + 1
    /\ phase' = "rollback"
    /\ UNCHANGED <<files, call_vars, history_vars>>

EndWrite ==
    /\ phase = "write" /\ i > Len(patch)
    /\ phase' = "applied"
    /\ UNCHANGED <<files, call_vars, failures, history_vars>>

(* Mutant of Rollback: the new files stay.                                   *)
RollbackChanged ==
    /\ phase = "rollback"
    /\ files' = [p \in Paths |-> IF p \in DOMAIN backups THEN backups[p] ELSE files[p]]
    /\ phase' = "failed"
    /\ UNCHANGED <<call_vars, failures, before, edited, unrestored>>

(* The last copy of each file is put back, and new files are removed; what   *)
(* fails of this is passed over.                                             *)
Rollback ==
    /\ phase = "rollback"
    /\ \E lost \in SUBSET (DOMAIN backups \cup applied) :
          /\ lost = {} \/ failures < MaxFailures
          /\ failures' = IF lost = {} THEN failures ELSE failures + 1
          /\ unrestored' = lost
          /\ files' = [p \in Paths |-> IF p \in lost THEN files[p]
                                       ELSE IF p \in DOMAIN backups THEN backups[p]
                                       ELSE IF p \in applied THEN Absent
                                       ELSE files[p]]
    /\ phase' = "failed"
    /\ UNCHANGED <<call_vars, before, edited>>

(* The caller has its answer; the engine keeps nothing of the call.          *)
Return ==
    /\ phase \in {"dry", "applied", "failed"}
    /\ phase' = "idle"
    /\ patch' = <<>> /\ dry' = FALSE /\ i' = 0
    /\ previews' = None /\ backups' = None /\ applied' = {}
    /\ before' = files /\ edited' = {} /\ unrestored' = {}
    /\ UNCHANGED <<files, failures>>

(* Somebody else adds to a file, changes it, or removes it.                  *)
Edit(p) ==
    /\ phase \in {"preview", "write", "replace", "rollback"}
    /\ \E content \in {Absent, (files[p] \ Absent) \cup {"edit"},
                        ((files[p] \ Absent) \ {"rest"}) \cup {"edit"}} :
          content # files[p] /\ files' = [files EXCEPT ![p] = content]
    /\ edited' = edited \cup {p}
    /\ UNCHANGED <<phase, call_vars, failures, before, unrestored>>

Next ==
    \/ \E text \in Patches, dry_run \in BOOLEAN : Call(text, dry_run)
    \/ Preview \/ PreviewFails \/ EndPreview
    \/ Backup \/ Write \/ WriteFails \/ EndWrite \/ Rollback \/ Return
    \/ \E p \in Paths : Edit(p)

Spec == Init /\ [][Next]_vars

-----------------------------------------------------------------------------
Twice == {p \in Paths : \E k, l \in DOMAIN patch : k # l /\ Target(patch[k]) = p /\ Target(patch[l]) = p}

(* What a change asks for: its lines go and come, and the others stay.       *)
Asked(c, content) == ((content \ Absent) \ c.removes) \cup c.adds

(* A patch is applied as a whole or not at all: a call that failed, at any   *)
(* of its files, left every file as it was, and one that succeeded left each *)
(* with its change and the other lines untouched.  Four exceptions: a file   *)
(* the patch names twice, that ends with one of the two changes and is put   *)
(* back with the other one in it; one that somebody else wrote to; one that  *)
(* could not be put back; and, of a file that was not UTF-8, all that is not *)
(* ASCII is rewritten where the patch succeeds.                              *)
WholeOrNothing ==
    LET clean == Paths \ (Twice \cup edited)
    IN  /\ phase = "failed" => \A p \in clean \ unrestored : files[p] = before[p]
        /\ phase = "applied" =>
              \A p \in clean :
                 /\ \A k \in DOMAIN patch : Target(patch[k]) = p =>
                       LET rewritten == IF "latin" \in before[p] THEN Foreign ELSE {}
                       IN  files[p] \ rewritten = Asked(patch[k], before[p]) \ rewritten
                 /\ (\A k \in DOMAIN patch : Target(patch[k]) # p) => files[p] = before[p]
        /\ phase = "dry" => \A p \in Paths \ edited : files[p] = before[p]
-----------------------------------------------------------------------------
(* The inductive invariant of WholeOrNothing.                                *)

Lines == Base \cup Foreign \cup {"edit"}
            \cup UNION {UNION {text[k].adds : k \in DOMAIN text} : text \in Patches}
Contents == {Absent} \cup SUBSET Lines

PatchTypeOK ==
    /\ files \in [Paths -> Contents] /\ before \in [Paths -> Contents]
    /\ phase \in {"idle", "preview", "dry", "write", "replace", "applied", "rollback", "failed"}
    /\ patch \in Patches \cup {<<>>} /\ \A k \in DOMAIN patch : Safe(patch[k])
    /\ i \in Nat
    /\ \A p \in DOMAIN previews : previews[p] \in Contents
    /\ DOMAIN backups \subseteq Paths /\ \A p \in DOMAIN backups : backups[p] \in Contents
    /\ applied \subseteq Paths

Clean == Paths \ (Twice \cup edited)
Result(c, content) == (Decoded(content \ Absent) \ c.removes) \cup c.adds

(* Before anything is written, only others have changed a file.              *)
NothingWritten ==
    phase \in {"idle", "preview", "dry"} =>
        /\ applied = {} /\ DOMAIN backups = {}
        /\ \A p \in Paths \ edited : files[p] = before[p]

(* A file that was previewed will become what its change makes of it.        *)
Previewed ==
    \A k \in DOMAIN patch :
        phase \in {"write", "replace"} \/ (phase = "preview" /\ k < i) =>
            /\ Target(patch[k]) \in DOMAIN previews
            /\ Target(patch[k]) \in Clean =>
                  /\ previews[Target(patch[k])] = Result(patch[k], before[Target(patch[k])])
                  /\ IsNewFile(patch[k]) => before[Target(patch[k])] = Absent

(* The files that were written are those of the changes up to now.           *)
WrittenInOrder ==
    phase \in {"write", "replace", "applied"} =>
        /\ \A k \in DOMAIN patch : k < i => Target(patch[k]) \in applied
        /\ \A p \in Clean \cap applied : \E k \in DOMAIN patch :
              k < i /\ Target(patch[k]) = p /\ files[p] = Result(patch[k], before[p])

(* What was written can be taken back, and nothing else has to be.           *)
Reversible ==
    /\ phase # "failed" => \A p \in Clean \ applied : files[p] = before[p]
    /\ \A p \in Clean \cap DOMAIN backups : backups[p] = before[p]
    /\ \A p \in (Clean \cap applied) \ DOMAIN backups : before[p] = Absent

Recoverable ==
    /\ PatchTypeOK /\ NothingWritten /\ Previewed /\ WrittenInOrder /\ Reversible
    /\ phase = "replace" => /\ i \in DOMAIN patch /\ ~IsNewFile(patch[i])
                            /\ Target(patch[i]) \in DOMAIN backups
    /\ phase \in {"preview", "write"} => i > 0
    /\ phase = "applied" => i > Len(patch)
    /\ phase = "failed" => \A p \in Clean \ unrestored : files[p] = before[p]
=============================================================================
