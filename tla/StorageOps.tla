----------------------------- MODULE StorageOps -----------------------------
(***************************************************************************)
(* The storage commands (scripts/manage.py and the steps that              *)
(* commands/storage-*.md and migrate-to-central.md prescribe) while hooks  *)
(* go on capturing: exporting a project and deleting it afterwards,        *)
(* deleting it outright, and importing its mirror or its export into the   *)
(* central database.                                                       *)
(*                                                                         *)
(* A capture is one step here: Capture is shown to implement the atomic    *)
(* ledger.  A row is a slice of a transcript, every line of it usage, and  *)
(* two captures of the same slice make identical rows (as the contract     *)
(* says; on another branch they would differ, and an import keep both).    *)
(***************************************************************************)
EXTENDS Integers, FiniteSets, FiniteSetsExt

CONSTANTS
    File,           \* the transcripts
    Project, ProjectOf,     \* and the project each belongs to
    Hook,           \* hook processes that mirror what they have captured
    MaxLines,       \* bound: lines per transcript
    MaxDeletes,     \* bound: deletions
    MaxImports      \* bound: imports

ASSUME StorageAssumption ==
    /\ IsFiniteSet(File) /\ ProjectOf \in [File -> Project]
    /\ MaxLines \in Nat /\ MaxDeletes \in Nat /\ MaxImports \in Nat

VARIABLES
    len,            \* lines of each transcript
    cursor,         \* central database: the read cursors (0: none), ...
    rows,           \* ... and how many copies of each row it holds
    mirror,         \* the copies in the project-local databases
    export,         \* the latest export file: its project and its rows
    hand,           \* the row a hook has committed and not yet mirrored
    cmd,            \* the storage command under way: its stage and project
    raced,          \* history: a capture since the export was validated?
    imported,       \* history: the projects that were ever imported
    deletes, imports

store == <<cursor, rows>>
history == <<raced, imported, deletes, imports>>
vars == <<len, store, mirror, export, hand, cmd, history>>

Slice == {s \in [file : File, lo : 0 .. MaxLines, hi : 0 .. MaxLines] : s.lo < s.hi}
NoSlice == [lo |-> 0, hi |-> 0]
Rows == [Slice -> Nat]
Empty == [s \in Slice |-> 0]

Of(p) == {s \in Slice : ProjectOf[s.file] = p}
Only(r, p) == [s \in Slice |-> IF s \in Of(p) THEN r[s] ELSE 0]
Without(r, p) == [s \in Slice |-> IF s \in Of(p) THEN 0 ELSE r[s]]
Has(r, p) == \E s \in Of(p) : r[s] > 0
Count(r, p) == MapThenSumSet(LAMBDA s : r[s], Of(p))

Idle == [stage |-> "idle"]
Cmd == [stage : {"exported", "validated", "confirmed"}, project : Project]
At(stage, p) == cmd = [stage |-> stage, project |-> p]

TypeOK ==
    /\ len \in [File -> 0 .. MaxLines]
    /\ cursor \in [File -> 0 .. MaxLines]
    /\ rows \in Rows /\ mirror \in Rows
    /\ export \in Rows
    /\ hand \in [Hook -> Slice \cup {NoSlice}]
    /\ cmd \in Cmd \cup {Idle}
    /\ raced \in BOOLEAN /\ imported \in SUBSET Project
    /\ deletes \in Nat /\ imports \in Nat

Init ==
    /\ len = [f \in File |-> 0]
    /\ cursor = [f \in File |-> 0]
    /\ rows = Empty /\ mirror = Empty /\ export = Empty
    /\ hand = [h \in Hook |-> NoSlice]
    /\ cmd = Idle
    /\ raced = FALSE /\ imported = {}
    /\ deletes = 0 /\ imports = 0

-----------------------------------------------------------------------------
(* Sessions and hooks *)

WriteLine(f) ==
    /\ len[f] < MaxLines
    /\ len' = [len EXCEPT ![f] = @ + 1]
    /\ UNCHANGED <<store, mirror, export, hand, cmd, history>>

\* A hook commits what is new: row and cursor in one transaction, from offset
\* 0 if the transcript has no cursor.
CaptureSlice(h, f) ==
    /\ hand[h] = NoSlice
    /\ cursor[f] < len[f]
    /\ LET s == [file |-> f, lo |-> cursor[f], hi |-> len[f]]
       IN  /\ rows' = [rows EXCEPT ![s] = @ + 1]
           /\ hand' = [hand EXCEPT ![h] = s]
    /\ cursor' = [cursor EXCEPT ![f] = len[f]]
    /\ raced' = (raced \/ At("validated", ProjectOf[f]))
    /\ UNCHANGED <<len, mirror, export, cmd, imported, deletes, imports>>

\* mirror_events: after the commit, without a cursor of its own.
MirrorWrite(h) ==
    /\ hand[h] # NoSlice
    /\ mirror' = [mirror EXCEPT ![hand[h]] = @ + 1]
    /\ hand' = [hand EXCEPT ![h] = NoSlice]
    /\ UNCHANGED <<len, store, export, cmd, history>>

\* Central mode, a mirror that cannot be written, or a hook killed in between.
NotMirrored(h) ==
    /\ hand[h] # NoSlice
    /\ hand' = [hand EXCEPT ![h] = NoSlice]
    /\ UNCHANGED <<len, store, mirror, export, cmd, history>>

-----------------------------------------------------------------------------
(* storage-separate: export, compare the counts, only then offer deletion *)

Goto(stage, p) == cmd' = [stage |-> stage, project |-> p]

\* One transaction that copies out of one snapshot of the central database.
Export(p) ==
    /\ cmd = Idle /\ Has(rows, p)
    /\ export' = Only(rows, p)
    /\ Goto("exported", p)
    /\ UNCHANGED <<len, store, mirror, hand, history>>

\* It rolls back: a file without rows is left, and the command stops.
ExportFails(p) ==
    /\ cmd = Idle /\ Has(rows, p)
    /\ export' = Empty
    /\ UNCHANGED <<len, store, mirror, hand, cmd, history>>

\* Mutant of Counted: the counts are shown but not compared.
CountedAlways(p) == TRUE

Counted(p) == Count(export, p) = Count(rows, p)

Validate(p) ==
    /\ At("exported", p)
    /\ IF Counted(p) THEN Goto("validated", p) /\ raced' = FALSE
                     ELSE cmd' = Idle /\ UNCHANGED raced
    /\ UNCHANGED <<len, store, mirror, export, hand, imported, deletes, imports>>

\* storage-delete: counts shown, basename typed.
Confirm(p) ==
    /\ cmd = Idle /\ Has(rows, p)
    /\ Goto("confirmed", p)
    /\ UNCHANGED <<len, store, mirror, export, hand, history>>

\* The user declines, or the command is interrupted.
Stop ==
    /\ cmd # Idle
    /\ cmd' = Idle
    /\ UNCHANGED <<len, store, mirror, export, hand, history>>

\* Mutant of Forget: the cursors of the project survive.
ForgetRows(p) == rows' = Without(rows, p) /\ UNCHANGED cursor

\* Mutant of Forget: only the cursors go.
ForgetCursors(p) ==
    /\ cursor' = [f \in File |-> IF ProjectOf[f] = p THEN 0 ELSE cursor[f]]
    /\ UNCHANGED rows

\* delete: events, cursors, sessions and project in one transaction.
Forget(p) ==
    /\ rows' = Without(rows, p)
    /\ cursor' = [f \in File |-> IF ProjectOf[f] = p THEN 0 ELSE cursor[f]]

Delete(p) ==
    /\ At("validated", p) \/ At("confirmed", p)
    /\ deletes < MaxDeletes
    /\ Forget(p)
    /\ cmd' = Idle
    /\ deletes' = deletes + 1
    /\ UNCHANGED <<len, mirror, export, hand, raced, imported, imports>>

-----------------------------------------------------------------------------
(* migrate-to-central *)

\* Every row of the source that the central database does not have; a row the
\* source holds twice is compared with what was there before and comes twice.
\* Cursors are not imported.
Merge(source, p) ==
    [s \in Slice |-> IF s \in Of(p) /\ rows[s] = 0 THEN source[s] ELSE rows[s]]

Import(source, p) ==
    /\ cmd = Idle /\ Has(source, p)
    /\ imports < MaxImports
    /\ rows' = Merge(source, p)
    /\ imported' = imported \cup {p}
    /\ imports' = imports + 1
    /\ UNCHANGED <<len, cursor, mirror, export, hand, cmd, raced, deletes>>

-----------------------------------------------------------------------------
Command(p) ==
    \/ Export(p) \/ ExportFails(p) \/ Validate(p) \/ Confirm(p) \/ Delete(p)
    \/ Import(mirror, p) \/ Import(export, p)

HookStep(h) == (\E f \in File : CaptureSlice(h, f)) \/ MirrorWrite(h) \/ NotMirrored(h)

Next ==
    \/ \E f \in File : WriteLine(f)
    \/ \E h \in Hook : HookStep(h)
    \/ \E p \in Project : Command(p)
    \/ Stop

Spec == Init /\ [][Next]_vars

(***************************************************************************)
(* Fairness: the sessions' hooks go on firing, on every transcript, and a  *)
(* hook finishes with the mirror one way or the other.  Nothing is assumed *)
(* of the user.                                                            *)
(***************************************************************************)
Fairness ==
    /\ \A f \in File : SF_vars(\E h \in Hook : CaptureSlice(h, f))
    /\ \A h \in Hook : WF_vars(MirrorWrite(h) \/ NotMirrored(h))

FairSpec == Spec /\ Fairness

-----------------------------------------------------------------------------
(***************************************************************************)
(* Properties.                                                             *)
(***************************************************************************)
Covers(s, f, i) == s.file = f /\ s.lo < i /\ i <= s.hi

Overlap(s, t) == s.file = t.file /\ s.lo < t.hi /\ t.lo < s.hi

\* Nothing is skipped: a line behind a read cursor, which no capture reads
\* again, is in the central database, whatever was deleted, exported or
\* imported meanwhile (manage.py delete, import_project).
CursorCovered ==
    \A f \in File : \A i \in 1 .. cursor[f] : \E s \in Slice : rows[s] > 0 /\ Covers(s, f, i)

\* Usage of a project that never had an import is counted once: its rows lie
\* behind the cursors and do not overlap, through any number of deletions
\* (manage.py delete: rows and cursors go together).
CountedOnce(p) ==
    /\ \A s \in Of(p) : rows[s] > 0 => rows[s] = 1 /\ s.hi <= cursor[s.file]
    /\ \A s, t \in Of(p) : rows[s] > 0 /\ rows[t] > 0 /\ Overlap(s, t) => s = t

CountedOnceUnlessImported == \A p \in Project \ imported : CountedOnce(p)

\* Equal counts mean an equal file: as long as no capture comes after the
\* check, deletion takes no row that the export lacks (storage-separate,
\* "Validate before anything is deleted").
ValidatedIsWhole ==
    \A p \in Project : At("validated", p) /\ ~raced => \A s \in Of(p) : rows[s] = export[s]

\* The telemetry of a session that goes on is complete again and again,
\* also when its project was deleted ("re-read from offset 0").
RecordedAgain ==
    \A f \in File : []<>(\A i \in 1 .. len[f] : \E s \in Slice : rows[s] > 0 /\ Covers(s, f, i))

\* No cursor is past the end of its transcript.
WithinFile == \A f \in File : cursor[f] <= len[f]

\* Rows of a file that awaits validation were all in the central database when
\* it was made, and have not been deleted since.
ExportIsPart ==
    \A p \in Project : At("exported", p) => \A s \in Of(p) : export[s] <= rows[s]

IndInv ==
    /\ TypeOK /\ WithinFile /\ CursorCovered /\ CountedOnceUnlessImported
    /\ ExportIsPart /\ ValidatedIsWhole
=============================================================================
