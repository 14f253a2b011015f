------------------------------ MODULE Capture ------------------------------
(***************************************************************************)
(* One session's usage capture (scripts/capture.py).  The harness appends  *)
(* lines to the session's main transcript and to the transcripts of its    *)
(* sub-agents and fires the capture hook, possibly several times at once.  *)
(* Each firing is a process that consumes the main transcript under the    *)
(* central database's write lock, keeps the project's name current, sweeps *)
(* the sub-agent transcripts file by file, each in a transaction of its    *)
(* own, and last copies what it committed to the project-local mirror.  It *)
(* may lose the wait for the lock, fail, or be killed between two steps.   *)
(***************************************************************************)
EXTENDS Integers, Sequences

CONSTANTS
    Hook,           \* concurrent hook processes; a slot is reused when it exits
    NoHook,         \* nobody (holds the write lock)
    NSub,           \* number of sub-agent transcripts
    MaxLines,       \* bound: complete lines of the session's transcript
    MaxSubLines,    \* bound: complete lines of a sub-agent's transcript
    SweepBatch,     \* SUBAGENT_BATCH (40): sub-agent files committed per firing
    KitName,        \* does the repository carry a kit document naming it?
    InitialMode,    \* storage mode the marker starts with
    MaxKills,       \* bound: firings killed part-way
    MaxFaults,      \* bound: I/O errors (a transcript, the mirror)
    MaxSwitches     \* bound: storage-mode changes by the user

Main == 0                      \* the session's own transcript
Sub  == 1 .. NSub              \* sub-agent transcripts, in the sweep's order
File == 0 .. NSub
Mode == {"central", "project"}

ASSUME CaptureAssumption ==
    /\ NoHook \notin Hook
    /\ NSub \in Nat
    /\ MaxLines \in Nat /\ MaxSubLines \in Nat
    /\ SweepBatch \in Nat \ {0}
    /\ KitName \in BOOLEAN
    /\ InitialMode \in Mode
    /\ MaxKills \in Nat /\ MaxFaults \in Nat /\ MaxSwitches \in Nat

VARIABLES
    log,            \* log[f]: complete lines of transcript f
    partial,        \* partial[f]: is a line of f half written?
    cursor,         \* central: cursors.offset, in lines
    events,         \* central: committed event batches of f, oldest first
    projectRow,     \* central: does the projects row exist?
    named,          \* central: does that row carry the kit's name?
    stamped,        \* central: is projects.mirror_path set?
    writer,         \* holder of the central write lock, or NoHook
    mirror,         \* event batches in the project-local mirror
    marker,         \* first line of the project's .claude/telemetry marker
    clearing,       \* has the user's switch to central yet to clear the stamp?
    pc, mode, slice, todo, swept, batch,    \* of each hook process, see TypeOK
    missed,         \* history: batches that will never be mirrored, and why
    kills, faults, switches

session == <<log, partial>>
central == <<cursor, events, projectRow, stamped>>
process == <<pc, mode, slice, todo, swept, batch>>
storage == <<marker, clearing>>
bounds  == <<kills, faults, switches>>
vars == <<session, central, named, writer, mirror, storage, process, missed, bounds>>

Ledger == INSTANCE UsageLedger

Slice == Ledger!Slice
HasUsage(f, l, h) == Ledger!HasUsage(f, l, h)
Empty(f) == [file |-> f, lo |-> 0, hi |-> 0]
NoSlice == Empty(Main)

Locked == {"read", "commit", "sub_read", "sub_commit"}
PC == {"idle", "begin", "name", "sweep", "sub_begin", "mirror"} \cup Locked
Reason == {"killed", "aborted", "mirror_error", "central_mode"}

\* The shape of every variable; `swept` never exceeds the batch limit.
TypeOK ==
    /\ Ledger!LedgerTypeOK
    /\ partial \in [File -> BOOLEAN]
    /\ projectRow \in BOOLEAN /\ named \in BOOLEAN /\ stamped \in BOOLEAN
    /\ writer \in Hook \cup {NoHook}
    /\ mirror \in SUBSET Slice
    /\ marker \in Mode /\ clearing \in BOOLEAN
    /\ pc \in [Hook -> PC]
    /\ mode \in [Hook -> Mode]          \* the marker as this firing read it
    /\ slice \in [Hook -> Slice]        \* file and lines being consumed
    /\ todo \in [Hook -> SUBSET Sub]    \* listed sub-agent files still to visit
    /\ swept \in [Hook -> 0 .. SweepBatch]  \* sub-agent batches committed
    /\ batch \in [Hook -> Seq(Slice)]   \* committed, not yet mirrored
    /\ missed \in SUBSET [slice : Slice, why : Reason]
    /\ kills \in Nat /\ faults \in Nat /\ switches \in Nat

Init ==
    /\ Ledger!Init
    /\ partial = [f \in File |-> FALSE]
    /\ projectRow = FALSE /\ named = FALSE /\ stamped = FALSE
    /\ writer = NoHook
    /\ mirror = {}
    /\ marker = InitialMode /\ clearing = FALSE
    /\ pc = [h \in Hook |-> "idle"]
    /\ mode = [h \in Hook |-> "central"]
    /\ slice = [h \in Hook |-> NoSlice]
    /\ todo = [h \in Hook |-> {}]
    /\ swept = [h \in Hook |-> 0]
    /\ batch = [h \in Hook |-> <<>>]
    /\ missed = {}
    /\ kills = 0 /\ faults = 0 /\ switches = 0

-----------------------------------------------------------------------------
(***************************************************************************)
(* The session and the user.                                               *)
(***************************************************************************)

Exists(f) == log[f] # <<>> \/ partial[f]

\* The harness starts a line.  A sub-agent is launched by an assistant
\* message of the main transcript, so its file appears after a usage line.
StartLine(f) ==
    /\ ~partial[f]
    /\ Len(log[f]) < IF f = Main THEN MaxLines ELSE MaxSubLines
    /\ f \in Sub => HasUsage(Main, 0, Len(log[Main]))
    /\ partial' = [partial EXCEPT ![f] = TRUE]
    /\ UNCHANGED <<log, central, named, writer, mirror, storage, process, missed, bounds>>

FinishLine(f, l) ==
    /\ partial[f]
    /\ partial' = [partial EXCEPT ![f] = FALSE]
    /\ log' = [log EXCEPT ![f] = Append(@, l)]
    /\ UNCHANGED <<central, named, writer, mirror, storage, process, missed, bounds>>

\* /enable rewrites the marker; going back to central it then clears the
\* mirror metadata, as a second step.
SwitchMode(m) ==
    /\ switches < MaxSwitches
    /\ m # marker /\ ~clearing
    /\ marker' = m
    /\ clearing' = (m = "central")
    /\ switches' = switches + 1
    /\ UNCHANGED <<session, central, named, writer, mirror, process, missed, kills, faults>>

ClearMirrorMeta ==
    /\ clearing /\ writer = NoHook
    /\ clearing' = FALSE
    /\ stamped' = FALSE
    /\ UNCHANGED <<session, cursor, events, projectRow, named, writer, mirror, marker, process, missed, bounds>>

-----------------------------------------------------------------------------
(***************************************************************************)
(* A hook firing.                                                          *)
(***************************************************************************)

Goto(h, p) == pc' = [pc EXCEPT ![h] = p]

\* The process is gone: nothing of it is left but what it committed.
Exit(h) ==
    /\ Goto(h, "idle")
    /\ mode' = [mode EXCEPT ![h] = "central"]
    /\ slice' = [slice EXCEPT ![h] = NoSlice]
    /\ todo' = [todo EXCEPT ![h] = {}]
    /\ swept' = [swept EXCEPT ![h] = 0]
    /\ batch' = [batch EXCEPT ![h] = <<>>]

Pending(h) == {batch[h][k] : k \in DOMAIN batch[h]}

\* The pending batches of h will not be mirrored any more.
Miss(h, why) == missed' = missed \cup [slice : Pending(h), why : {why}]

\* A fired hook has passed the opt-in gate and snapshots the storage mode.
Fire(h) ==
    /\ pc[h] = "idle" /\ Exists(Main)
    /\ Goto(h, "begin")
    /\ mode' = [mode EXCEPT ![h] = marker]
    /\ UNCHANGED <<session, central, named, writer, mirror, storage, slice, todo, swept, batch, missed, bounds>>

\* Mutant of Begin: a deferred BEGIN, which waits for nobody.
BeginDeferred(h) ==
    /\ pc[h] = "begin"
    /\ writer' = h
    /\ Goto(h, "read")
    /\ UNCHANGED <<session, central, named, mirror, storage, mode, slice, todo, swept, batch, missed, bounds>>

\* BEGIN IMMEDIATE for the main transcript.
Begin(h) ==
    /\ pc[h] = "begin" /\ writer = NoHook
    /\ writer' = h
    /\ Goto(h, "read")
    /\ UNCHANGED <<session, central, named, mirror, storage, mode, slice, todo, swept, batch, missed, bounds>>

\* ... whose 5 s wait ran out while another process held the lock.
BeginBusy(h) ==
    /\ pc[h] = "begin" /\ writer # NoHook
    /\ Exit(h)
    /\ UNCHANGED <<session, central, named, writer, mirror, storage, missed, bounds>>

\* Mutant of Window: the cursor row is not found.
WindowFromStart(f) == [file |-> f, lo |-> 0, hi |-> Len(log[f])]

\* The cursor, then every complete line behind it: a partial trailing line
\* stays for a later firing.
Window(f) == [file |-> f, lo |-> cursor[f], hi |-> Len(log[f])]

ReadMain(h) ==
    /\ pc[h] = "read"
    /\ slice' = [slice EXCEPT ![h] = Window(Main)]
    /\ Goto(h, "commit")
    /\ UNCHANGED <<session, central, named, writer, mirror, storage, mode, todo, swept, batch, missed, bounds>>

ReadMainError(h) ==
    /\ pc[h] = "read" /\ faults < MaxFaults
    /\ faults' = faults + 1
    /\ writer' = NoHook
    /\ Exit(h)
    /\ UNCHANGED <<session, central, named, mirror, storage, missed, kills, switches>>

\* insert_events and write_cursor in the open transaction: rows only for a
\* slice that holds usage, the cursor whenever it moves.
Store(s) ==
    /\ cursor' = [cursor EXCEPT ![s.file] = s.hi]
    /\ projectRow' = TRUE
    /\ events' = IF HasUsage(s.file, s.lo, s.hi)
                 THEN [events EXCEPT ![s.file] = Append(@, s)]
                 ELSE events

\* The batch is remembered for the mirror only when rows were written.
Remember(h, s) ==
    batch' = IF HasUsage(s.file, s.lo, s.hi)
             THEN [batch EXCEPT ![h] = Append(@, s)]
             ELSE batch

\* record() commits, or an empty slice rolls back.  In project mode the same
\* transaction stamps the mirror metadata, if the slice holds usage.
CommitMain(h) ==
    LET s == slice[h] IN
    /\ pc[h] = "commit"
    /\ IF s.hi > s.lo
       THEN /\ Store(s)
            /\ stamped' = (stamped \/ (mode[h] = "project" /\ HasUsage(Main, s.lo, s.hi)))
            /\ Remember(h, s)
       ELSE UNCHANGED <<central, batch>>
    /\ writer' = NoHook
    /\ slice' = [slice EXCEPT ![h] = NoSlice]
    /\ Goto(h, "name")
    /\ UNCHANGED <<session, named, mirror, storage, mode, todo, swept, missed, bounds>>

\* Listing the sub-agent transcripts: a file that appears later is not seen.
StartSweep(h) ==
    /\ todo' = [todo EXCEPT ![h] = {f \in Sub : Exists(f)}]
    /\ Goto(h, "sweep")

\* stamp_project_name: an UPDATE in a transaction of its own, without any
\* effect while the project has no row; skipped without a kit document.
StampName(h) ==
    /\ pc[h] = "name"
    /\ KitName => writer = NoHook
    /\ named' = (named \/ (KitName /\ projectRow))
    /\ StartSweep(h)
    /\ UNCHANGED <<session, central, writer, mirror, storage, mode, slice, swept, batch, missed, bounds>>

\* "database is locked": the exception ends the firing, before the sweep and
\* before the mirror.
StampNameBusy(h) ==
    /\ pc[h] = "name" /\ KitName /\ writer # NoHook
    /\ Miss(h, "aborted")
    /\ Exit(h)
    /\ UNCHANGED <<session, central, named, writer, mirror, storage, bounds>>

-----------------------------------------------------------------------------
(***************************************************************************)
(* The sub-agent sweep.                                                    *)
(***************************************************************************)

NextFile(h, f) == f \in todo[h] /\ \A g \in todo[h] : f <= g

\* stat().st_size, which counts a partial trailing line, against the cursor
\* read without the lock.
Untouched(f) == ~partial[f] /\ Len(log[f]) <= cursor[f]

SweepOpen(h) == pc[h] = "sweep" /\ swept[h] < SweepBatch

\* Mutant of SweepSkip: the limit counts every file visited.
SweepSkipCounting(h, f) ==
    /\ SweepOpen(h) /\ NextFile(h, f)
    /\ Untouched(f)
    /\ todo' = [todo EXCEPT ![h] = @ \ {f}]
    /\ swept' = [swept EXCEPT ![h] = @ + 1]
    /\ UNCHANGED <<session, central, named, writer, mirror, storage, pc, mode, slice, batch, missed, bounds>>

SweepSkip(h, f) ==
    /\ SweepOpen(h) /\ NextFile(h, f)
    /\ Untouched(f)
    /\ todo' = [todo EXCEPT ![h] = @ \ {f}]
    /\ UNCHANGED <<session, central, named, writer, mirror, storage, pc, mode, slice, swept, batch, missed, bounds>>

SweepCheck(h, f) ==
    /\ SweepOpen(h) /\ NextFile(h, f)
    /\ ~Untouched(f)
    /\ slice' = [slice EXCEPT ![h] = Empty(f)]
    /\ Goto(h, "sub_begin")
    /\ UNCHANGED <<session, central, named, writer, mirror, storage, mode, todo, swept, batch, missed, bounds>>

SweepBegin(h) ==
    /\ pc[h] = "sub_begin" /\ writer = NoHook
    /\ writer' = h
    /\ Goto(h, "sub_read")
    /\ UNCHANGED <<session, central, named, mirror, storage, mode, slice, todo, swept, batch, missed, bounds>>

\* Mutant of SweepBusy: the exception is not caught in the sweep.
SweepBusyRaises(h) ==
    /\ pc[h] = "sub_begin" /\ writer # NoHook
    /\ Exit(h)
    /\ UNCHANGED <<session, central, named, writer, mirror, storage, missed, bounds>>

\* Lock contention ends the sweep, not the firing.
SweepBusy(h) ==
    /\ pc[h] = "sub_begin" /\ writer # NoHook
    /\ slice' = [slice EXCEPT ![h] = NoSlice]
    /\ Goto(h, "mirror")
    /\ UNCHANGED <<session, central, named, writer, mirror, storage, mode, todo, swept, batch, missed, bounds>>

\* The authoritative offset is read again, under the lock.
SweepRead(h) ==
    /\ pc[h] = "sub_read"
    /\ slice' = [slice EXCEPT ![h] = Window(slice[h].file)]
    /\ Goto(h, "sub_commit")
    /\ UNCHANGED <<session, central, named, writer, mirror, storage, mode, todo, swept, batch, missed, bounds>>

\* A file that cannot be read ends the whole firing.
SweepReadError(h) ==
    /\ pc[h] = "sub_read" /\ faults < MaxFaults
    /\ faults' = faults + 1
    /\ writer' = NoHook
    /\ Miss(h, "aborted")
    /\ Exit(h)
    /\ UNCHANGED <<session, central, named, mirror, storage, kills, switches>>

SweepCommit(h) ==
    LET s == slice[h] IN
    /\ pc[h] = "sub_commit"
    /\ IF s.hi > s.lo
       THEN /\ Store(s)
            /\ Remember(h, s)
            /\ swept' = [swept EXCEPT ![h] =
                            IF HasUsage(s.file, s.lo, s.hi) THEN @ + 1 ELSE @]
            /\ UNCHANGED stamped
       ELSE UNCHANGED <<central, batch, swept>>
    /\ todo' = [todo EXCEPT ![h] = @ \ {s.file}]
    /\ writer' = NoHook
    /\ slice' = [slice EXCEPT ![h] = NoSlice]
    /\ Goto(h, "sweep")
    /\ UNCHANGED <<session, named, mirror, storage, mode, missed, bounds>>

\* Nothing left, or the batch limit.
SweepDone(h) ==
    /\ pc[h] = "sweep"
    /\ todo[h] = {} \/ ~SweepOpen(h)
    /\ Goto(h, "mirror")
    /\ UNCHANGED <<session, central, named, writer, mirror, storage, mode, slice, todo, swept, batch, missed, bounds>>

\* The wall-clock deadline, with files left.
SweepDeadline(h) ==
    /\ SweepOpen(h) /\ todo[h] # {}
    /\ Goto(h, "mirror")
    /\ UNCHANGED <<session, central, named, writer, mirror, storage, mode, slice, todo, swept, batch, missed, bounds>>

-----------------------------------------------------------------------------
(***************************************************************************)
(* The mirror, once the central connection is closed.                      *)
(***************************************************************************)

\* Mutant of Mirroring: the marker is consulted again for the mirror.
MirroringByMarker(h) == pc[h] = "mirror" /\ marker = "project" /\ batch[h] # <<>>

Mirroring(h) == pc[h] = "mirror" /\ mode[h] = "project" /\ batch[h] # <<>>

MirrorWrite(h) ==
    /\ Mirroring(h)
    /\ mirror' = mirror \cup {Head(batch[h])}
    /\ batch' = [batch EXCEPT ![h] = Tail(@)]
    /\ UNCHANGED <<session, central, named, writer, storage, pc, mode, slice, todo, swept, missed, bounds>>

\* A failed mirror write is logged and dropped.
MirrorError(h) ==
    /\ Mirroring(h) /\ faults < MaxFaults
    /\ faults' = faults + 1
    /\ missed' = missed \cup {[slice |-> Head(batch[h]), why |-> "mirror_error"]}
    /\ batch' = [batch EXCEPT ![h] = Tail(@)]
    /\ UNCHANGED <<session, central, named, writer, mirror, storage, pc, mode, slice, todo, swept, kills, switches>>

Finish(h) ==
    /\ pc[h] = "mirror" /\ ~Mirroring(h)
    /\ Miss(h, "central_mode")
    /\ Exit(h)
    /\ UNCHANGED <<session, central, named, writer, mirror, storage, bounds>>

\* The harness kills a hook at its timeout, between any two steps; an open
\* transaction is rolled back with the process.
Kill(h) ==
    /\ pc[h] # "idle" /\ kills < MaxKills
    /\ kills' = kills + 1
    /\ writer' = IF writer = h THEN NoHook ELSE writer
    /\ Miss(h, "killed")
    /\ Exit(h)
    /\ UNCHANGED <<session, central, named, mirror, storage, faults, switches>>

-----------------------------------------------------------------------------
Write == \E f \in File : StartLine(f) \/ \E l \in Ledger!Line : FinishLine(f, l)

User == ClearMirrorMeta \/ \E m \in Mode : SwitchMode(m)

MainStep(h) ==
    \/ Begin(h) \/ BeginBusy(h) \/ ReadMain(h) \/ ReadMainError(h)
    \/ CommitMain(h) \/ StampName(h) \/ StampNameBusy(h)

SweepStep(h) ==
    \/ \E f \in Sub : SweepSkip(h, f) \/ SweepCheck(h, f)
    \/ SweepBegin(h) \/ SweepBusy(h) \/ SweepRead(h) \/ SweepReadError(h)
    \/ SweepCommit(h) \/ SweepDone(h) \/ SweepDeadline(h)

MirrorStep(h) == MirrorWrite(h) \/ MirrorError(h) \/ Finish(h)

Next ==
    \/ Write \/ User
    \/ \E h \in Hook : Fire(h) \/ MainStep(h) \/ SweepStep(h) \/ MirrorStep(h) \/ Kill(h)

Spec == Init /\ [][Next]_vars

(***************************************************************************)
(* Fairness: hooks keep firing while the session lives, and a process that *)
(* can step does.  Each wait for the lock may run out (peers hold it for   *)
(* milliseconds, the wait is 5 s) and each sweep may hit its deadline, but *)
(* from some point on they do not.  Nothing is assumed of the harness's    *)
(* writes, of the user, of errors or of kills beyond their bounds.         *)
(***************************************************************************)
Hurried(h) == BeginBusy(h) \/ StampNameBusy(h) \/ SweepBusy(h) \/ SweepDeadline(h)

Fairness ==
    /\ \A h \in Hook : WF_vars(Fire(h) \/ MainStep(h) \/ SweepStep(h) \/ MirrorStep(h))
    /\ <>[][\A h \in Hook : ~Hurried(h)]_vars

FairSpec == Spec /\ Fairness

-----------------------------------------------------------------------------
(***************************************************************************)
(* Properties.                                                             *)
(***************************************************************************)

\* Whatever hooks overlap, time out, fail or die, the usage lines behind a
\* transcript's cursor are in exactly one committed event batch each, and no
\* batch holds a line the cursor has not passed (BEGIN IMMEDIATE around cursor
\* read, file read, insert and cursor write; complete lines only).
ExactlyOnce == Ledger!ExactlyOnce

\* Capture implements the atomic ledger: every step consumes one slice that
\* starts at the cursor, or extends a log, or changes neither.
ImplementsLedger == Ledger!Spec

\* Why: whoever is between BEGIN and COMMIT holds the lock, and alone; ...
LockHeld == \A h \in Hook : pc[h] \in Locked <=> writer = h

\* ... so a slice waiting to be committed still starts at the cursor; ...
SliceFresh ==
    \A h \in Hook :
        LET s == slice[h] IN
        /\ pc[h] \in {"commit", "sub_commit"} =>
               s.lo = cursor[s.file] /\ s.hi <= Len(log[s.file])
        /\ pc[h] = "commit" => s.file = Main

\* ... and a file is only opened while the batch limit leaves room for it.
SweepRoom ==
    \A h \in Hook : pc[h] \in {"sub_begin", "sub_read", "sub_commit"} => swept[h] < SweepBatch

\* The inductive invariant of the proofs.
IndInv == TypeOK /\ LockHeld /\ SliceFresh /\ SweepRoom

Committed == UNION {{events[f][k] : k \in DOMAIN events[f]} : f \in File}

\* Every batch the central database holds is, at each moment, in exactly one
\* place: mirrored once, pending in one hook, or given up for a stated reason
\* (kill, error, central mode); the mirror never holds an uncommitted batch.
MirrorAccounted ==
    LET gone == {m.slice : m \in missed}
        pending == UNION {Pending(h) : h \in Hook}
    IN  /\ Committed = mirror \cup pending \cup gone
        /\ mirror \cap pending = {} /\ mirror \cap gone = {} /\ pending \cap gone = {}
        /\ \A g, h \in Hook : g # h => Pending(g) \cap Pending(h) = {}

\* One reading of the marker decides for a whole firing: a firing whose
\* transaction stamped the mirror metadata never drops its batches as a
\* central-mode firing would, and one that did not never writes the mirror,
\* whatever the user switches to while it runs.
ModeSnapshot ==
    [][\A h \in Hook :
          /\ mode[h] = "project" =>
                 \A s \in Pending(h) : [slice |-> s, why |-> "central_mode"] \notin missed'
          /\ mode[h] = "central" => \A s \in Pending(h) : s \notin mirror']_vars

\* Every complete line is eventually consumed, whatever sub-agent file it is
\* in and however many files compete for a firing's batch limit.
AllConsumed ==
    \A f \in File : \A i \in 1 .. MaxLines : Len(log[f]) >= i ~> cursor[f] >= i
=============================================================================
