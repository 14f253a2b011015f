--------------------------- MODULE CaptureProofs ---------------------------
(***************************************************************************)
(* Proofs about Capture, for any number of hook processes, sub-agent       *)
(* transcripts and lines, any batch limit and any number of failures.      *)
(***************************************************************************)
EXTENDS Capture, TLAPS

LEMMA StoreType ==
    ASSUME TypeOK, NEW s \in Slice, Store(s)
    PROVE  /\ cursor' \in [File -> Nat]
           /\ events' \in [File -> Seq(Slice)]
           /\ projectRow' \in BOOLEAN
BY DEF TypeOK, Store, Ledger!LedgerTypeOK, Slice, Ledger!Slice

LEMMA RememberType ==
    ASSUME TypeOK, NEW h \in Hook, NEW s \in Slice, Remember(h, s)
    PROVE  batch' \in [Hook -> Seq(Slice)]
BY DEF TypeOK, Remember

LEMMA EmptySlice == \A f \in File : Empty(f) \in Slice
BY DEF Empty, Slice, Ledger!Slice

LEMMA MainIsFile == Main \in File /\ NoSlice \in Slice
BY CaptureAssumption, EmptySlice DEF CaptureAssumption, Main, File, NoSlice

LEMMA ExitType ==
    ASSUME TypeOK, NEW h \in Hook, Exit(h)
    PROVE  /\ pc' \in [Hook -> PC]
           /\ mode' \in [Hook -> Mode]
           /\ slice' \in [Hook -> Slice]
           /\ todo' \in [Hook -> SUBSET Sub]
           /\ swept' \in [Hook -> 0 .. SweepBatch]
           /\ batch' \in [Hook -> Seq(Slice)]
BY CaptureAssumption, MainIsFile DEF CaptureAssumption, TypeOK, Exit, Goto, PC, Mode

LEMMA MissType ==
    ASSUME TypeOK, NEW h \in Hook, NEW why \in Reason, Miss(h, why)
    PROVE  missed' \in SUBSET [slice : Slice, why : Reason]
BY DEF TypeOK, Miss, Pending

LEMMA WindowType ==
    ASSUME TypeOK, NEW f \in File
    PROVE  Window(f) \in Slice
BY DEF TypeOK, Window, Slice, Ledger!Slice, Ledger!LedgerTypeOK

-----------------------------------------------------------------------------
(***************************************************************************)
(* One step preserves each part of the inductive invariant.                *)
(***************************************************************************)

\* Types; the batch limit holds because the sweep opens a file only while
\* there is room for it.
LEMMA TypeStep ==
    ASSUME TypeOK, SweepRoom, [Next]_vars
    PROVE  TypeOK'
<1> USE CaptureAssumption DEF CaptureAssumption
<1> USE DEF vars, session, central, process, storage, bounds
<1>1. CASE Write
  <2>1. ASSUME NEW f \in File, StartLine(f) PROVE TypeOK'
    BY <2>1 DEF TypeOK, StartLine, Ledger!LedgerTypeOK
  <2>2. ASSUME NEW f \in File, NEW l \in Ledger!Line, FinishLine(f, l) PROVE TypeOK'
    BY <2>2 DEF TypeOK, FinishLine, Ledger!LedgerTypeOK
  <2> QED BY <1>1, <2>1, <2>2 DEF Write
<1>2. CASE User
  <2>1. CASE ClearMirrorMeta
    BY <2>1 DEF TypeOK, ClearMirrorMeta, Ledger!LedgerTypeOK
  <2>2. ASSUME NEW m \in Mode, SwitchMode(m) PROVE TypeOK'
    BY <2>2 DEF TypeOK, SwitchMode, Ledger!LedgerTypeOK
  <2> QED BY <1>2, <2>1, <2>2 DEF User
<1>3. ASSUME NEW h \in Hook, Fire(h) PROVE TypeOK'
  BY <1>3 DEF TypeOK, Fire, Goto, PC, Ledger!LedgerTypeOK
<1>4. ASSUME NEW h \in Hook, MainStep(h) PROVE TypeOK'
  <2>1. CASE Begin(h)
    BY <2>1 DEF TypeOK, Begin, Goto, PC, Locked, Ledger!LedgerTypeOK
  <2>2. CASE BeginBusy(h)
    BY <2>2, ExitType DEF TypeOK, BeginBusy, Ledger!LedgerTypeOK
  <2>3. CASE ReadMain(h)
    <3> QED BY <2>3, MainIsFile, WindowType DEF TypeOK, ReadMain, Goto, PC, Locked, Ledger!LedgerTypeOK
  <2>4. CASE ReadMainError(h)
    BY <2>4, ExitType DEF TypeOK, ReadMainError, Ledger!LedgerTypeOK
  <2>5. CASE CommitMain(h)
    <3>1. slice[h] \in Slice /\ NoSlice \in Slice
      BY MainIsFile DEF TypeOK
    <3>2. /\ cursor' \in [File -> Nat]
          /\ events' \in [File -> Seq(Slice)]
          /\ projectRow' \in BOOLEAN
          /\ stamped' \in BOOLEAN
          /\ batch' \in [Hook -> Seq(Slice)]
      <4>1. CASE slice[h].hi > slice[h].lo
        BY <2>5, <3>1, <4>1, StoreType, RememberType DEF TypeOK, CommitMain
      <4>2. CASE ~(slice[h].hi > slice[h].lo)
        BY <2>5, <4>2 DEF TypeOK, CommitMain, Ledger!LedgerTypeOK, Slice
      <4> QED BY <4>1, <4>2
    <3> QED BY <2>5, <3>1, <3>2 DEF TypeOK, CommitMain, Goto, PC, Ledger!LedgerTypeOK, Slice
  <2>6. CASE StampName(h)
    BY <2>6 DEF TypeOK, StampName, StartSweep, Goto, PC, Ledger!LedgerTypeOK
  <2>7. CASE StampNameBusy(h)
    BY <2>7, ExitType, MissType DEF TypeOK, StampNameBusy, Reason, Ledger!LedgerTypeOK
  <2> QED BY <1>4, <2>1, <2>2, <2>3, <2>4, <2>5, <2>6, <2>7 DEF MainStep
<1>5. ASSUME NEW h \in Hook, SweepStep(h) PROVE TypeOK'
  <2>1. ASSUME NEW f \in Sub, SweepSkip(h, f) PROVE TypeOK'
    BY <2>1 DEF TypeOK, SweepSkip, Ledger!LedgerTypeOK
  <2>2. ASSUME NEW f \in Sub, SweepCheck(h, f) PROVE TypeOK'
    <3>1. f \in File
      BY DEF Sub, File
    <3> QED BY <2>2, <3>1, EmptySlice DEF TypeOK, SweepCheck, Goto, PC, Ledger!LedgerTypeOK
  <2>3. CASE SweepBegin(h)
    BY <2>3 DEF TypeOK, SweepBegin, Goto, PC, Locked, Ledger!LedgerTypeOK
  <2>4. CASE SweepBusy(h)
    BY <2>4, MainIsFile DEF TypeOK, SweepBusy, Goto, PC, Ledger!LedgerTypeOK
  <2>5. CASE SweepRead(h)
    <3>1. slice[h].file \in File
      BY DEF TypeOK, Slice, Ledger!Slice
    <3> QED BY <2>5, <3>1, WindowType DEF TypeOK, SweepRead, Goto, PC, Locked, Ledger!LedgerTypeOK
  <2>6. CASE SweepReadError(h)
    BY <2>6, ExitType, MissType DEF TypeOK, SweepReadError, Reason, Ledger!LedgerTypeOK
  <2>7. CASE SweepCommit(h)
    <3>1. slice[h] \in Slice /\ NoSlice \in Slice
      BY MainIsFile DEF TypeOK
    <3>2. swept[h] \in 0 .. SweepBatch /\ swept[h] < SweepBatch
      BY <2>7 DEF TypeOK, SweepRoom, SweepCommit
    <3>3. /\ cursor' \in [File -> Nat]
          /\ events' \in [File -> Seq(Slice)]
          /\ projectRow' \in BOOLEAN
          /\ stamped' \in BOOLEAN
          /\ batch' \in [Hook -> Seq(Slice)]
          /\ swept' \in [Hook -> 0 .. SweepBatch]
      <4>1. CASE slice[h].hi > slice[h].lo
        <5>1. Store(slice[h]) /\ Remember(h, slice[h]) /\ stamped' = stamped
          BY <2>7, <4>1 DEF SweepCommit
        <5>2. swept' \in [Hook -> 0 .. SweepBatch]
          <6>1. swept[h] + 1 \in 0 .. SweepBatch
            BY <3>2, CaptureAssumption DEF CaptureAssumption
          <6>2. PICK n \in {swept[h], swept[h] + 1} : swept' = [swept EXCEPT ![h] = n]
            BY <2>7, <4>1 DEF SweepCommit
          <6> QED BY <3>2, <6>1, <6>2 DEF TypeOK
        <5> QED BY <3>1, <5>1, <5>2, StoreType, RememberType DEF TypeOK
      <4>2. CASE ~(slice[h].hi > slice[h].lo)
        BY <2>7, <4>2 DEF TypeOK, SweepCommit, Ledger!LedgerTypeOK, Slice
      <4> QED BY <4>1, <4>2
    <3> QED BY <2>7, <3>1, <3>3 DEF TypeOK, SweepCommit, Goto, PC, Ledger!LedgerTypeOK, Slice
  <2>8. CASE SweepDone(h)
    BY <2>8 DEF TypeOK, SweepDone, Goto, PC, Ledger!LedgerTypeOK
  <2>9. CASE SweepDeadline(h)
    BY <2>9 DEF TypeOK, SweepDeadline, Goto, PC, Ledger!LedgerTypeOK
  <2> QED BY <1>5, <2>1, <2>2, <2>3, <2>4, <2>5, <2>6, <2>7, <2>8, <2>9 DEF SweepStep
<1>6. ASSUME NEW h \in Hook, MirrorStep(h) PROVE TypeOK'
  <2>1. CASE MirrorWrite(h)
    BY <2>1 DEF TypeOK, MirrorWrite, Mirroring, Ledger!LedgerTypeOK
  <2>2. CASE MirrorError(h)
    BY <2>2 DEF TypeOK, MirrorError, Mirroring, Reason, Ledger!LedgerTypeOK
  <2>3. CASE Finish(h)
    BY <2>3, ExitType, MissType DEF TypeOK, Finish, Reason, Ledger!LedgerTypeOK
  <2> QED BY <1>6, <2>1, <2>2, <2>3 DEF MirrorStep
<1>7. ASSUME NEW h \in Hook, Kill(h) PROVE TypeOK'
  BY <1>7, ExitType, MissType DEF TypeOK, Kill, Reason, Ledger!LedgerTypeOK
<1>8. CASE UNCHANGED vars
  BY <1>8 DEF TypeOK, Ledger!LedgerTypeOK
<1> QED BY <1>1, <1>2, <1>3, <1>4, <1>5, <1>6, <1>7, <1>8 DEF Next

\* A process enters a critical section only when it takes the free lock, and
\* leaves it only when it gives the lock back.
LEMMA LockStep ==
    ASSUME IndInv, [Next]_vars
    PROVE  LockHeld'
<1> USE CaptureAssumption DEF CaptureAssumption, IndInv, TypeOK, LockHeld, Locked, Goto
<1> USE DEF vars, process
<1>1. CASE Write
  BY <1>1 DEF Write, StartLine, FinishLine
<1>2. CASE User
  BY <1>2 DEF User, ClearMirrorMeta, SwitchMode
<1>3. ASSUME NEW h \in Hook, Fire(h) PROVE LockHeld'
  BY <1>3 DEF Fire
<1>4. ASSUME NEW h \in Hook, MainStep(h) PROVE LockHeld'
  BY <1>4 DEF MainStep, Begin, BeginBusy, ReadMain, ReadMainError, CommitMain,
              StampName, StartSweep, StampNameBusy, Exit
<1>5. ASSUME NEW h \in Hook, SweepStep(h) PROVE LockHeld'
  BY <1>5 DEF SweepStep, SweepSkip, SweepCheck, SweepOpen, SweepBegin, SweepBusy, SweepRead,
              SweepReadError, SweepCommit, SweepDone, SweepDeadline, Exit
<1>6. ASSUME NEW h \in Hook, MirrorStep(h) PROVE LockHeld'
  BY <1>6 DEF MirrorStep, MirrorWrite, MirrorError, Mirroring, Finish, Exit
<1>7. ASSUME NEW h \in Hook, Kill(h) PROVE LockHeld'
  BY <1>7 DEF Kill, Exit
<1>8. CASE UNCHANGED vars
  BY <1>8
<1> QED BY <1>1, <1>2, <1>3, <1>4, <1>5, <1>6, <1>7, <1>8 DEF Next

\* The room the sweep checked is still there when it commits the file.
LEMMA RoomStep ==
    ASSUME IndInv, [Next]_vars
    PROVE  SweepRoom'
<1> USE CaptureAssumption DEF CaptureAssumption, IndInv, TypeOK, SweepRoom, Goto
<1> USE DEF vars, process
<1>1. CASE Write
  BY <1>1 DEF Write, StartLine, FinishLine
<1>2. CASE User
  BY <1>2 DEF User, ClearMirrorMeta, SwitchMode
<1>3. ASSUME NEW h \in Hook, Fire(h) PROVE SweepRoom'
  BY <1>3 DEF Fire
<1>4. ASSUME NEW h \in Hook, MainStep(h) PROVE SweepRoom'
  BY <1>4 DEF MainStep, Begin, BeginBusy, ReadMain, ReadMainError, CommitMain,
              StampName, StartSweep, StampNameBusy, Exit
<1>5. ASSUME NEW h \in Hook, SweepStep(h) PROVE SweepRoom'
  BY <1>5 DEF SweepStep, SweepSkip, SweepCheck, SweepOpen, SweepBegin, SweepBusy, SweepRead,
              SweepReadError, SweepCommit, SweepDone, SweepDeadline, Exit
<1>6. ASSUME NEW h \in Hook, MirrorStep(h) PROVE SweepRoom'
  BY <1>6 DEF MirrorStep, MirrorWrite, MirrorError, Mirroring, Finish, Exit
<1>7. ASSUME NEW h \in Hook, Kill(h) PROVE SweepRoom'
  BY <1>7 DEF Kill, Exit
<1>8. CASE UNCHANGED vars
  BY <1>8
<1> QED BY <1>1, <1>2, <1>3, <1>4, <1>5, <1>6, <1>7, <1>8 DEF Next

\* A slice to be committed starts at the cursor and ends at complete lines:
\* only the holder of the lock moves a cursor, and logs only grow.
LEMMA FreshStep ==
    ASSUME IndInv, [Next]_vars
    PROVE  SliceFresh'
<1> USE CaptureAssumption DEF CaptureAssumption, IndInv
<1>0. \A h \in Hook : slice[h] \in Slice /\ slice[h].file \in File
  BY DEF TypeOK, Slice, Ledger!Slice
<1>1. CASE Write
  <2>1. ASSUME NEW f \in File, StartLine(f) PROVE SliceFresh'
    BY <2>1 DEF StartLine, SliceFresh, central, process
  <2>2. ASSUME NEW f \in File, NEW l \in Ledger!Line, FinishLine(f, l) PROVE SliceFresh'
    <3>1. \A g \in File : Len(log[g]) <= Len(log'[g])
      BY <2>2 DEF FinishLine, TypeOK, Ledger!LedgerTypeOK
    <3>2. \A g \in File : Len(log[g]) \in Nat /\ Len(log'[g]) \in Nat
      BY <2>2 DEF FinishLine, TypeOK, Ledger!LedgerTypeOK
    <3>3. \A h \in Hook : slice[h].hi \in Nat
      BY <1>0 DEF Slice, Ledger!Slice
    <3> QED BY <1>0, <2>2, <3>1, <3>2, <3>3 DEF FinishLine, SliceFresh, central, process
  <2> QED BY <1>1, <2>1, <2>2 DEF Write
<1>2. CASE User
  BY <1>2 DEF User, ClearMirrorMeta, SwitchMode, SliceFresh, session, central, process
<1>3. ASSUME NEW h \in Hook, Fire(h) PROVE SliceFresh'
  BY <1>3 DEF Fire, Goto, SliceFresh, session, central, TypeOK
<1>4. ASSUME NEW h \in Hook, MainStep(h) PROVE SliceFresh'
  <2>1. CASE Begin(h) \/ BeginBusy(h) \/ ReadMainError(h) \/ StampName(h) \/ StampNameBusy(h)
    BY <2>1 DEF Begin, BeginBusy, ReadMainError, StampName, StartSweep, StampNameBusy, Exit,
                Goto, SliceFresh, session, central, TypeOK
  <2>2. CASE ReadMain(h)
    <3>1. Window(Main).file = Main /\ Window(Main).lo = cursor[Main] /\ Window(Main).hi = Len(log[Main])
      BY DEF Window
    <3>2. Len(log[Main]) <= Len(log[Main])
      BY MainIsFile DEF TypeOK, Ledger!LedgerTypeOK
    <3> QED BY <2>2, <3>1, <3>2 DEF ReadMain, Goto, SliceFresh, session, central, TypeOK
  <2>3. CASE CommitMain(h)
    <3>1. \A g \in Hook \ {h} : pc[g] \notin Locked
      BY <2>3 DEF CommitMain, LockHeld, Locked
    <3> QED BY <2>3, <3>1 DEF CommitMain, Goto, SliceFresh, session, TypeOK, Locked
  <2> QED BY <1>4, <2>1, <2>2, <2>3 DEF MainStep
<1>5. ASSUME NEW h \in Hook, SweepStep(h) PROVE SliceFresh'
  <2>1. ASSUME NEW f \in Sub, SweepSkip(h, f) \/ SweepCheck(h, f) PROVE SliceFresh'
    BY <2>1 DEF SweepSkip, SweepCheck, Goto, SliceFresh, session, central, TypeOK
  <2>2. CASE SweepBegin(h) \/ SweepBusy(h) \/ SweepReadError(h) \/ SweepDone(h) \/ SweepDeadline(h)
    BY <2>2 DEF SweepBegin, SweepBusy, SweepReadError, SweepDone, SweepDeadline, Exit,
                Goto, SliceFresh, session, central, TypeOK
  <2>3. CASE SweepRead(h)
    <3> DEFINE f == slice[h].file
    <3>1. Window(f).file = f /\ Window(f).lo = cursor[f] /\ Window(f).hi = Len(log[f])
      BY DEF Window
    <3>2. Len(log[f]) <= Len(log[f])
      BY <1>0 DEF TypeOK, Ledger!LedgerTypeOK
    <3> QED BY <2>3, <3>1, <3>2 DEF SweepRead, Goto, SliceFresh, session, central, TypeOK
  <2>4. CASE SweepCommit(h)
    <3>1. \A g \in Hook \ {h} : pc[g] \notin Locked
      BY <2>4 DEF SweepCommit, LockHeld, Locked
    <3> QED BY <2>4, <3>1 DEF SweepCommit, Goto, SliceFresh, session, TypeOK, Locked
  <2> QED BY <1>5, <2>1, <2>2, <2>3, <2>4 DEF SweepStep
<1>6. ASSUME NEW h \in Hook, MirrorStep(h) PROVE SliceFresh'
  BY <1>6 DEF MirrorStep, MirrorWrite, MirrorError, Finish, Exit, Goto, SliceFresh, session, central, TypeOK
<1>7. ASSUME NEW h \in Hook, Kill(h) PROVE SliceFresh'
  BY <1>7 DEF Kill, Exit, Goto, SliceFresh, session, central, TypeOK
<1>8. CASE UNCHANGED vars
  BY <1>8 DEF vars, session, central, process, SliceFresh
<1> QED BY <1>1, <1>2, <1>3, <1>4, <1>5, <1>6, <1>7, <1>8 DEF Next

-----------------------------------------------------------------------------
(***************************************************************************)
(* The theorems.                                                           *)
(***************************************************************************)

THEOREM InductiveInvariant == Spec => []IndInv
<1>1. Init => IndInv
  <2> SUFFICES ASSUME Init PROVE IndInv
    OBVIOUS
  <2>1. Ledger!LedgerTypeOK
    BY DEF Init, Ledger!Init, Ledger!LedgerTypeOK
  <2>2. swept \in [Hook -> 0 .. SweepBatch] /\ todo \in [Hook -> SUBSET Sub]
    BY CaptureAssumption DEF CaptureAssumption, Init
  <2>3. /\ pc \in [Hook -> PC] /\ mode \in [Hook -> Mode]
        /\ slice \in [Hook -> Slice] /\ batch \in [Hook -> Seq(Slice)]
    BY MainIsFile DEF Init, PC, Mode
  <2>4. TypeOK
    BY <2>1, <2>2, <2>3, CaptureAssumption DEF CaptureAssumption, Init, TypeOK
  <2> QED BY <2>4, CaptureAssumption
          DEF CaptureAssumption, Init, IndInv, LockHeld, SliceFresh, SweepRoom, Locked
<1>2. IndInv /\ [Next]_vars => IndInv'
  BY TypeStep, LockStep, RoomStep, FreshStep DEF IndInv
<1> QED BY <1>1, <1>2, PTL DEF Spec

\* The typing invariant: every variable keeps its shape, and no firing commits
\* more sub-agent files than the batch limit.
THEOREM TypeCorrect == Spec => []TypeOK
BY InductiveInvariant, PTL DEF IndInv

\* Committing a slice that starts at the cursor is a Consume step of the ledger.
LEMMA StoreIsConsume ==
    ASSUME TypeOK, NEW s \in Slice, Store(s), UNCHANGED log,
           s.lo = cursor[s.file], s.hi > s.lo, s.hi <= Len(log[s.file])
    PROVE  Ledger!Next
<1>1. s.file \in File /\ s.hi \in Nat /\ s.lo \in Nat
  BY DEF Slice, Ledger!Slice
<1>2. s = [file |-> s.file, lo |-> cursor[s.file], hi |-> s.hi]
  BY DEF Slice, Ledger!Slice
<1>3. s.hi \in cursor[s.file] + 1 .. Len(log[s.file])
  BY <1>1 DEF TypeOK, Ledger!LedgerTypeOK
<1>4. Ledger!Consume(s.file, s.hi)
  BY <1>2 DEF Store, Ledger!Consume, HasUsage
<1> QED BY <1>1, <1>3, <1>4 DEF Ledger!Next

\* Capture implements the ledger.  Only the two commit actions and the harness
\* touch the log, the cursors and the events.
THEOREM Refinement == Spec => ImplementsLedger
<1>1. Init => Ledger!Init
  BY DEF Init
<1>2. IndInv /\ [Next]_vars => [Ledger!Next]_(Ledger!ledgerVars)
  <2> SUFFICES ASSUME IndInv, [Next]_vars
               PROVE  Ledger!Next \/ UNCHANGED <<log, cursor, events>>
    BY DEF Ledger!ledgerVars
  <2> USE DEF IndInv, session, central
  <2>1. CASE Write
    <3>1. ASSUME NEW f \in File, StartLine(f) PROVE UNCHANGED <<log, cursor, events>>
      BY <3>1 DEF StartLine
    <3>2. ASSUME NEW f \in File, NEW l \in Ledger!Line, FinishLine(f, l) PROVE Ledger!Next
      BY <3>2 DEF FinishLine, Ledger!Next, Ledger!Extend
    <3> QED BY <2>1, <3>1, <3>2 DEF Write
  <2>2. CASE User
    BY <2>2 DEF User, ClearMirrorMeta, SwitchMode
  <2>3. ASSUME NEW h \in Hook, Fire(h) \/ MirrorStep(h) \/ Kill(h)
        PROVE  UNCHANGED <<log, cursor, events>>
    BY <2>3 DEF Fire, MirrorStep, MirrorWrite, MirrorError, Finish, Kill
  <2>4. ASSUME NEW h \in Hook, CommitMain(h) \/ SweepCommit(h)
        PROVE  Ledger!Next \/ UNCHANGED <<log, cursor, events>>
    <3>1. slice[h] \in Slice /\ slice[h].lo = cursor[slice[h].file]
                             /\ slice[h].hi <= Len(log[slice[h].file])
      BY <2>4 DEF CommitMain, SweepCommit, SliceFresh, TypeOK
    <3>2. CASE slice[h].hi > slice[h].lo
      <4>1. Store(slice[h]) /\ UNCHANGED log
        BY <2>4, <3>2 DEF CommitMain, SweepCommit
      <4> QED BY <3>1, <3>2, <4>1, StoreIsConsume
    <3>3. CASE ~(slice[h].hi > slice[h].lo)
      BY <2>4, <3>3 DEF CommitMain, SweepCommit
    <3> QED BY <3>2, <3>3
  <2>5. ASSUME NEW h \in Hook, MainStep(h)
        PROVE  Ledger!Next \/ UNCHANGED <<log, cursor, events>>
    BY <2>4, <2>5 DEF MainStep, Begin, BeginBusy, ReadMain, ReadMainError, StampName, StampNameBusy
  <2>6. ASSUME NEW h \in Hook, SweepStep(h)
        PROVE  Ledger!Next \/ UNCHANGED <<log, cursor, events>>
    BY <2>4, <2>6 DEF SweepStep, SweepSkip, SweepCheck, SweepBegin, SweepBusy, SweepRead,
                      SweepReadError, SweepDone, SweepDeadline
  <2>7. CASE UNCHANGED vars
    BY <2>7 DEF vars
  <2> QED BY <2>1, <2>2, <2>3, <2>5, <2>6, <2>7 DEF Next
<1> QED BY <1>1, <1>2, InductiveInvariant, PTL DEF Spec, ImplementsLedger, Ledger!Spec

-----------------------------------------------------------------------------
(***************************************************************************)
(* The ledger consumes every usage line exactly once.                      *)
(***************************************************************************)

LedgerInv == Ledger!LedgerTypeOK /\ Ledger!ExactlyOnce

LEMMA LedgerInit == Ledger!Init => LedgerInv
BY DEF Ledger!Init, LedgerInv, Ledger!LedgerTypeOK, Ledger!ExactlyOnce, Ledger!WithinCursor, Ledger!NeverTwice, Ledger!NeverLost

\* A line more changes neither what is consumed nor what is recorded.
LEMMA ExtendStep ==
    ASSUME LedgerInv, NEW f \in File, NEW l \in Ledger!Line, Ledger!Extend(f, l)
    PROVE  LedgerInv'
<1> USE DEF LedgerInv, Ledger!LedgerTypeOK
<1>1. Ledger!LedgerTypeOK'
  BY DEF Ledger!Extend
<1>2. \A g \in File : /\ Len(log[g]) <= Len(log'[g])
                      /\ \A i \in 1 .. Len(log[g]) : log'[g][i] = log[g][i]
  BY DEF Ledger!Extend
<1>3. Ledger!WithinCursor'
  <2> SUFFICES ASSUME NEW g \in File PROVE cursor[g] <= Len(log'[g])
    BY DEF Ledger!Extend, Ledger!ExactlyOnce, Ledger!WithinCursor
  <2>1. cursor[g] \in Nat /\ Len(log[g]) \in Nat /\ Len(log'[g]) \in Nat
    BY <1>1
  <2>2. cursor[g] <= Len(log[g]) /\ Len(log[g]) <= Len(log'[g])
    BY <1>2 DEF Ledger!ExactlyOnce, Ledger!WithinCursor
  <2> QED BY <2>1, <2>2
<1>4. Ledger!NeverTwice'
  BY DEF Ledger!Extend, Ledger!ExactlyOnce, Ledger!NeverTwice
<1>5. Ledger!NeverLost'
  <2> SUFFICES ASSUME NEW g \in File, NEW i \in 1 .. cursor[g], log'[g][i] = "usage"
               PROVE  \E k \in DOMAIN events[g] : Ledger!Covers(g, k, i)
    BY DEF Ledger!Extend, Ledger!NeverLost, Ledger!Covers
  <2>1. i \in 1 .. Len(log[g])
    BY DEF Ledger!ExactlyOnce, Ledger!WithinCursor
  <2> QED BY <1>2, <2>1 DEF Ledger!ExactlyOnce, Ledger!NeverLost
<1> QED BY <1>1, <1>3, <1>4, <1>5 DEF Ledger!ExactlyOnce

\* A consumed slice starts where the last one ended and covers what it skips.
LEMMA ConsumeStep ==
    ASSUME LedgerInv, NEW f \in File, NEW h \in cursor[f] + 1 .. Len(log[f]), Ledger!Consume(f, h)
    PROVE  LedgerInv'
<1> USE DEF LedgerInv, Ledger!LedgerTypeOK
<1> DEFINE s == [file |-> f, lo |-> cursor[f], hi |-> h]
<1>0. /\ cursor[f] \in Nat /\ h \in Nat /\ h > cursor[f] /\ h <= Len(log[f])
      /\ s \in Ledger!Slice /\ events[f] \in Seq(Ledger!Slice)
  <2>1. cursor[f] \in Nat /\ Len(log[f]) \in Nat /\ events[f] \in Seq(Ledger!Slice)
    OBVIOUS
  <2>2. h \in Nat /\ h > cursor[f] /\ h <= Len(log[f])
    BY <2>1
  <2> QED BY <2>1, <2>2 DEF Ledger!Slice
<1>1. Ledger!LedgerTypeOK'
  BY <1>0 DEF Ledger!Consume
<1>9. \A k \in DOMAIN events[f] :
          /\ events[f][k].lo \in Nat /\ events[f][k].hi \in Nat
          /\ events[f][k].lo < events[f][k].hi /\ events[f][k].hi <= cursor[f]
  <2> SUFFICES ASSUME NEW k \in DOMAIN events[f]
               PROVE  events[f][k].lo \in Nat /\ events[f][k].hi \in Nat
    BY DEF Ledger!ExactlyOnce, Ledger!WithinCursor
  <2>1. events[f][k] \in Ledger!Slice
    BY <1>0
  <2> QED BY <2>1 DEF Ledger!Slice
<1>2. \A g \in File \ {f} : events'[g] = events[g] /\ cursor'[g] = cursor[g]
  BY DEF Ledger!Consume
<1>3. cursor'[f] = h /\ log' = log
  BY DEF Ledger!Consume
<1>4. CASE Ledger!HasUsage(f, cursor[f], h)
  <2>1. events'[f] = Append(events[f], s)
    BY <1>4 DEF Ledger!Consume
  <2>2. /\ DOMAIN events'[f] = 1 .. Len(events[f]) + 1
        /\ DOMAIN events[f] = 1 .. Len(events[f])
        /\ Len(events[f]) \in Nat
        /\ events'[f][Len(events[f]) + 1] = s
        /\ \A k \in DOMAIN events[f] : events'[f][k] = events[f][k]
    BY <1>0, <2>1
  <2>4. Ledger!WithinCursor'
    <3> SUFFICES ASSUME NEW g \in File
                 PROVE  /\ cursor'[g] <= Len(log[g])
                        /\ \A k \in DOMAIN events'[g] :
                              events'[g][k].lo < events'[g][k].hi /\ events'[g][k].hi <= cursor'[g]
      BY <1>3 DEF Ledger!WithinCursor
    <3>1. CASE g # f
      BY <1>2, <3>1 DEF Ledger!ExactlyOnce, Ledger!WithinCursor
    <3>2. CASE g = f
      <4>1. ASSUME NEW k \in DOMAIN events[f]
            PROVE  events[f][k].lo < events[f][k].hi /\ events[f][k].hi <= h
        BY <1>0, <1>9
      <4>2. s.lo < s.hi /\ s.hi <= h
        BY <1>0
      <4>3. \A k \in DOMAIN events'[f] : k \in DOMAIN events[f] \/ k = Len(events[f]) + 1
        BY <2>2
      <4> QED BY <1>0, <1>3, <2>2, <3>2, <4>1, <4>2, <4>3
    <3> QED BY <3>1, <3>2
  <2>5. Ledger!NeverTwice'
    <3> SUFFICES ASSUME NEW g \in File, NEW j \in DOMAIN events'[g], NEW k \in DOMAIN events'[g], j < k
                 PROVE  events'[g][j].hi <= events'[g][k].lo
      BY DEF Ledger!NeverTwice
    <3>1. CASE g # f
      BY <1>2, <3>1 DEF Ledger!ExactlyOnce, Ledger!NeverTwice
    <3>2. CASE g = f /\ k \in DOMAIN events[f]
      <4>1. j \in DOMAIN events[f]
        BY <2>2, <3>2
      <4> QED BY <2>2, <3>2, <4>1 DEF Ledger!ExactlyOnce, Ledger!NeverTwice
    <3>3. CASE g = f /\ k = Len(events[f]) + 1
      <4>1. j \in DOMAIN events[f]
        BY <2>2, <3>3
      <4> QED BY <1>9, <2>2, <3>3, <4>1
    <3> QED BY <2>2, <3>1, <3>2, <3>3
  <2>6. Ledger!NeverLost'
    <3> SUFFICES ASSUME NEW g \in File, NEW i \in 1 .. cursor'[g], log[g][i] = "usage"
                 PROVE  \E k \in DOMAIN events'[g] : events'[g][k].lo < i /\ i <= events'[g][k].hi
      BY <1>3 DEF Ledger!NeverLost, Ledger!Covers
    <3>1. CASE g # f
      BY <1>2, <3>1 DEF Ledger!ExactlyOnce, Ledger!NeverLost, Ledger!Covers
    <3>2. CASE g = f /\ i <= cursor[f]
      <4>1. PICK k \in DOMAIN events[f] : Ledger!Covers(f, k, i)
        BY <1>0, <3>2 DEF Ledger!ExactlyOnce, Ledger!NeverLost
      <4>2. k \in DOMAIN events'[g] /\ events'[g][k] = events[f][k]
        BY <2>2, <3>2
      <4>3. events'[g][k].lo < i /\ i <= events'[g][k].hi
        BY <4>1, <4>2 DEF Ledger!Covers
      <4> QED BY <4>2, <4>3
    <3>3. CASE g = f /\ i > cursor[f]
      <4>1. s.lo < i /\ i <= s.hi
        BY <1>0, <1>3, <3>3
      <4>2. Len(events[f]) + 1 \in DOMAIN events'[f]
        BY <2>2
      <4> QED BY <2>2, <3>3, <4>1, <4>2
    <3> QED BY <1>0, <3>1, <3>2, <3>3
  <2> QED BY <1>1, <2>4, <2>5, <2>6 DEF Ledger!ExactlyOnce
<1>5. CASE ~Ledger!HasUsage(f, cursor[f], h)
  <2>1. events' = events
    BY <1>5 DEF Ledger!Consume
  <2>2. Ledger!WithinCursor'
    <3> SUFFICES ASSUME NEW g \in File
                 PROVE  /\ cursor'[g] <= Len(log[g])
                        /\ \A k \in DOMAIN events[g] :
                              events[g][k].lo < events[g][k].hi /\ events[g][k].hi <= cursor'[g]
      BY <1>3, <2>1 DEF Ledger!WithinCursor
    <3>1. CASE g # f
      BY <1>2, <3>1 DEF Ledger!ExactlyOnce, Ledger!WithinCursor
    <3>2. CASE g = f
      <4>1. \A k \in DOMAIN events[f] : events[f][k].hi <= h
        BY <1>0, <1>9
      <4> QED BY <1>0, <1>3, <1>9, <3>2, <4>1
    <3> QED BY <3>1, <3>2
  <2>3. Ledger!NeverTwice'
    BY <2>1 DEF Ledger!ExactlyOnce, Ledger!NeverTwice
  <2>4. Ledger!NeverLost'
    <3> SUFFICES ASSUME NEW g \in File, NEW i \in 1 .. cursor'[g], log[g][i] = "usage"
                 PROVE  \E k \in DOMAIN events[g] : Ledger!Covers(g, k, i)
      BY <1>3, <2>1 DEF Ledger!NeverLost, Ledger!Covers
    <3>1. i \in 1 .. cursor[g]
      BY <1>0, <1>2, <1>3, <1>5 DEF Ledger!HasUsage
    <3> QED BY <3>1 DEF Ledger!ExactlyOnce, Ledger!NeverLost
  <2> QED BY <1>1, <2>2, <2>3, <2>4 DEF Ledger!ExactlyOnce
<1> QED BY <1>4, <1>5

LEMMA LedgerInductive == Ledger!Spec => []LedgerInv
<1>1. LedgerInv /\ [Ledger!Next]_(Ledger!ledgerVars) => LedgerInv'
  <2> SUFFICES ASSUME LedgerInv, [Ledger!Next]_(Ledger!ledgerVars) PROVE LedgerInv'
    OBVIOUS
  <2>1. CASE Ledger!Next
    BY <2>1, ExtendStep, ConsumeStep DEF Ledger!Next
  <2>2. CASE UNCHANGED Ledger!ledgerVars
    BY <2>2 DEF Ledger!ledgerVars, LedgerInv, Ledger!LedgerTypeOK, Ledger!ExactlyOnce,
                Ledger!WithinCursor, Ledger!NeverTwice, Ledger!NeverLost, Ledger!Covers
  <2> QED BY <2>1, <2>2
<1> QED BY <1>1, LedgerInit, PTL DEF Ledger!Spec

\* Every consumed usage line is recorded in exactly one slice.
THEOREM LedgerExactlyOnce == Ledger!Spec => []Ledger!ExactlyOnce
BY LedgerInductive, PTL DEF LedgerInv

\* Exactly-once capture: what the ledger promises, every execution of the
\* hooks keeps.
THEOREM CaptureExactlyOnce == Spec => []ExactlyOnce
BY Refinement, LedgerExactlyOnce, PTL DEF ImplementsLedger, ExactlyOnce

-----------------------------------------------------------------------------
(***************************************************************************)
(* The mirror: every committed batch is in one place.                      *)
(***************************************************************************)

\* A recorded slice lies behind its file's cursor, ...
SlicesBehind ==
    \A f \in File : \A k \in DOMAIN events[f] :
        events[f][k].file = f /\ events[f][k].hi <= cursor[f]

\* ... a process remembers a batch once, ...
BatchesApart ==
    \A h \in Hook : \A i, j \in DOMAIN batch[h] : batch[h][i] = batch[h][j] => i = j

\* ... and none before it has committed.
NothingYet == \A h \in Hook : pc[h] \in {"idle", "begin", "read", "commit"} => batch[h] = <<>>

\* What is recorded (C) is in the mirror (M), with one process (P) or given up (G).
OnePlace(C, M, P, G) ==
    /\ \A x : x \in C <=> x \in M \/ x \in G \/ \E h \in Hook : x \in P[h]
    /\ \A x \in M : x \notin G
    /\ \A h \in Hook : \A x \in P[h] : x \notin M /\ x \notin G
    /\ \A g, h \in Hook : \A x \in P[h] : x \in P[g] => g = h

Given == {m.slice : m \in missed}
Held == [h \in Hook |-> Pending(h)]

MirrorInv == MirrorAccounted /\ SlicesBehind /\ BatchesApart /\ NothingYet

LEMMA AccountedIsOnePlace ==
    MirrorAccounted <=> OnePlace(Committed, mirror, Held, Given)
BY DEF MirrorAccounted, OnePlace, Held, Given

\* What a step does to the places a batch can be in.
Quiet == UNCHANGED <<cursor, events, mirror, batch, missed>>

Passes(s) ==
    /\ s \in Slice /\ s.lo = cursor[s.file] /\ s.hi > s.lo
    /\ cursor' = [cursor EXCEPT ![s.file] = s.hi]
    /\ UNCHANGED <<mirror, missed>>

Collects(h, s) ==
    /\ Passes(s)
    /\ events' = [events EXCEPT ![s.file] = Append(@, s)]
    /\ batch' = [batch EXCEPT ![h] = Append(@, s)]

GivesUp(h) ==
    /\ \E why \in Reason :
         /\ Miss(h, why)
         /\ why = "central_mode" => mode[h] # "project" \/ batch[h] = <<>>
    /\ batch' = [batch EXCEPT ![h] = <<>>]
    /\ UNCHANGED <<cursor, events, mirror>>

Mirrors(h) ==
    /\ batch[h] # <<>> /\ mode[h] = "project"
    /\ mirror' = mirror \cup {Head(batch[h])}
    /\ batch' = [batch EXCEPT ![h] = Tail(@)]
    /\ UNCHANGED <<cursor, events, missed>>

Loses(h) ==
    /\ batch[h] # <<>>
    /\ missed' = missed \cup {[slice |-> Head(batch[h]), why |-> "mirror_error"]}
    /\ batch' = [batch EXCEPT ![h] = Tail(@)]
    /\ UNCHANGED <<cursor, events, mirror>>

Moves ==
    \/ Quiet
    \/ \E s \in Slice : Passes(s) /\ UNCHANGED <<events, batch>>
    \/ \E h \in Hook : \E s \in Slice : Collects(h, s)
    \/ \E h \in Hook : GivesUp(h) \/ Mirrors(h) \/ Loses(h)

\* A commit passes its slice, and collects it when it holds usage.
LEMMA StoreMoves ==
    ASSUME IndInv, NEW h \in Hook, pc[h] \in {"commit", "sub_commit"},
           slice[h].hi > slice[h].lo, Store(slice[h]), Remember(h, slice[h]),
           UNCHANGED <<mirror, missed>>
    PROVE  Moves
<1> DEFINE s == slice[h]
<1>1. s \in Slice /\ s.lo = cursor[s.file]
  BY DEF IndInv, TypeOK, SliceFresh
<1>2. Passes(s)
  BY <1>1 DEF Passes, Store
<1>3. CASE HasUsage(s.file, s.lo, s.hi)
  BY <1>1, <1>2, <1>3 DEF Moves, Collects, Store, Remember
<1>4. CASE ~HasUsage(s.file, s.lo, s.hi)
  BY <1>1, <1>2, <1>4 DEF Moves, Store, Remember
<1> QED BY <1>3, <1>4

\* Every step is one of these.
LEMMA StepMoves ==
    ASSUME IndInv, NothingYet, [Next]_vars
    PROVE  Moves
<1> USE DEF session, central, storage
<1>1. CASE Write
  BY <1>1 DEF Write, StartLine, FinishLine, process, Moves, Quiet
<1>2. CASE User
  BY <1>2 DEF User, ClearMirrorMeta, SwitchMode, process, Moves, Quiet
<1>3. ASSUME NEW h \in Hook, Fire(h) PROVE Moves
  BY <1>3 DEF Fire, Moves, Quiet
<1>4. ASSUME NEW h \in Hook, MainStep(h) PROVE Moves
  <2>1. CASE Begin(h) \/ ReadMain(h) \/ StampName(h)
    BY <2>1 DEF Begin, ReadMain, StampName, StartSweep, Moves, Quiet
  <2>2. CASE BeginBusy(h) \/ ReadMainError(h)
    <3>1. batch[h] = <<>>
      BY <2>2 DEF BeginBusy, ReadMainError, NothingYet
    <3>2. batch' = batch
      BY <2>2, <3>1 DEF BeginBusy, ReadMainError, Exit, IndInv, TypeOK
    <3> QED BY <2>2, <3>2 DEF BeginBusy, ReadMainError, Moves, Quiet
  <2>3. CASE CommitMain(h)
    <3>1. CASE slice[h].hi > slice[h].lo
      BY <2>3, <3>1, StoreMoves DEF CommitMain
    <3>2. CASE ~(slice[h].hi > slice[h].lo)
      BY <2>3, <3>2 DEF CommitMain, Moves, Quiet
    <3> QED BY <3>1, <3>2
  <2>4. CASE StampNameBusy(h)
    BY <2>4 DEF StampNameBusy, Exit, Moves, GivesUp, Reason
  <2> QED BY <1>4, <2>1, <2>2, <2>3, <2>4 DEF MainStep
<1>5. ASSUME NEW h \in Hook, SweepStep(h) PROVE Moves
  <2>1. ASSUME NEW f \in Sub, SweepSkip(h, f) \/ SweepCheck(h, f) PROVE Moves
    BY <2>1 DEF SweepSkip, SweepCheck, Moves, Quiet
  <2>2. CASE SweepBegin(h) \/ SweepBusy(h) \/ SweepRead(h) \/ SweepDone(h) \/ SweepDeadline(h)
    BY <2>2 DEF SweepBegin, SweepBusy, SweepRead, SweepDone, SweepDeadline, Moves, Quiet
  <2>3. CASE SweepReadError(h)
    BY <2>3 DEF SweepReadError, Exit, Moves, GivesUp, Reason
  <2>4. CASE SweepCommit(h)
    <3>1. CASE slice[h].hi > slice[h].lo
      BY <2>4, <3>1, StoreMoves DEF SweepCommit
    <3>2. CASE ~(slice[h].hi > slice[h].lo)
      BY <2>4, <3>2 DEF SweepCommit, Moves, Quiet
    <3> QED BY <3>1, <3>2
  <2> QED BY <1>5, <2>1, <2>2, <2>3, <2>4 DEF SweepStep
<1>6. ASSUME NEW h \in Hook, MirrorStep(h) PROVE Moves
  <2>1. CASE MirrorWrite(h)
    BY <2>1 DEF MirrorWrite, Mirroring, Moves, Mirrors
  <2>2. CASE MirrorError(h)
    BY <2>2 DEF MirrorError, Mirroring, Moves, Loses
  <2>3. CASE Finish(h)
    BY <2>3 DEF Finish, Mirroring, Exit, Moves, GivesUp, Reason
  <2> QED BY <1>6, <2>1, <2>2, <2>3 DEF MirrorStep
<1>7. ASSUME NEW h \in Hook, Kill(h) PROVE Moves
  BY <1>7 DEF Kill, Exit, Moves, GivesUp, Reason
<1>8. CASE UNCHANGED vars
  BY <1>8 DEF vars, process, Moves, Quiet
<1> QED BY <1>1, <1>2, <1>3, <1>4, <1>5, <1>6, <1>7, <1>8 DEF Next

\* A new slice begins where every recorded one has ended.
LEMMA NewSlice ==
    ASSUME TypeOK, SlicesBehind, NEW s \in Slice, Passes(s)
    PROVE  s \notin Committed
<1> SUFFICES ASSUME s \in Committed PROVE FALSE
  OBVIOUS
<1>1. PICK f \in File : \E k \in DOMAIN events[f] : s = events[f][k]
  BY DEF Committed
<1>2. s.file = f /\ s.hi <= cursor[f]
  BY <1>1 DEF SlicesBehind
<1>3. s.lo \in Nat /\ s.hi \in Nat
  BY DEF Slice, Ledger!Slice
<1> QED BY <1>2, <1>3 DEF Passes

LEMMA BehindStep ==
    ASSUME TypeOK, SlicesBehind, Moves
    PROVE  SlicesBehind'
<1>1. ASSUME UNCHANGED <<cursor, events>> PROVE SlicesBehind'
  BY <1>1 DEF SlicesBehind
<1>2. ASSUME NEW s \in Slice, Passes(s) PROVE
        /\ s.file \in File /\ s.hi \in Nat
        /\ \A f \in File : cursor[f] \in Nat /\ cursor'[f] \in Nat /\ cursor[f] <= cursor'[f]
        /\ cursor'[s.file] = s.hi
  BY <1>2 DEF Passes, TypeOK, Ledger!LedgerTypeOK, Slice, Ledger!Slice
<1>3. ASSUME NEW f \in File, NEW k \in DOMAIN events[f] PROVE events[f][k].hi \in Nat
  <2>1. events[f] \in Seq(Ledger!Slice)
    BY DEF TypeOK, Ledger!LedgerTypeOK
  <2>2. events[f][k] \in Ledger!Slice
    BY <2>1
  <2> QED BY <2>2 DEF Ledger!Slice
<1>4. ASSUME NEW s \in Slice, Passes(s), UNCHANGED events PROVE SlicesBehind'
  BY <1>2, <1>3, <1>4 DEF SlicesBehind
<1>5. ASSUME NEW h \in Hook, NEW s \in Slice, Collects(h, s) PROVE SlicesBehind'
  <2>0. Passes(s)
    BY <1>5 DEF Collects
  <2>1. ASSUME NEW f \in File, NEW k \in DOMAIN events'[f]
        PROVE  \/ events'[f][k] = s /\ f = s.file
               \/ k \in DOMAIN events[f] /\ events'[f][k] = events[f][k]
    BY <1>5 DEF Collects, TypeOK, Ledger!LedgerTypeOK
  <2> SUFFICES ASSUME NEW f \in File, NEW k \in DOMAIN events'[f]
               PROVE  events'[f][k].file = f /\ events'[f][k].hi <= cursor'[f]
    BY DEF SlicesBehind
  <2>2. CASE events'[f][k] = s /\ f = s.file
    BY <1>2, <2>0, <2>2
  <2>3. CASE k \in DOMAIN events[f] /\ events'[f][k] = events[f][k]
    BY <1>2, <1>3, <2>0, <2>3 DEF SlicesBehind
  <2> QED BY <2>1, <2>2, <2>3
<1> QED BY <1>1, <1>4, <1>5 DEF Moves, Quiet, GivesUp, Mirrors, Loses

\* Sequences of distinct elements, by their elements.
LEMMA AppendSet ==
    ASSUME NEW S, NEW q \in Seq(S), NEW x \in S
    PROVE  {Append(q, x)[k] : k \in DOMAIN Append(q, x)} = {q[k] : k \in DOMAIN q} \cup {x}
<1>1. DOMAIN Append(q, x) = DOMAIN q \cup {Len(q) + 1}
  OBVIOUS
<1>2. \A k \in DOMAIN q : Append(q, x)[k] = q[k]
  OBVIOUS
<1>3. Append(q, x)[Len(q) + 1] = x
  OBVIOUS
<1> QED BY <1>1, <1>2, <1>3

LEMMA TailSet ==
    ASSUME NEW S, NEW q \in Seq(S), q # <<>>,
           \A i, j \in DOMAIN q : q[i] = q[j] => i = j
    PROVE  /\ {Tail(q)[k] : k \in DOMAIN Tail(q)} = {q[k] : k \in DOMAIN q} \ {Head(q)}
           /\ Head(q) \in {q[k] : k \in DOMAIN q}
           /\ \A i, j \in DOMAIN Tail(q) : Tail(q)[i] = Tail(q)[j] => i = j
<1>1. /\ 1 \in DOMAIN q /\ Head(q) = q[1]
      /\ DOMAIN Tail(q) = 1 .. Len(q) - 1 /\ DOMAIN q = 1 .. Len(q) /\ Len(q) \in Nat
      /\ \A k \in 1 .. Len(q) - 1 : Tail(q)[k] = q[k + 1]
  OBVIOUS
<1>2. \A k \in DOMAIN q : k = 1 \/ (k - 1 \in 1 .. Len(q) - 1 /\ q[k] = Tail(q)[k - 1])
  BY <1>1
<1>3. \A k \in DOMAIN Tail(q) : k + 1 \in DOMAIN q /\ Tail(q)[k] = q[k + 1] /\ k + 1 # 1
  BY <1>1
<1>4. {Tail(q)[k] : k \in DOMAIN Tail(q)} \subseteq {q[k] : k \in DOMAIN q} \ {Head(q)}
  <2> SUFFICES ASSUME NEW k \in DOMAIN Tail(q)
               PROVE  Tail(q)[k] \in {q[j] : j \in DOMAIN q} /\ Tail(q)[k] # Head(q)
    OBVIOUS
  <2>1. k + 1 \in DOMAIN q /\ Tail(q)[k] = q[k + 1] /\ k + 1 # 1
    BY <1>3
  <2> QED BY <1>1, <2>1
<1>5. {q[k] : k \in DOMAIN q} \ {Head(q)} \subseteq {Tail(q)[k] : k \in DOMAIN Tail(q)}
  <2> SUFFICES ASSUME NEW k \in DOMAIN q, q[k] # Head(q)
               PROVE  q[k] \in {Tail(q)[j] : j \in DOMAIN Tail(q)}
    OBVIOUS
  <2>1. k - 1 \in DOMAIN Tail(q) /\ q[k] = Tail(q)[k - 1]
    BY <1>1, <1>2
  <2> QED BY <2>1
<1>6. ASSUME NEW i \in DOMAIN Tail(q), NEW j \in DOMAIN Tail(q), Tail(q)[i] = Tail(q)[j] PROVE i = j
  <2>1. i + 1 = j + 1
    BY <1>3, <1>6
  <2> QED BY <1>1, <2>1
<1> QED BY <1>1, <1>4, <1>5, <1>6

LEMMA ApartStep ==
    ASSUME TypeOK, MirrorAccounted, SlicesBehind, BatchesApart, Moves
    PROVE  BatchesApart'
<1>1. ASSUME UNCHANGED batch PROVE BatchesApart'
  BY <1>1 DEF BatchesApart
<1>2. ASSUME NEW h \in Hook, NEW s \in Slice, Collects(h, s) PROVE BatchesApart'
  <2>1. s \notin Committed
    BY <1>2, NewSlice DEF Collects
  <2>2. \A k \in DOMAIN batch[h] : batch[h][k] \in Committed
    BY DEF MirrorAccounted, Pending
  <2>3. batch[h] \in Seq(Slice) /\ batch'[h] = Append(batch[h], s)
    BY <1>2 DEF Collects, TypeOK
  <2>4. /\ DOMAIN batch'[h] = DOMAIN batch[h] \cup {Len(batch[h]) + 1}
        /\ \A k \in DOMAIN batch[h] : batch'[h][k] = batch[h][k]
        /\ batch'[h][Len(batch[h]) + 1] = s
    BY <2>3
  <2>5. \A g \in Hook \ {h} : batch'[g] = batch[g]
    BY <1>2 DEF Collects, TypeOK
  <2>6. \A i, j \in DOMAIN batch'[h] : batch'[h][i] = batch'[h][j] => i = j
    BY <2>1, <2>2, <2>4 DEF BatchesApart
  <2> QED BY <2>5, <2>6 DEF BatchesApart
<1>3. ASSUME NEW h \in Hook, GivesUp(h) PROVE BatchesApart'
  BY <1>3 DEF GivesUp, BatchesApart, TypeOK
<1>4. ASSUME NEW h \in Hook, Mirrors(h) \/ Loses(h) PROVE BatchesApart'
  <2>1. batch[h] \in Seq(Slice) /\ batch[h] # <<>> /\ batch'[h] = Tail(batch[h])
    BY <1>4 DEF Mirrors, Loses, TypeOK
  <2>2. \A i, j \in DOMAIN batch'[h] : batch'[h][i] = batch'[h][j] => i = j
    BY <2>1, TailSet DEF BatchesApart
  <2>3. \A g \in Hook \ {h} : batch'[g] = batch[g]
    BY <1>4 DEF Mirrors, Loses, TypeOK
  <2> QED BY <2>2, <2>3 DEF BatchesApart
<1> QED BY <1>1, <1>2, <1>3, <1>4 DEF Moves, Quiet

\* How the places change, without sequences and files.
LEMMA PlaceStep ==
    ASSUME NEW C, NEW M, NEW P, NEW G, NEW D, NEW N, NEW Q, NEW H,
           OnePlace(C, M, P, G), NEW h \in Hook,
           \A g \in Hook \ {h} : Q[g] = P[g],
           \/ /\ \E x : x \notin C /\ D = C \cup {x} /\ Q[h] = P[h] \cup {x}
              /\ N = M /\ H = G
           \/ D = C /\ Q[h] = {} /\ N = M /\ H = G \cup P[h]
           \/ \E x \in P[h] : D = C /\ Q[h] = P[h] \ {x} /\ N = M \cup {x} /\ H = G
           \/ \E x \in P[h] : D = C /\ Q[h] = P[h] \ {x} /\ N = M /\ H = G \cup {x}
    PROVE  OnePlace(D, N, Q, H)
<1>1. CASE /\ \E x : x \notin C /\ D = C \cup {x} /\ Q[h] = P[h] \cup {x}
           /\ N = M /\ H = G
  BY <1>1 DEF OnePlace
<1>2. CASE D = C /\ Q[h] = {} /\ N = M /\ H = G \cup P[h]
  BY <1>2 DEF OnePlace
<1>3. CASE \E x \in P[h] : D = C /\ Q[h] = P[h] \ {x} /\ N = M \cup {x} /\ H = G
  BY <1>3 DEF OnePlace
<1>4. CASE \E x \in P[h] : D = C /\ Q[h] = P[h] \ {x} /\ N = M /\ H = G \cup {x}
  BY <1>4 DEF OnePlace
<1> QED BY <1>1, <1>2, <1>3, <1>4

LEMMA AccountedStep ==
    ASSUME TypeOK, MirrorAccounted, SlicesBehind, BatchesApart, Moves
    PROVE  MirrorAccounted'
<1>0. OnePlace(Committed, mirror, Held, Given)
  BY AccountedIsOnePlace
<1> SUFFICES OnePlace(Committed', mirror', Held', Given')
  BY DEF MirrorAccounted, OnePlace, Held, Given
<1>1. ASSUME UNCHANGED <<events, batch, mirror, missed>>
      PROVE  OnePlace(Committed', mirror', Held', Given')
  <2>1. Committed' = Committed /\ Held' = Held /\ Given' = Given
    BY <1>1 DEF Committed, Held, Pending, Given
  <2> QED BY <1>0, <1>1, <2>1
<1>2. ASSUME NEW h \in Hook, UNCHANGED events PROVE Committed' = Committed
  BY <1>2 DEF Committed
<1>3. ASSUME NEW h \in Hook, \A g \in Hook \ {h} : batch'[g] = batch[g]
      PROVE  \A g \in Hook \ {h} : Held'[g] = Held[g]
  BY <1>3 DEF Held, Pending
<1>4. ASSUME NEW h \in Hook, NEW s \in Slice, Collects(h, s)
      PROVE  OnePlace(Committed', mirror', Held', Given')
  <2>1. s \notin Committed
    BY <1>4, NewSlice DEF Collects
  <2>2. Committed' = Committed \cup {s}
    <3>1. s.file \in File
      BY DEF Slice, Ledger!Slice
    <3>2. \A f \in File : events[f] \in Seq(Slice)
      BY DEF TypeOK, Ledger!LedgerTypeOK, Slice
    <3>3. \A f \in File : {events'[f][k] : k \in DOMAIN events'[f]} =
            IF f = s.file THEN {events[f][k] : k \in DOMAIN events[f]} \cup {s}
                          ELSE {events[f][k] : k \in DOMAIN events[f]}
      <4>1. events' = [events EXCEPT ![s.file] = Append(@, s)] /\ DOMAIN events = File
        BY <1>4 DEF Collects, TypeOK, Ledger!LedgerTypeOK
      <4>2. events'[s.file] = Append(events[s.file], s)
        BY <3>1, <4>1
      <4>3. {events'[s.file][k] : k \in DOMAIN events'[s.file]} =
              {events[s.file][k] : k \in DOMAIN events[s.file]} \cup {s}
        <5> DEFINE q == events[s.file]
        <5>1. q \in Seq(Slice)
          BY <3>1, <3>2
        <5> HIDE DEF q
        <5>2. {Append(q, s)[k] : k \in DOMAIN Append(q, s)} = {q[k] : k \in DOMAIN q} \cup {s}
          BY <5>1, AppendSet
        <5> QED BY <4>2, <5>2 DEF q
      <4>4. \A f \in File \ {s.file} : events'[f] = events[f]
        BY <4>1
      <4>5. ASSUME NEW f \in File
            PROVE  {events'[f][k] : k \in DOMAIN events'[f]} =
                     IF f = s.file THEN {events[f][k] : k \in DOMAIN events[f]} \cup {s}
                                   ELSE {events[f][k] : k \in DOMAIN events[f]}
        <5>1. CASE f = s.file
          BY <4>3, <5>1
        <5>2. CASE f # s.file
          <6>1. events'[f] = events[f]
            BY <4>4, <5>2
          <6> QED BY <5>2, <6>1
        <5> QED BY <5>1, <5>2
      <4> QED BY <4>5
    <3> QED BY <3>1, <3>3 DEF Committed
  <2>3. Held'[h] = Held[h] \cup {s}
    <3>1. batch[h] \in Seq(Slice) /\ batch'[h] = Append(batch[h], s)
      BY <1>4 DEF Collects, TypeOK
    <3>2. {batch'[h][k] : k \in DOMAIN batch'[h]} = {batch[h][k] : k \in DOMAIN batch[h]} \cup {s}
      BY <3>1, AppendSet
    <3> QED BY <3>2 DEF Held, Pending
  <2>4. \A g \in Hook \ {h} : Held'[g] = Held[g]
    BY <1>3, <1>4 DEF Collects, TypeOK
  <2>5. mirror' = mirror /\ Given' = Given
    BY <1>4 DEF Collects, Passes, Given
  <2> QED BY <1>0, <2>1, <2>2, <2>3, <2>4, <2>5, PlaceStep
<1>5. ASSUME NEW h \in Hook, GivesUp(h)
      PROVE  OnePlace(Committed', mirror', Held', Given')
  <2>1. Held'[h] = {} /\ \A g \in Hook \ {h} : Held'[g] = Held[g]
    BY <1>3, <1>5 DEF GivesUp, TypeOK, Held, Pending
  <2>2. Given' = Given \cup Held[h]
    <3>1. PICK why \in Reason : missed' = missed \cup [slice : Held[h], why : {why}]
      BY <1>5 DEF GivesUp, Miss, Held
    <3>2. \A x \in Held[h] : [slice |-> x, why |-> why] \in missed'
                              /\ [slice |-> x, why |-> why].slice = x
      BY <3>1
    <3>3. Given' \subseteq Given \cup Held[h]
      BY <3>1 DEF Given
    <3>4. Given \cup Held[h] \subseteq Given'
      BY <3>1, <3>2 DEF Given
    <3> QED BY <3>3, <3>4
  <2> QED BY <1>0, <1>2, <1>5, <2>1, <2>2, PlaceStep DEF GivesUp
<1>6. ASSUME NEW h \in Hook, Mirrors(h) \/ Loses(h)
      PROVE  OnePlace(Committed', mirror', Held', Given')
  <2>1. batch[h] \in Seq(Slice) /\ batch[h] # <<>> /\ batch'[h] = Tail(batch[h])
    BY <1>6 DEF Mirrors, Loses, TypeOK
  <2>2. Held'[h] = Held[h] \ {Head(batch[h])} /\ Head(batch[h]) \in Held[h]
    <3>1. \A i, j \in DOMAIN batch[h] : batch[h][i] = batch[h][j] => i = j
      BY DEF BatchesApart
    <3>2. /\ {Tail(batch[h])[k] : k \in DOMAIN Tail(batch[h])}
               = {batch[h][k] : k \in DOMAIN batch[h]} \ {Head(batch[h])}
          /\ Head(batch[h]) \in {batch[h][k] : k \in DOMAIN batch[h]}
      BY <2>1, <3>1, TailSet
    <3>3. Held[h] = {batch[h][k] : k \in DOMAIN batch[h]}
      BY DEF Held, Pending
    <3>4. Held'[h] = {batch'[h][k] : k \in DOMAIN batch'[h]}
      BY DEF Held, Pending
    <3> QED BY <2>1, <3>2, <3>3, <3>4
  <2>3. \A g \in Hook \ {h} : Held'[g] = Held[g]
    BY <1>3, <1>6 DEF Mirrors, Loses, TypeOK
  <2>4. \/ mirror' = mirror \cup {Head(batch[h])} /\ Given' = Given
        \/ mirror' = mirror /\ Given' = Given \cup {Head(batch[h])}
    <3>1. ASSUME Mirrors(h)
          PROVE  mirror' = mirror \cup {Head(batch[h])} /\ Given' = Given
      BY <3>1 DEF Mirrors, Given
    <3>2. ASSUME Loses(h)
          PROVE  mirror' = mirror /\ Given' = Given \cup {Head(batch[h])}
      <4> DEFINE lost == [slice |-> Head(batch[h]), why |-> "mirror_error"]
      <4>1. mirror' = mirror /\ missed' = missed \cup {lost}
        BY <3>2 DEF Loses
      <4>2. lost.slice = Head(batch[h])
        OBVIOUS
      <4> HIDE DEF lost
      <4> QED BY <4>1, <4>2 DEF Given
    <3> QED BY <1>6, <3>1, <3>2
  <2>5. Committed' = Committed
    BY <1>2, <1>6 DEF Mirrors, Loses
  <2> QED BY <1>0, <2>2, <2>3, <2>4, <2>5, PlaceStep
<1> QED BY <1>1, <1>4, <1>5, <1>6 DEF Moves, Quiet, Passes

\* A process commits before it remembers, and forgets when it ends.
LEMMA NothingYetStep ==
    ASSUME IndInv, NothingYet, [Next]_vars
    PROVE  NothingYet'
<1> USE DEF IndInv, TypeOK, NothingYet, Goto
<1>1. CASE Write \/ User \/ UNCHANGED vars
  BY <1>1 DEF Write, StartLine, FinishLine, User, ClearMirrorMeta, SwitchMode, vars, process
<1>2. ASSUME NEW h \in Hook, Fire(h) PROVE NothingYet'
  BY <1>2 DEF Fire
<1>3. ASSUME NEW h \in Hook, MainStep(h) PROVE NothingYet'
  <2>1. CASE CommitMain(h)
    <3>1. pc' = [pc EXCEPT ![h] = "name"] /\ \A g \in Hook \ {h} : batch'[g] = batch[g]
      BY <2>1 DEF CommitMain, Remember
    <3> QED BY <3>1
  <2>2. CASE ~CommitMain(h)
    BY <1>3, <2>2 DEF MainStep, Begin, BeginBusy, ReadMain, ReadMainError, StampName, StartSweep,
                      StampNameBusy, Exit
  <2> QED BY <2>1, <2>2
<1>4. ASSUME NEW h \in Hook, SweepStep(h) PROVE NothingYet'
  <2>1. CASE SweepCommit(h)
    <3>1. pc' = [pc EXCEPT ![h] = "sweep"] /\ \A g \in Hook \ {h} : batch'[g] = batch[g]
      BY <2>1 DEF SweepCommit, Remember
    <3> QED BY <3>1
  <2>2. CASE ~SweepCommit(h)
    BY <1>4, <2>2 DEF SweepStep, SweepSkip, SweepCheck, SweepBegin, SweepBusy, SweepRead,
                      SweepReadError, SweepDone, SweepDeadline, Exit
  <2> QED BY <2>1, <2>2
<1>5. ASSUME NEW h \in Hook, MirrorStep(h) PROVE NothingYet'
  BY <1>5 DEF MirrorStep, MirrorWrite, MirrorError, Mirroring, Finish, Exit
<1>6. ASSUME NEW h \in Hook, Kill(h) PROVE NothingYet'
  BY <1>6 DEF Kill, Exit
<1> QED BY <1>1, <1>2, <1>3, <1>4, <1>5, <1>6 DEF Next

LEMMA MirrorInvariant == Spec => [](IndInv /\ MirrorInv)
<1>1. Init => MirrorInv
  BY DEF Init, Ledger!Init, MirrorInv, MirrorAccounted, SlicesBehind, BatchesApart, NothingYet,
         Committed, Pending
<1>2. IndInv /\ MirrorInv /\ [Next]_vars => MirrorInv'
  BY StepMoves, BehindStep, ApartStep, AccountedStep, NothingYetStep DEF MirrorInv, IndInv
<1> QED BY <1>1, <1>2, InductiveInvariant, PTL DEF Spec

\* Every committed batch is mirrored once, pending in one hook, or given up for
\* a stated reason (main, mirror_events).
THEOREM CaptureMirrorAccounted == Spec => []MirrorAccounted
BY MirrorInvariant, PTL DEF MirrorInv

\* The storage mode a firing has read decides what becomes of its batches: no
\* other process touches them, and it mirrors them in project mode only.
LEMMA ModeStep ==
    ASSUME TypeOK, MirrorAccounted, Moves, NEW h \in Hook
    PROVE  /\ mode[h] = "project" =>
                \A s \in Pending(h) : [slice |-> s, why |-> "central_mode"] \notin missed'
           /\ mode[h] = "central" => \A s \in Pending(h) : s \notin mirror'
<1>1. ASSUME NEW s \in Pending(h)
      PROVE  s \notin mirror /\ \A why : [slice |-> s, why |-> why] \notin missed
  BY DEF MirrorAccounted
<1>2. \A g \in Hook : g # h => Pending(g) \cap Pending(h) = {}
  BY DEF MirrorAccounted
<1>3. CASE UNCHANGED <<mirror, missed>>
  BY <1>1, <1>3
<1>4. ASSUME NEW g \in Hook, GivesUp(g)
      PROVE  /\ mode[h] = "project" =>
                  \A s \in Pending(h) : [slice |-> s, why |-> "central_mode"] \notin missed'
             /\ mode[h] = "central" => \A s \in Pending(h) : s \notin mirror'
  <2>1. PICK why \in Reason : /\ missed' = missed \cup [slice : Pending(g), why : {why}]
                              /\ why = "central_mode" => mode[g] # "project" \/ batch[g] = <<>>
    BY <1>4 DEF GivesUp, Miss
  <2>2. batch[g] = <<>> => Pending(g) = {}
    BY DEF Pending
  <2>3. ASSUME mode[h] = "project", NEW s \in Pending(h),
               [slice |-> s, why |-> "central_mode"] \in [slice : Pending(g), why : {why}]
        PROVE  FALSE
    BY <1>2, <2>1, <2>2, <2>3
  <2> QED BY <1>1, <1>4, <2>1, <2>3 DEF GivesUp
<1>5. ASSUME NEW g \in Hook, Mirrors(g)
      PROVE  /\ missed' = missed
             /\ mode[h] = "central" => \A s \in Pending(h) : s \notin mirror'
  <2>1. batch[g] # <<>> => Head(batch[g]) \in Pending(g)
    <3>1. batch[g] \in Seq(Slice)
      BY DEF TypeOK
    <3> QED BY <3>1 DEF Pending
  <2> QED BY <1>1, <1>2, <1>5, <2>1 DEF Mirrors
<1>6. ASSUME NEW g \in Hook, Loses(g)
      PROVE  mirror' = mirror /\ \A s : [slice |-> s, why |-> "central_mode"] \in missed' =>
                                       [slice |-> s, why |-> "central_mode"] \in missed
  BY <1>6 DEF Loses
<1> QED BY <1>1, <1>3, <1>4, <1>5, <1>6 DEF Moves, Quiet, Passes, Collects

\* One reading of the marker decides for a whole firing (read_storage_mode).
THEOREM CaptureModeSnapshot == Spec => ModeSnapshot
<1>1. IndInv /\ MirrorInv /\ [Next]_vars =>
        [\A h \in Hook :
          /\ mode[h] = "project" =>
                 \A s \in Pending(h) : [slice |-> s, why |-> "central_mode"] \notin missed'
          /\ mode[h] = "central" => \A s \in Pending(h) : s \notin mirror']_vars
  BY StepMoves, ModeStep DEF MirrorInv, IndInv
<1> QED BY <1>1, MirrorInvariant, PTL DEF Spec, ModeSnapshot
=============================================================================
