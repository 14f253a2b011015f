---------------------------- MODULE UsageSlices ----------------------------
(***************************************************************************)
(* What one capture adds up (aggregate in scripts/capture.py), and how the *)
(* sums of successive captures relate to the transcript as a whole.        *)
(*                                                                         *)
(* An API call is written as several transcript lines with one message id, *)
(* each with a snapshot of the call's usage so far.  A firing sees the     *)
(* slice of lines between the cursor and the end of the file and counts    *)
(* usage once per id within that slice.  Which process consumes a slice,   *)
(* and that slices never overlap, is the business of Capture.              *)
(***************************************************************************)
EXTENDS Integers, Sequences, FiniteSets, FiniteSetsExt

CONSTANTS
    MessageId,      \* ids of API calls
    NoId,           \* a usage line without an id
    Group,          \* (model, sidechain) pairs: one event row each
    MaxTokens,      \* bound: size of a usage snapshot
    MaxUsageLines        \* bound: lines of the transcript

ASSUME SlicesAssumption ==
    /\ NoId \notin MessageId
    /\ MaxTokens \in Nat /\ MaxUsageLines \in Nat

VARIABLES
    lines,          \* the transcript: usage lines with id, group and snapshot
    offset,         \* the cursor
    cuts,           \* history: where captures ended
    total,          \* per group: tokens and calls over all its event rows
    row             \* per group: context size in its latest event row

sliceVars == <<lines, offset, cuts, total, row>>

UsageLine == [id : MessageId \cup {NoId}, group : Group, tok : 0 .. MaxTokens]
NoRow == -1

-----------------------------------------------------------------------------
(***************************************************************************)
(* aggregate over the lines of a slice, given as a set S of line numbers.  *)
(***************************************************************************)

InGroup(S, g) == {i \in S : lines[i].group = g}

SameCall(i, j) == i = j \/ (lines[i].id = lines[j].id /\ lines[i].id # NoId)

\* Mutants of Kept: the first snapshot of a call wins; every line counts.
KeptFirst(S, g) ==
    {i \in InGroup(S, g) : \A j \in InGroup(S, g) : SameCall(i, j) => i <= j}
KeptEveryLine(S, g) == InGroup(S, g)

\* The lines that count: of each call the last one in the slice, and every
\* line without an id.
Kept(S, g) ==
    {i \in InGroup(S, g) : \A j \in InGroup(S, g) : SameCall(i, j) => j <= i}

Tokens(S, g) == MapThenSumSet(LAMBDA i : lines[i].tok, Kept(S, g))
Calls(S, g) == Cardinality(Kept(S, g))

\* When a call entered the accumulator: its id keeps the place of its first
\* line while later lines replace the snapshot.
Entered(S, g, i) == CHOOSE j \in InGroup(S, g) :
    SameCall(i, j) /\ \A k \in InGroup(S, g) : SameCall(i, k) => j <= k

\* Mutant of ListedLast: a repeated id moves to the end of the list.
ListedLastMoved(S, g, i) ==
    i \in Kept(S, g) /\ \A j \in Kept(S, g) : j <= i

\* The usages are listed ids first, in the order they entered, then the lines
\* without an id; the last of the list gives the context size.
ListedLast(S, g, i) ==
    LET K == Kept(S, g)
        plain == {j \in K : lines[j].id = NoId}
    IN  IF plain # {}
        THEN i = Max(plain)
        ELSE i \in K /\ \A j \in K : Entered(S, g, j) <= Entered(S, g, i)

Context(S, g) == lines[CHOOSE i \in S : ListedLast(S, g, i)].tok

-----------------------------------------------------------------------------
SlicesInit ==
    /\ lines = <<>>
    /\ offset = 0
    /\ cuts = {}
    /\ total = [g \in Group |-> [tok |-> 0, calls |-> 0]]
    /\ row = [g \in Group |-> NoRow]

\* The harness writes a line: snapshots of a call are cumulative, and a call
\* has one model and one side.
WriteUsage(l) ==
    /\ Len(lines) < MaxUsageLines
    /\ \A i \in DOMAIN lines :
           lines[i].id = l.id /\ l.id # NoId =>
               lines[i].group = l.group /\ lines[i].tok <= l.tok
    /\ lines' = Append(lines, l)
    /\ UNCHANGED <<offset, cuts, total, row>>

\* One firing: an event row per group that has usage in the slice.
CaptureUsage ==
    LET S == offset + 1 .. Len(lines) IN
    /\ S # {}
    /\ offset' = Len(lines)
    /\ cuts' = cuts \cup {Len(lines)}
    /\ total' = [g \in Group |-> [tok   |-> total[g].tok + Tokens(S, g),
                                  calls |-> total[g].calls + Calls(S, g)]]
    /\ row' = [g \in Group |-> IF InGroup(S, g) = {} THEN row[g] ELSE Context(S, g)]
    /\ UNCHANGED lines

SlicesNext == CaptureUsage \/ \E l \in UsageLine : WriteUsage(l)

SlicesSpec == SlicesInit /\ [][SlicesNext]_sliceVars

-----------------------------------------------------------------------------
(***************************************************************************)
(* Properties.  The reference is the usage of the consumed lines taken as  *)
(* a whole: the final snapshot of each call, whatever the slices were.     *)
(***************************************************************************)

Consumed == 1 .. offset
FinalOf(g) == {i \in Consumed : /\ lines[i].group = g
                                /\ \A j \in Consumed : lines[j].id = lines[i].id /\ j > i
                                                       => lines[i].id = NoId}
TrueTokens(g) == MapThenSumSet(LAMBDA i : lines[i].tok, FinalOf(g))

\* Did a capture end between two lines of one call?
Straddled == \E c \in cuts : \E i \in 1 .. c, j \in c + 1 .. offset :
                 lines[i].id = lines[j].id /\ lines[i].id # NoId

\* However the transcript is sliced, captured usage never falls short of the
\* calls' final snapshots.
NeverUnderCounted ==
    \A g \in Group : /\ total[g].tok >= TrueTokens(g)
                     /\ total[g].calls >= Cardinality(FinalOf(g))

\* Unless a capture ended inside a call, the sums over the slices are exactly
\* the usage of the transcript: slicing between calls loses and adds nothing.
ExactBetweenCalls ==
    ~Straddled =>
        \A g \in Group : /\ total[g].tok = TrueTokens(g)
                         /\ total[g].calls = Cardinality(FinalOf(g))

\* Where calls interleave, the context size of an event row is the final
\* snapshot of the call that STARTED last in the slice ("the LAST call's input
\* side is the context size when the slice ended"; every line has an id).
ContextOfLastCall ==
    [][\A g \in Group :
          LET S == {i \in offset + 1 .. offset' : lines[i].group = g}
              started == {i \in S : \A j \in S : lines[j].id = lines[i].id => i <= j}
              call == {i \in S : lines[i].id = lines[Max(started)].id}
          IN  S # {} /\ (\A i \in S : lines[i].id # NoId) => row'[g] = lines[Max(call)].tok]_sliceVars

SlicesTypeOK ==
    /\ lines \in Seq(UsageLine) /\ offset \in 0 .. Len(lines)
    /\ total \in [Group -> [tok : Nat, calls : Nat]]

\* A call has one model and one side.
OneGroup ==
    \A i, j \in DOMAIN lines :
        lines[i].id = lines[j].id /\ lines[i].id # NoId => lines[i].group = lines[j].group

\* Captures end where the cursor was put, the last of them where it is.
CutsBehind == cuts \subseteq 1 .. offset /\ (offset # 0 => offset \in cuts)

SlicesIndInv == SlicesTypeOK /\ OneGroup /\ CutsBehind /\ NeverUnderCounted /\ ExactBetweenCalls
=============================================================================
