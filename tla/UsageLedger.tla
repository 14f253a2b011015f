---------------------------- MODULE UsageLedger ----------------------------
(***************************************************************************)
(* What usage capture promises, without processes, locks or retries: each  *)
(* transcript is an append-only log that is consumed in consecutive        *)
(* slices, each slice taken in ONE step that moves the read cursor over it *)
(* and records it.  Capture is shown to implement this specification.      *)
(***************************************************************************)
EXTENDS Integers, Sequences

CONSTANT File                \* the transcript files

VARIABLES
    log,                     \* log[f]: the complete lines of transcript f
    cursor,                  \* cursor[f]: how many of them are consumed
    events                   \* events[f]: the recorded slices of f, in order

ledgerVars == <<log, cursor, events>>

\* A line either carries usage (an assistant line) or it does not.
Line == {"usage", "plain"}

\* The lines lo+1 .. hi of file f.
Slice == [file : File, lo : Nat, hi : Nat]

HasUsage(f, l, h) == \E i \in l + 1 .. h : log[f][i] = "usage"

LedgerTypeOK ==
    /\ log \in [File -> Seq(Line)]
    /\ cursor \in [File -> Nat]
    /\ events \in [File -> Seq(Slice)]

Init ==
    /\ log = [f \in File |-> <<>>]
    /\ cursor = [f \in File |-> 0]
    /\ events = [f \in File |-> <<>>]

\* The session appends a line.
Extend(f, l) ==
    /\ log' = [log EXCEPT ![f] = Append(@, l)]
    /\ UNCHANGED <<cursor, events>>

\* The lines after the cursor, up to some h, are consumed at once; a slice
\* without usage moves the cursor and records nothing.
Consume(f, h) ==
    /\ cursor' = [cursor EXCEPT ![f] = h]
    /\ events' = IF HasUsage(f, cursor[f], h)
                 THEN [events EXCEPT ![f] =
                         Append(@, [file |-> f, lo |-> cursor[f], hi |-> h])]
                 ELSE events
    /\ UNCHANGED log

Next ==
    \E f \in File :
        \/ \E l \in Line : Extend(f, l)
        \/ \E h \in cursor[f] + 1 .. Len(log[f]) : Consume(f, h)

Spec == Init /\ [][Next]_ledgerVars

(***************************************************************************)
(* What follows from it.                                                   *)
(***************************************************************************)

Covers(f, k, i) == events[f][k].lo < i /\ i <= events[f][k].hi

\* No recorded slice reaches past the cursor, and the cursor never passes
\* the last complete line.
WithinCursor ==
    \A f \in File :
        /\ cursor[f] <= Len(log[f])
        /\ \A k \in DOMAIN events[f] :
               events[f][k].lo < events[f][k].hi /\ events[f][k].hi <= cursor[f]

\* No line is recorded twice: recorded slices of a file are in order and
\* disjoint.
NeverTwice ==
    \A f \in File : \A j, k \in DOMAIN events[f] :
        j < k => events[f][j].hi <= events[f][k].lo

\* No consumed usage line is lost: each one lies in a recorded slice.
NeverLost ==
    \A f \in File : \A i \in 1 .. cursor[f] :
        log[f][i] = "usage" => \E k \in DOMAIN events[f] : Covers(f, k, i)

\* Exactly-once: the usage lines behind the cursor, and only they, are
\* recorded, each in exactly one slice.
ExactlyOnce == WithinCursor /\ NeverTwice /\ NeverLost
=============================================================================
