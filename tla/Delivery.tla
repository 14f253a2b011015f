------------------------------ MODULE Delivery ------------------------------
(***************************************************************************)
(* What the remote write-through promises, without processes, requests or  *)
(* rows: a payload is taken only when it is delivered or queued in the     *)
(* same step, and leaves the queue only once it is delivered.  It may be   *)
(* delivered more than once.  Outbox is shown to implement this.           *)
(***************************************************************************)
CONSTANT Payload

VARIABLES
    taken,          \* payloads whose write_events has returned
    pending,        \* payloads in the queue
    delivered,      \* payloads whose event rows the remote holds
    excused         \* payloads whose place in the queue is not safe

deliveryVars == <<taken, pending, delivered, excused>>

Init == taken = {} /\ pending = {} /\ delivered = {} /\ excused = {}

\* A name is given to a new payload, once nothing is left to do for the old.
Begin(p) ==
    /\ p \notin pending
    /\ p \in taken => p \in delivered
    /\ taken' = taken \ {p}
    /\ delivered' = delivered \ {p}
    /\ excused' = excused \ {p}
    /\ UNCHANGED pending

\* The payload reaches the remote; the writer may be told so or not.
Deliver(p) ==
    /\ delivered' = delivered \cup {p}
    /\ taken' \in {taken, taken \cup {p}}
    /\ UNCHANGED <<pending, excused>>

\* The payload is kept for later.
Keep(p) ==
    /\ pending' = pending \cup {p}
    /\ taken' = taken \cup {p}
    /\ excused' \in {excused, excused \cup {p}}
    /\ UNCHANGED delivered

\* A payload leaves the queue.
Drop(p) ==
    /\ p \in delivered \cup excused
    /\ pending' = pending \ {p}
    /\ UNCHANGED <<taken, delivered, excused>>

Next == \E p \in Payload : Begin(p) \/ Deliver(p) \/ Keep(p) \/ Drop(p)

Spec == Init /\ [][Next]_deliveryVars
=============================================================================
