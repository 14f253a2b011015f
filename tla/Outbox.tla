------------------------------- MODULE Outbox -------------------------------
(***************************************************************************)
(* The remote write-through (scripts/supabase_backend.py).  A capture      *)
(* process that has committed centrally pushes each event batch to the     *)
(* remote database as one payload: a series of upserts, parents before     *)
(* children, under the user's login.  A payload that cannot be pushed is   *)
(* queued in the local outbox, which every later payload first tries to    *)
(* drain.  Requests and replies get lost, the outbox file may be           *)
(* unavailable, processes are killed, and the user logs in and registers   *)
(* an identity meanwhile.                                                  *)
(***************************************************************************)
EXTENDS Integers, FiniteSets

CONSTANTS
    Hook,               \* concurrent capture processes
    Payload,            \* names of payloads; see Fresh for their reuse
    DrainBatch,         \* OUTBOX_DRAIN_BATCH (50): rows re-sent per payload
    MaxItems,           \* bound: payloads of one firing
    InitialIdentity,    \* what settings.json holds at the start
    MaxFaults,          \* bound: lost requests or replies, outbox errors
    MaxKills,           \* bound: processes killed part-way
    MaxUserSteps        \* bound: logins and registrations

Owner == {"local", "auth"}
Identity == {"none"} \cup Owner     \* "auth": the login's uid is on file too

ASSUME OutboxAssumption ==
    /\ DrainBatch \in Nat \ {0} /\ MaxItems \in Nat \ {0}
    /\ InitialIdentity \in Identity
    /\ MaxFaults \in Nat /\ MaxKills \in Nat /\ MaxUserSteps \in Nat

VARIABLES
    identity,           \* settings.json: the user block
    credentials,        \* is an Auth session on file?
    loggingIn,          \* session stored, identity not yet reconciled
    outbox,             \* the queued rows
    remote,             \* the owner's parent tables that hold their row
    delivered,          \* payloads whose event rows the remote holds
    pc, ident, left, own, backlog, row, at, synced,     \* of each process
    accepted,           \* history: payloads whose write_events returned
    exposed,            \* history: queued under an id some process still holds
    faults, kills, userSteps

user == <<identity, credentials, loggingIn>>
process == <<pc, ident, left, own, backlog, row, at, synced>>
history == <<accepted, exposed>>
bounds == <<faults, kills, userSteps>>
vars == <<user, outbox, remote, delivered, process, history, bounds>>

Load == [p : Payload, owner : Owner]
Row == [id : Nat, p : Payload, owner : Owner]

Parent == {"users", "projects", "models", "sessions"}
Request == {"token", "events"} \cup Parent
PC == {"idle", "write", "drain", "rows", "resend", "delete", "send", "enqueue"}

NoLoad == [p |-> "none", owner |-> "none"]
NoRow == [id |-> 0, p |-> "none", owner |-> "none"]

TypeOK ==
    /\ identity \in Identity
    /\ credentials \in BOOLEAN /\ loggingIn \in BOOLEAN
    /\ outbox \in SUBSET Row
    /\ remote \in SUBSET Parent
    /\ delivered \in SUBSET Payload
    /\ pc \in [Hook -> PC]
    /\ ident \in [Hook -> Identity]         \* settings as this firing read them
    /\ left \in [Hook -> 0 .. MaxItems]     \* payloads still to write
    /\ own \in [Hook -> Load \cup {NoLoad}] \* the payload being written
    /\ backlog \in [Hook -> SUBSET Row]     \* selected rows still to re-send
    /\ row \in [Hook -> Row \cup {NoRow}]   \* the row being re-sent
    /\ at \in [Hook -> Request]             \* the request about to be made
    /\ synced \in [Hook -> BOOLEAN]         \* _user_synced
    /\ accepted \in SUBSET Payload /\ exposed \in SUBSET Payload
    /\ faults \in Nat /\ kills \in Nat /\ userSteps \in Nat

Init ==
    /\ identity = InitialIdentity
    /\ credentials = (InitialIdentity = "auth")
    /\ loggingIn = FALSE
    /\ outbox = {} /\ remote = {} /\ delivered = {}
    /\ pc = [h \in Hook |-> "idle"]
    /\ ident = [h \in Hook |-> "none"]
    /\ left = [h \in Hook |-> 0]
    /\ own = [h \in Hook |-> NoLoad]
    /\ backlog = [h \in Hook |-> {}]
    /\ row = [h \in Hook |-> NoRow]
    /\ at = [h \in Hook |-> "token"]
    /\ synced = [h \in Hook |-> FALSE]
    /\ accepted = {} /\ exposed = {}
    /\ faults = 0 /\ kills = 0 /\ userSteps = 0

-----------------------------------------------------------------------------
(***************************************************************************)
(* The user: login stores the session, then records the login's uid, which *)
(* needs a registered identity; registering writes the user block anew.    *)
(***************************************************************************)

UserActs ==
    /\ userSteps < MaxUserSteps
    /\ userSteps' = userSteps + 1
    /\ UNCHANGED <<outbox, remote, delivered, process, history, faults, kills>>

LoginStore ==
    /\ UserActs
    /\ ~loggingIn
    /\ credentials' = TRUE
    /\ loggingIn' = TRUE
    /\ UNCHANGED identity

LoginRecord ==
    /\ loggingIn
    /\ loggingIn' = FALSE
    /\ identity' = IF identity = "none" THEN "none" ELSE "auth"
    /\ UNCHANGED <<credentials, outbox, remote, delivered, process, history, bounds>>

Register ==
    /\ UserActs
    /\ identity' = "local"
    /\ UNCHANGED <<credentials, loggingIn>>

-----------------------------------------------------------------------------
(***************************************************************************)
(* One firing: write_events for each batch.                                *)
(***************************************************************************)

Goto(h, p) == pc' = [pc EXCEPT ![h] = p]

\* Start a push: the next request is for the access token.
StartPush(h, p) ==
    /\ Goto(h, p)
    /\ at' = [at EXCEPT ![h] = "token"]

Exit(h) ==
    /\ Goto(h, "idle")
    /\ ident' = [ident EXCEPT ![h] = "none"]
    /\ left' = [left EXCEPT ![h] = 0]
    /\ own' = [own EXCEPT ![h] = NoLoad]
    /\ backlog' = [backlog EXCEPT ![h] = {}]
    /\ row' = [row EXCEPT ![h] = NoRow]
    /\ at' = [at EXCEPT ![h] = "token"]
    /\ synced' = [synced EXCEPT ![h] = FALSE]

Fault == faults < MaxFaults /\ faults' = faults + 1 /\ UNCHANGED <<kills, userSteps>>

\* Capture reads the settings once, before it commits n batches.
Fire(h) ==
    /\ pc[h] = "idle"
    /\ ident' = [ident EXCEPT ![h] = identity]
    /\ \E n \in 1 .. MaxItems : left' = [left EXCEPT ![h] = n]
    /\ Goto(h, "write")
    /\ UNCHANGED <<user, outbox, remote, delivered, own, backlog, row, at, synced, history, bounds>>

\* The rows a process has read and may still push or delete.
Selected(h) == backlog[h] \cup {row[h]}

Held(h) == {r.p : r \in Selected(h)} \cup {own[h].p}
Queued == {r.p : r \in outbox}

\* A name stands for a new payload once nothing of its previous use is left
\* to do: delivered, or given up unwritten with a killed process.
Fresh(p) ==
    /\ p \notin Queued
    /\ \A h \in Hook : p \notin Held(h)
    /\ p \in accepted => p \in delivered

\* _build_payload stamps the owner: the login's uid if the firing's settings
\* have it, the local uuid (or nothing) otherwise.
Stamp(h) == IF ident[h] = "auth" THEN "auth" ELSE "local"

Build(h, p) ==
    /\ pc[h] = "write" /\ Fresh(p)
    /\ own' = [own EXCEPT ![h] = [p |-> p, owner |-> Stamp(h)]]
    /\ delivered' = delivered \ {p}
    /\ accepted' = accepted \ {p}
    /\ exposed' = exposed \ {p}
    /\ Goto(h, "drain")
    /\ UNCHANGED <<user, outbox, remote, ident, left, backlog, row, at, synced, bounds>>

\* write_events returns: the next batch, or the end of the firing.
Return(h) ==
    /\ accepted' = accepted \cup {own[h].p}
    /\ IF left[h] > 1
       THEN /\ left' = [left EXCEPT ![h] = @ - 1]
            /\ own' = [own EXCEPT ![h] = NoLoad]
            /\ StartPush(h, "write")
            /\ UNCHANGED <<ident, backlog, row, synced>>
       ELSE Exit(h)

-----------------------------------------------------------------------------
(***************************************************************************)
(* _drain_outbox.                                                          *)
(***************************************************************************)

\* The oldest rows, read once.
Oldest == {r \in outbox : Cardinality({s \in outbox : s.id < r.id}) < DrainBatch}

Select(h) ==
    /\ pc[h] = "drain"
    /\ backlog' = [backlog EXCEPT ![h] = Oldest]
    /\ Goto(h, "rows")
    /\ UNCHANGED <<user, outbox, remote, delivered, ident, left, own, row, at, synced, history, bounds>>

\* Any failure of the drain leaves the rest queued and goes on to the
\* firing's own payload.
StopDraining(h) ==
    /\ backlog' = [backlog EXCEPT ![h] = {}]
    /\ row' = [row EXCEPT ![h] = NoRow]
    /\ StartPush(h, "send")
    /\ UNCHANGED <<ident, left, own, synced>>

SelectError(h) ==
    /\ pc[h] = "drain" /\ Fault
    /\ StopDraining(h)
    /\ UNCHANGED <<user, outbox, remote, delivered, history>>

NextRow(h, r) ==
    /\ pc[h] = "rows" /\ r \in backlog[h]
    /\ \A s \in backlog[h] : r.id <= s.id
    /\ row' = [row EXCEPT ![h] = r]
    /\ backlog' = [backlog EXCEPT ![h] = @ \ {r}]
    /\ StartPush(h, "resend")
    /\ UNCHANGED <<user, outbox, remote, delivered, ident, left, own, synced, history, bounds>>

Drained(h) ==
    /\ pc[h] = "rows" /\ backlog[h] = {}
    /\ StopDraining(h)
    /\ UNCHANGED <<user, outbox, remote, delivered, history, bounds>>

\* The row that was re-sent is deleted by its id.
Delete(h) ==
    /\ pc[h] = "delete"
    /\ outbox' = {r \in outbox : r.id # row[h].id}
    /\ row' = [row EXCEPT ![h] = NoRow]
    /\ Goto(h, "rows")
    /\ UNCHANGED <<user, remote, delivered, ident, left, own, backlog, at, synced, history, bounds>>

DeleteError(h) ==
    /\ pc[h] = "delete" /\ Fault
    /\ StopDraining(h)
    /\ UNCHANGED <<user, outbox, remote, delivered, history>>

-----------------------------------------------------------------------------
(***************************************************************************)
(* _push: the token, the user row, then projects, models, sessions, events.*)
(***************************************************************************)

Pushing(h) == pc[h] \in {"resend", "send"}
Current(h) == IF pc[h] = "resend" THEN row[h] ELSE own[h]

\* The remote accepts rows of the logged-in user whose parents exist.
NeedsOf(t) ==
    CASE t = "users" -> {}
      [] t \in {"projects", "models"} -> {"users"}
      [] t = "sessions" -> {"users", "projects"}
      [] t = "events" -> {"users", "sessions", "models"}
      [] OTHER -> {}

ParentsExist(t) == NeedsOf(t) \subseteq remote
Allowed(h) == Current(h).owner = "auth" /\ ParentsExist(at[h])

\* Mutant of UserRowDue: only before the firing's own payload.
UserRowDueForOwn(h) == ~synced[h] /\ ident[h] # "none" /\ pc[h] = "send"

\* _ensure_user_row makes its request once per process, if a name is known.
UserRowDue(h) == ~synced[h] /\ ident[h] # "none"

Following(h) ==
    CASE at[h] = "token" -> IF UserRowDue(h) THEN "users" ELSE "projects"
      [] at[h] = "users" -> "projects"
      [] at[h] = "projects" -> "models"
      [] at[h] = "models" -> "sessions"
      [] OTHER -> "events"

\* Mutant of PushFailed: a failed re-send is deleted like any other.
PushFailedIgnored(h) ==
    /\ StartPush(h, IF pc[h] = "resend" THEN "delete" ELSE "enqueue")
    /\ UNCHANGED <<ident, left, own, backlog, row, synced, history>>

PushFailed(h) ==
    IF pc[h] = "resend"
    THEN StopDraining(h) /\ UNCHANGED history
    ELSE /\ StartPush(h, "enqueue")
         /\ UNCHANGED <<ident, left, own, backlog, row, synced, history>>

Token(h) ==
    /\ Pushing(h) /\ at[h] = "token" /\ credentials
    /\ at' = [at EXCEPT ![h] = Following(h)]
    /\ UNCHANGED <<user, outbox, remote, delivered, pc, ident, left, own, backlog, row, synced, history, bounds>>

NoSession(h) ==
    /\ Pushing(h) /\ at[h] = "token" /\ ~credentials
    /\ PushFailed(h)
    /\ UNCHANGED <<user, outbox, remote, delivered, bounds>>

\* The user row counts as synced once its request has been answered.
Latch(h) == synced' = [synced EXCEPT ![h] = @ \/ at[h] = "users"]

\* A parent row is merged in.
Upsert(h) ==
    /\ Pushing(h) /\ at[h] \in Parent /\ Allowed(h)
    /\ remote' = remote \cup {at[h]}
    /\ at' = [at EXCEPT ![h] = Following(h)]
    /\ Latch(h)
    /\ UNCHANGED <<user, outbox, delivered, pc, ident, left, own, backlog, row, history, bounds>>

\* The event rows land: the payload is delivered.
Land(h) ==
    /\ Pushing(h) /\ at[h] = "events" /\ Allowed(h)
    /\ delivered' = delivered \cup {Current(h).p}
    /\ IF pc[h] = "resend"
       THEN StartPush(h, "delete") /\ UNCHANGED <<ident, left, own, backlog, row, synced, accepted>>
       ELSE Return(h)
    /\ UNCHANGED <<user, outbox, remote, exposed, bounds>>

\* Row-level security or a foreign key refuses the rows.
Refused(h) ==
    /\ Pushing(h) /\ at[h] # "token" /\ ~Allowed(h)
    /\ PushFailed(h)
    /\ UNCHANGED <<user, outbox, remote, delivered, bounds>>

\* A request (a token refresh included) that never reaches the remote.
RequestLost(h) ==
    /\ Pushing(h) /\ (at[h] = "token" => credentials) /\ Fault
    /\ PushFailed(h)
    /\ UNCHANGED <<user, outbox, remote, delivered>>

\* A request carried out, whose reply is lost or late.
ReplyLost(h) ==
    /\ Pushing(h) /\ at[h] # "token" /\ Allowed(h) /\ Fault
    /\ IF at[h] = "events"
       THEN delivered' = delivered \cup {Current(h).p} /\ UNCHANGED remote
       ELSE remote' = remote \cup {at[h]} /\ UNCHANGED delivered
    /\ PushFailed(h)
    /\ UNCHANGED <<user, outbox>>

-----------------------------------------------------------------------------
(***************************************************************************)
(* _enqueue.                                                               *)
(***************************************************************************)

\* INTEGER PRIMARY KEY without AUTOINCREMENT: one more than the largest id in
\* the table, so an id is used again once its row and all later ones are gone.
IsNextId(id) ==
    /\ \A r \in outbox : r.id < id
    /\ id = 1 \/ \E r \in outbox : id = r.id + 1

Reserved(h) == {r.id : r \in Selected(h)}

Enqueue(h) ==
    /\ pc[h] = "enqueue"
    /\ \E id \in {1} \cup {r.id + 1 : r \in outbox} :
        /\ IsNextId(id)
        /\ outbox' = outbox \cup {[id |-> id, p |-> own[h].p, owner |-> own[h].owner]}
        /\ exposed' = IF \E g \in Hook : id \in Reserved(g)
                      THEN exposed \cup {own[h].p} ELSE exposed
    /\ Return(h)
    /\ UNCHANGED <<user, remote, delivered, bounds>>

\* Mutant of EnqueueError: the exception is swallowed and write_events returns.
EnqueueErrorIgnored(h) ==
    /\ pc[h] = "enqueue" /\ Fault
    /\ Return(h)
    /\ UNCHANGED <<user, outbox, remote, delivered, exposed>>

\* The exception leaves write_events and ends the firing's remote writes.
EnqueueError(h) ==
    /\ pc[h] = "enqueue" /\ Fault
    /\ Exit(h)
    /\ UNCHANGED <<user, outbox, remote, delivered, history>>

Kill(h) ==
    /\ pc[h] # "idle" /\ kills < MaxKills
    /\ kills' = kills + 1
    /\ Exit(h)
    /\ UNCHANGED <<user, outbox, remote, delivered, history, faults, userSteps>>

-----------------------------------------------------------------------------
User == LoginStore \/ LoginRecord \/ Register

DrainStep(h) ==
    \/ Select(h) \/ SelectError(h) \/ \E r \in backlog[h] : NextRow(h, r)
    \/ Drained(h) \/ Delete(h) \/ DeleteError(h)

PushStep(h) ==
    \/ Token(h) \/ NoSession(h) \/ Upsert(h) \/ Land(h) \/ Refused(h)
    \/ RequestLost(h) \/ ReplyLost(h)

Step(h) ==
    \/ Fire(h) \/ \E p \in Payload : Build(h, p)
    \/ DrainStep(h) \/ PushStep(h) \/ Enqueue(h) \/ EnqueueError(h)

Next == User \/ \E h \in Hook : Step(h) \/ Kill(h)

Spec == Init /\ [][Next]_vars

(***************************************************************************)
(* Fairness: sessions go on firing hooks, a running hook goes on, and a    *)
(* login that stored its session finishes.  Faults and kills are bounded.  *)
(***************************************************************************)
Fairness == WF_vars(LoginRecord) /\ \A h \in Hook : WF_vars(Step(h))

FairSpec == Spec /\ Fairness
-----------------------------------------------------------------------------
(***************************************************************************)
(* Properties.                                                             *)
(***************************************************************************)

\* Whatever is lost, refused or killed, a payload that write_events has taken
\* is delivered or queued, unless its outbox id was handed out while another
\* process still held that id in the backlog it had selected (_drain_outbox
\* deletes by id).
RetainedUnlessExposed == accepted \subseteq delivered \cup Queued \cup exposed

\* The user-row self-heal: no request for rows of the logged-in user fails on a
\* missing parent row, in whatever order backlog and own payloads are pushed
\* and whichever requests failed before, if the process's settings hold a name
\* (_ensure_user_row, "events do not loop in the outbox on the users FK").
ParentsFirst ==
    \A h \in Hook :
        Pushing(h) /\ ident[h] # "none" /\ Current(h).owner = "auth" => ParentsExist(at[h])

Promise == INSTANCE Delivery
    WITH taken <- accepted, pending <- Queued, delivered <- delivered, excused <- exposed

\* The outbox implements at-least-once delivery: a step that takes a payload
\* delivers or queues it, and a row that leaves the outbox is one whose payload
\* the remote holds, whichever process deletes it, unless its id was handed out
\* while another process still held that id.
ImplementsDelivery == Promise!Spec

\* Every payload that write_events has taken eventually reaches the remote.
EventuallyDelivered == \A p \in Payload : p \in accepted ~> p \in delivered

(***************************************************************************)
(* Why: the inductive invariant of the proofs.                             *)
(***************************************************************************)

\* Ids are unique and never 0; ...
IdsUnique ==
    /\ \A r, s \in outbox : r.id = s.id => r = s
    /\ \A r \in outbox : r.id # 0

\* ... a queued row whose id some process holds is the row that process has
\* selected, or its payload counts as exposed; ...
SelectionKnown ==
    \A h \in Hook : \A b \in Selected(h) : \A r \in outbox :
        r.id = b.id => r = b \/ r.p \in exposed

\* ... a process carries a payload, and outside the drain no row; ...
Carries ==
    \A h \in Hook :
        /\ pc[h] \notin {"idle", "write"} => own[h] \in Load
        /\ pc[h] \in {"resend", "delete"} => row[h] \in Row
        /\ pc[h] \notin {"rows", "resend", "delete"} => backlog[h] = {}
        /\ pc[h] \notin {"resend", "delete"} => row[h] = NoRow

\* ... a row is only deleted when its payload is delivered; ...
DeletesDelivered == \A h \in Hook : pc[h] = "delete" => row[h].p \in delivered

\* ... and the latch and the place in the push tell what the remote has.
PushedBefore ==
    \A h \in Hook :
        /\ synced[h] => "users" \in remote
        /\ at[h] \in {"models", "sessions", "events"} => "projects" \in remote
        /\ at[h] \in {"sessions", "events"} => "models" \in remote
        /\ at[h] = "events" => "sessions" \in remote

IndInv ==
    /\ TypeOK /\ IdsUnique /\ SelectionKnown /\ Carries /\ DeletesDelivered
    /\ PushedBefore /\ ParentsFirst /\ RetainedUnlessExposed

(***************************************************************************)
(* Statements of the documentation that the code does not keep.            *)
(***************************************************************************)

\* supabase_backend.py write_events: "On ANY remote/transport error the firing
\* is retained in the local outbox and re-sent on a later call".
Retained == accepted \subseteq delivered \cup Queued
=============================================================================
