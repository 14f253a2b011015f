-------------------------- MODULE RemoteMigration --------------------------
(***************************************************************************)
(* Moving collection to the remote database: settings.json with its        *)
(* unlocked updates, the upload of the central database with its           *)
(* validation, and the pointer that tells hooks where to write.            *)
(*                                                                         *)
(* Hooks capture all the while.  One reads the settings when it starts,    *)
(* commits locally, and then pushes if the settings it read name the       *)
(* remote; how a push drains and queues in detail is module Outbox.  The   *)
(* commands run in any number of terminals at once.                        *)
(*                                                                         *)
(* Of the five tables that are uploaded and counted, `sessions` stands for *)
(* the parents and `events` for the children.                              *)
(***************************************************************************)
EXTENDS Integers, FiniteSets

CONSTANTS
  Event,       \* event rows this machine may capture
  Session,
  SessionOf,   \* the session of an event row
  Content,     \* all columns of an event row: the remote's key
  Foreign,     \* contents of the same user's rows from another machine
  Hook, User,
  Started,     \* the settings there may be at first
  MaxUuid,     \* bound: identities minted
  MaxCommands, \* bound: commands run
  MaxFaults    \* bound: requests or replies lost, kills, settings not readable

ASSUME RemoteAssumption ==
  /\ SessionOf \in [Event -> Session]
  /\ DOMAIN Content = Event /\ Foreign \cap {Content[e] : e \in Event} = {}
  /\ Started \subseteq [uuid : {0, 1}, auth : BOOLEAN, configured : BOOLEAN, pointer : {"local"}]
  /\ \A s \in Started : s.auth => s.uuid = 1
  /\ MaxUuid \in Nat \ {0} /\ MaxCommands \in Nat /\ MaxFaults \in Nat

VARIABLES
  settings,     \* [uuid, auth, configured, pointer]
  credentials,  \* is an Auth session on file?
  local,        \* event rows of the central database
  remote,       \* [users, sessions, events] of the user, as the policies show them
  queue,        \* outbox: [event, owner]
  hook, cmd,    \* what each hook and each command is doing
  captured,     \* (history) rows ever captured
  spared,       \* (history) rows no push was made for, or that died with their hook
  strange,      \* (history) the remote may hold rows the central database lacks
  crossed,      \* (history) commands during which others wrote to the remote
  overlapped,   \* (history) a command wrote settings over another's
  misread,      \* (history) a command wrote settings over what it could not read
  chosen,       \* (history) the backend last set
  minted, commands, faults

data == <<local, remote, queue>>
edits == <<overlapped, misread, chosen>>
history == <<captured, spared, strange, crossed, edits>>
bounds == <<minted, commands, faults>>
vars == <<settings, credentials, data, hook, cmd, history, bounds>>

Settings ==
  [uuid : 0..MaxUuid, auth : BOOLEAN, configured : BOOLEAN, pointer : {"local", "supabase"}]

\* what read_settings returns on any problem, as it does without a file
Empty == [uuid |-> 0, auth |-> FALSE, configured |-> FALSE, pointer |-> "local"]

Contents == {Content[e] : e \in Event}
SessionRows(rows) == {SessionOf[e] : e \in rows}
ContentRows(rows) == {Content[e] : e \in rows}

Idle == [at |-> "idle"]
At(p, at) == p.at = at
GotoHook(h, state) == hook' = [hook EXCEPT ![h] = state]
GotoCmd(u, state) == cmd' = [cmd EXCEPT ![u] = state]

\* _rest_headers and the policies: a session, and rows of its own user
OwnerOf(s) == IF s.auth THEN "auth" ELSE "local"
Accepts(owner) == credentials /\ owner = "auth"

Init ==
  /\ settings \in Started /\ credentials = settings.auth
  /\ local = {} /\ queue = {}
  /\ remote = [users |-> FALSE, sessions |-> {}, events |-> {}]
  /\ hook = [h \in Hook |-> Idle] /\ cmd = [u \in User |-> Idle]
  /\ captured = {} /\ spared = {} /\ strange = FALSE /\ crossed = {}
  /\ overlapped = FALSE /\ misread = FALSE /\ chosen = "local"
  /\ minted = settings.uuid /\ commands = 0 /\ faults = 0

Fault == faults < MaxFaults /\ faults' = faults + 1 /\ UNCHANGED <<minted, commands>>

\* read_settings: the file as it is, or {} when it cannot be read or parsed
ReadSettings(read) ==
  \/ read = settings /\ UNCHANGED faults
  \/ read = Empty /\ read # settings /\ faults < MaxFaults /\ faults' = faults + 1

(***************************************************************************)
(* Hooks                                                                   *)
(***************************************************************************)

\* remote_backend_if_active, of the settings read before the commit
Routed(s) == s.pointer = "supabase" /\ s.configured

Fire(h, read) ==
  /\ At(hook[h], "idle") /\ ReadSettings(read)
  /\ GotoHook(h, [at |-> "capturing", routed |-> Routed(read), owner |-> OwnerOf(read)])
  /\ UNCHANGED <<settings, credentials, data, cmd, history, minted, commands>>

\* nothing to capture, or an error before the commit
Leave(h) ==
  /\ At(hook[h], "capturing")
  /\ GotoHook(h, Idle)
  /\ UNCHANGED <<settings, credentials, data, cmd, history, bounds>>

Commit(h, e) ==
  /\ At(hook[h], "capturing") /\ e \notin captured
  /\ local' = local \cup {e}
  /\ captured' = captured \cup {e}
  /\ spared' = IF hook[h].routed THEN spared ELSE spared \cup {e}
  /\ GotoHook(h, IF hook[h].routed THEN [at |-> "pushing", event |-> e, owner |-> hook[h].owner] ELSE Idle)
  /\ UNCHANGED <<settings, credentials, remote, queue, cmd, strange, crossed, edits, bounds>>

\* the rows of a firing, parents first, are merged in
Merged(e) ==
  [users |-> TRUE, sessions |-> remote.sessions \cup {SessionOf[e]},
   events |-> remote.events \cup {Content[e]}]

\* commands of others run while the remote is written
Crossing(others) == crossed' = crossed \cup {u \in others : ~At(cmd[u], "idle")}

\* write_events; a reply may be lost after the rows were merged
Push(h, replied) ==
  /\ At(hook[h], "pushing") /\ Accepts(hook[h].owner)
  /\ remote' = Merged(hook[h].event) /\ Crossing(User)
  /\ IF replied THEN UNCHANGED <<queue, bounds>>
     ELSE queue' = queue \cup {[event |-> hook[h].event, owner |-> hook[h].owner]} /\ Fault
  /\ GotoHook(h, Idle)
  /\ UNCHANGED <<settings, credentials, local, cmd, captured, spared, strange, edits>>

\* Mutant of Retain: what the policies refuse is dropped.
RetainUnlessRefused(h) ==
  /\ At(hook[h], "pushing")
  /\ IF Accepts(hook[h].owner) THEN Fault ELSE UNCHANGED bounds
  /\ queue' = IF Accepts(hook[h].owner)
              THEN queue \cup {[event |-> hook[h].event, owner |-> hook[h].owner]} ELSE queue
  /\ GotoHook(h, Idle)
  /\ UNCHANGED <<settings, credentials, local, remote, cmd, history>>

\* the push fails: no session, refused, or lost
Retain(h) ==
  /\ At(hook[h], "pushing")
  /\ IF Accepts(hook[h].owner) THEN Fault ELSE UNCHANGED bounds
  /\ queue' = queue \cup {[event |-> hook[h].event, owner |-> hook[h].owner]}
  /\ GotoHook(h, Idle)
  /\ UNCHANGED <<settings, credentials, local, remote, cmd, history>>

\* a queued firing is sent again, with the owner it was queued under
Drain(h, q) ==
  /\ At(hook[h], "pushing") /\ q \in queue /\ Accepts(q.owner)
  /\ remote' = Merged(q.event) /\ Crossing(User)
  /\ queue' = queue \ {q}
  /\ UNCHANGED <<settings, credentials, local, hook, cmd, captured, spared, strange, edits, bounds>>

\* killed between the commit and the end of the push, or no outbox to queue in
Lose(h) ==
  /\ At(hook[h], "pushing") /\ Fault
  /\ spared' = spared \cup {hook[h].event}
  /\ GotoHook(h, Idle)
  /\ UNCHANGED <<settings, credentials, data, cmd, captured, strange, crossed, edits>>

(***************************************************************************)
(* settings.json: each command reads it, changes its own part, and writes  *)
(* all of it back.  One that cannot read the file starts from {} and       *)
(* writes that back.                                                       *)
(***************************************************************************)

Command == commands < MaxCommands /\ commands' = commands + 1 /\ UNCHANGED minted

\* Mutant of Edited: registering starts from the default backend.
EditedAfresh(op, s, uuid) ==
  CASE op = "register" -> [uuid |-> IF s.uuid = 0 THEN uuid ELSE s.uuid, auth |-> FALSE,
                           configured |-> s.configured, pointer |-> "local"]
    [] op = "login" -> [s EXCEPT !.auth = s.uuid # 0]
    [] op = "configure" -> [s EXCEPT !.configured = TRUE]
    [] OTHER -> [s EXCEPT !.pointer = op]

\* ensure_identity writes the user block anew: the login's uid is not in it
Edited(op, s, uuid) ==
  CASE op = "register" -> [s EXCEPT !.uuid = IF s.uuid = 0 THEN uuid ELSE s.uuid, !.auth = FALSE]
    [] op = "login" -> [s EXCEPT !.auth = s.uuid # 0]
    [] op = "configure" -> [s EXCEPT !.configured = TRUE]
    [] OTHER -> [s EXCEPT !.pointer = op]

\* the update's own read; `seen` (not in the code) is the file at that moment
Edit(u, op, read) ==
  /\ ReadSettings(read)
  /\ GotoCmd(u, [at |-> "editing", op |-> op, seen |-> settings, read |-> read])

\* register-user, configure-remote, and set-backend back to local or, to start
\* fresh, to the remote.  configure-remote looks for a block before it updates;
\* when only that look fails, it writes the block that is there once more.
RunEdit(u, op, read) ==
  /\ At(cmd[u], "idle") /\ Command
  /\ op = "configure" => ~read.configured
  /\ Edit(u, op, read)
  /\ UNCHANGED <<settings, credentials, data, hook, history>>

\* like a migration, it refuses to start when it cannot read the settings
Login(u) ==
  /\ At(cmd[u], "idle") /\ Command
  /\ settings.configured
  /\ credentials' = TRUE
  /\ GotoCmd(u, [at |-> "login"])
  /\ UNCHANGED <<settings, data, hook, history, faults>>

\* record_auth_identity
Reconcile(u, read) ==
  /\ At(cmd[u], "login")
  /\ IF read.uuid = 0 \/ read.auth THEN GotoCmd(u, Idle) /\ ReadSettings(read)
     ELSE Edit(u, "login", read)
  /\ UNCHANGED <<settings, credentials, data, hook, history, minted, commands>>

Write(u) ==
  /\ At(cmd[u], "editing")
  /\ LET mints == cmd[u].op = "register" /\ cmd[u].read.uuid = 0
     IN  /\ mints => minted < MaxUuid
         /\ minted' = IF mints THEN minted + 1 ELSE minted
         /\ settings' = Edited(cmd[u].op, cmd[u].read, minted + 1)
  /\ overlapped' = (overlapped \/ cmd[u].seen # settings)
  /\ misread' = (misread \/ cmd[u].read # cmd[u].seen)
  /\ chosen' = IF cmd[u].op \in {"local", "supabase"} THEN cmd[u].op ELSE chosen
  /\ GotoCmd(u, Idle)
  /\ UNCHANGED <<credentials, data, hook, captured, spared, strange, crossed, commands, faults>>

(***************************************************************************)
(* remote_migrate.py migrate and sync-user                                 *)
(***************************************************************************)

Fail(u) == GotoCmd(u, Idle)

MigrateBegin(u) ==
  /\ At(cmd[u], "idle") /\ Command
  /\ settings.configured /\ settings.uuid # 0
  /\ GotoCmd(u, [at |-> "users", owner |-> OwnerOf(settings)])
  /\ crossed' = (crossed \ {u}) \cup {v \in {u} : \E h \in Hook : At(hook[h], "pushing")}
  /\ UNCHANGED <<settings, credentials, data, hook, captured, spared, strange, edits, faults>>

\* a request may be refused or lost, or the name may be gone; it ends the command
RequestFails(u) ==
  /\ cmd[u].at \in {"users", "upload", "remoteSessions", "remoteEvents"}
  /\ IF Accepts(cmd[u].owner) /\ settings.uuid # 0 THEN Fault ELSE UNCHANGED bounds
  /\ Fail(u)
  /\ UNCHANGED <<settings, credentials, data, hook, history>>

\* the whole of sync-user, the first step of migrate
SyncUsers(u, only) ==
  /\ At(cmd[u], "users") /\ Accepts(cmd[u].owner) /\ settings.uuid # 0
  /\ remote' = [remote EXCEPT !.users = TRUE]
  /\ GotoCmd(u, IF only THEN Idle ELSE [at |-> "readSessions", owner |-> cmd[u].owner])
  /\ UNCHANGED <<settings, credentials, local, queue, hook, history, bounds>>

\* _read_upload_rows: one SELECT for each table, none of them in a transaction
ReadSessions(u) ==
  /\ At(cmd[u], "readSessions")
  /\ GotoCmd(u, [at |-> "readEvents", owner |-> cmd[u].owner, sessions |-> SessionRows(local)])
  /\ UNCHANGED <<settings, credentials, data, hook, history, bounds>>

ReadEvents(u) ==
  /\ At(cmd[u], "readEvents")
  /\ GotoCmd(u, [at |-> "upload", owner |-> cmd[u].owner, sessions |-> cmd[u].sessions,
                 events |-> local, read |-> [sessions |-> cmd[u].sessions, events |-> local]])
  /\ UNCHANGED <<settings, credentials, data, hook, history, bounds>>

\* push_rows, in chunks of one row; a reply may be lost after the merge
UploadSession(u, s, replied) ==
  /\ At(cmd[u], "upload") /\ s \in cmd[u].sessions /\ Accepts(cmd[u].owner) /\ remote.users
  /\ remote' = [remote EXCEPT !.sessions = @ \cup {s}]
  /\ IF replied THEN GotoCmd(u, [cmd[u] EXCEPT !.sessions = @ \ {s}]) /\ UNCHANGED bounds
     ELSE Fail(u) /\ Fault
  /\ Crossing(User \ {u})
  /\ UNCHANGED <<settings, credentials, local, queue, hook, captured, spared, strange, edits>>

UploadEvent(u, e, replied) ==
  /\ At(cmd[u], "upload") /\ cmd[u].sessions = {} /\ e \in cmd[u].events
  /\ Accepts(cmd[u].owner) /\ SessionOf[e] \in remote.sessions
  /\ remote' = [remote EXCEPT !.events = @ \cup {Content[e]}]
  /\ IF replied THEN GotoCmd(u, [cmd[u] EXCEPT !.events = @ \ {e}]) /\ UNCHANGED bounds
     ELSE Fail(u) /\ Fault
  /\ Crossing(User \ {u})
  /\ UNCHANGED <<settings, credentials, local, queue, hook, captured, spared, strange, edits>>

\* an event whose session was captured after the sessions had been read
ChunkRefused(u, e) ==
  /\ At(cmd[u], "upload") /\ cmd[u].sessions = {} /\ e \in cmd[u].events
  /\ SessionOf[e] \notin remote.sessions
  /\ Fail(u)
  /\ UNCHANGED <<settings, credentials, data, hook, history, bounds>>

Counting(u, at, sessions, events) ==
  GotoCmd(u, [at |-> at, owner |-> cmd[u].owner, read |-> cmd[u].read, counted |-> local,
              nsessions |-> sessions, nevents |-> events])

\* _local_counts
CountLocal(u) ==
  /\ At(cmd[u], "upload") /\ cmd[u].sessions = {} /\ cmd[u].events = {}
  /\ Counting(u, "localEvents", Cardinality(SessionRows(local)), 0)
  /\ UNCHANGED <<settings, credentials, data, hook, history, bounds>>

CountLocalEvents(u) ==
  /\ At(cmd[u], "localEvents")
  /\ Counting(u, "remoteSessions", cmd[u].nsessions, Cardinality(local))
  /\ UNCHANGED <<settings, credentials, data, hook, history, bounds>>

\* count_rows; a mismatch is remembered and decides at the end
CountRemote(u) ==
  /\ At(cmd[u], "remoteSessions") /\ Accepts(cmd[u].owner)
  /\ GotoCmd(u, [at |-> "remoteEvents", owner |-> cmd[u].owner, read |-> cmd[u].read,
                 counted |-> cmd[u].counted, nevents |-> cmd[u].nevents,
                 match |-> cmd[u].nsessions = Cardinality(remote.sessions)])
  /\ UNCHANGED <<settings, credentials, data, hook, history, bounds>>

\* Mutant of Match: the counts of the parents decide.
MatchParents(u) == cmd[u].match

\* Mutant of Match: the remote may hold more, since it is shared.
MatchAtMost(u) == cmd[u].match /\ cmd[u].nevents < Cardinality(remote.events)

Match(u) == cmd[u].match /\ cmd[u].nevents = Cardinality(remote.events)

CountRemoteEvents(u) ==
  /\ At(cmd[u], "remoteEvents") /\ Accepts(cmd[u].owner)
  /\ GotoCmd(u, [at |-> IF Match(u) THEN "verified" ELSE "mismatch",
                 read |-> cmd[u].read, counted |-> cmd[u].counted])
  /\ UNCHANGED <<settings, credentials, data, hook, history, bounds>>

\* only after counts_match=yes
Flip(u, read) ==
  /\ At(cmd[u], "verified")
  /\ Edit(u, "supabase", read)
  /\ UNCHANGED <<settings, credentials, data, hook, history, minted, commands>>

Stop(u) ==
  /\ cmd[u].at \in {"verified", "mismatch"}
  /\ GotoCmd(u, Idle)
  /\ UNCHANGED <<settings, credentials, data, hook, history, bounds>>

(***************************************************************************)
(* Others                                                                  *)
(***************************************************************************)

\* the usage of a session's project is deleted locally
Delete(s) ==
  /\ Command /\ s \in SessionRows(local)
  /\ local' = {e \in local : SessionOf[e] # s}
  /\ strange' = TRUE
  /\ UNCHANGED <<settings, credentials, remote, queue, hook, cmd, captured, spared, crossed, edits, faults>>

\* another machine of the same user
OtherMachine(c, s) ==
  /\ c \in Foreign \ remote.events
  /\ remote' = [users |-> TRUE, sessions |-> remote.sessions \cup {s}, events |-> remote.events \cup {c}]
  /\ strange' = TRUE
  /\ UNCHANGED <<settings, credentials, local, queue, hook, cmd, captured, spared, crossed, edits, bounds>>

Capture(h) ==
  \/ \E read \in {settings, Empty} : Fire(h, read)
  \/ Leave(h) \/ \E e \in Event : Commit(h, e)
  \/ \E replied \in BOOLEAN : Push(h, replied)
  \/ Retain(h) \/ \E q \in queue : Drain(h, q)
  \/ Lose(h)

Migrate(u) ==
  \/ MigrateBegin(u) \/ RequestFails(u) \/ ReadSessions(u) \/ ReadEvents(u)
  \/ \E only \in BOOLEAN : SyncUsers(u, only)
  \/ \E s \in Session, replied \in BOOLEAN : UploadSession(u, s, replied)
  \/ \E e \in Event : ChunkRefused(u, e) \/ \E replied \in BOOLEAN : UploadEvent(u, e, replied)
  \/ CountLocal(u) \/ CountLocalEvents(u) \/ CountRemote(u) \/ CountRemoteEvents(u)
  \/ \E read \in {settings, Empty} : Flip(u, read)
  \/ Stop(u)

Change(u) ==
  \/ \E op \in {"register", "configure", "local", "supabase"}, read \in {settings, Empty} :
       RunEdit(u, op, read)
  \/ Login(u) \/ Write(u)
  \/ \E read \in {settings, Empty} : Reconcile(u, read)

Next ==
  \/ \E h \in Hook : Capture(h)
  \/ \E u \in User : Change(u) \/ Migrate(u)
  \/ \E s \in Session : Delete(s)
  \/ \E c \in Foreign, s \in Session : OtherMachine(c, s)

Spec == Init /\ [][Next]_vars

-----------------------------------------------------------------------------
(***************************************************************************)
(* Properties                                                              *)
(***************************************************************************)

Op == {"register", "configure", "local", "supabase", "login"}
Owner == {"auth", "local"}
Read == [sessions : SUBSET Session, events : SUBSET Event]
Doing ==
  [at : {"idle", "login"}]
    \cup [at : {"editing"}, op : Op, seen : Settings, read : Settings]
    \cup [at : {"users", "readSessions"}, owner : Owner]
    \cup [at : {"readEvents"}, owner : Owner, sessions : SUBSET Session]
    \cup [at : {"upload"}, owner : Owner, sessions : SUBSET Session, events : SUBSET Event, read : Read]
    \cup [at : {"localEvents", "remoteSessions"}, owner : Owner, read : Read, counted : SUBSET Event,
          nsessions : Nat, nevents : Nat]
    \cup [at : {"remoteEvents"}, owner : Owner, read : Read, counted : SUBSET Event,
          nevents : Nat, match : BOOLEAN]
    \cup [at : {"verified", "mismatch"}, read : Read, counted : SUBSET Event]

TypeOK ==
  /\ settings \in Settings /\ credentials \in BOOLEAN
  /\ local \subseteq Event
  /\ remote \in [users : BOOLEAN, sessions : SUBSET Session, events : SUBSET (Contents \cup Foreign)]
  /\ queue \subseteq [event : Event, owner : Owner]
  /\ hook \in [Hook -> {Idle} \cup [at : {"capturing"}, routed : BOOLEAN, owner : Owner]
                           \cup [at : {"pushing"}, event : Event, owner : Owner]]
  /\ cmd \in [User -> Doing]
  /\ captured \subseteq Event /\ spared \subseteq Event
  /\ strange \in BOOLEAN /\ crossed \subseteq User
  /\ overlapped \in BOOLEAN /\ misread \in BOOLEAN /\ chosen \in {"local", "supabase"}
  /\ minted \in 0..MaxUuid /\ commands \in 0..MaxCommands /\ faults \in 0..MaxFaults

Queued == {q.event : q \in queue}
InHand == {e \in Event : \E h \in Hook : At(hook[h], "pushing") /\ hook[h].event = e}

\* A row captured by a hook whose settings named the remote is there, queued, or
\* about to be pushed, unless its hook died: whatever the settings do meanwhile.
Accounted == \A e \in local : Content[e] \in remote.events \/ e \in Queued \cup InHand \cup spared

\* counts_match=yes means that every row counted is in the remote, if nobody
\* else wrote to it meanwhile and it held nothing the central database lacks.
\* A row captured after the upload had been read must not slip through.
VerifiedIsWhole ==
  \A u \in User : At(cmd[u], "verified") /\ u \notin crossed /\ ~strange =>
    ContentRows(cmd[u].counted) \subseteq remote.events

Twins(rows) == \E d, e \in rows : d # e /\ Content[d] = Content[e]

\* A migration that nothing disturbed is never sent back: a mismatch is due to
\* a capture, to somebody else's rows, or to rows equal in every column, which
\* the remote keeps once.
UndisturbedMatches ==
  \A u \in User : At(cmd[u], "mismatch") /\ u \notin crossed /\ ~strange =>
    cmd[u].counted # cmd[u].read.events \/ Twins(cmd[u].counted)

\* As long as no two updates of settings.json overlap, none brings an old value
\* back: the identity is the one last minted, the pointer what was last set, or
\* each is gone.  It is gone, or minted twice, only after an update started from
\* a file it could not read (read_settings answers {}, and that is written back).
SettingsHold ==
  ~overlapped =>
    /\ settings.uuid \in {0, minted} /\ settings.pointer \in {"local", chosen}
    /\ ~misread => /\ settings.uuid = minted /\ minted <= 1
                   /\ settings.pointer = chosen

\* The inductive invariant: what the remote and the pushes under way hold comes
\* from the central database, ...
Mirrored ==
  ~strange => /\ remote.events \subseteq ContentRows(local) /\ remote.sessions \subseteq SessionRows(local)
              /\ Queued \cup InHand \subseteq local

\* ... and how far each command has come.
Uploaded(rows) == \A e \in rows : Content[e] \in remote.events /\ SessionOf[e] \in remote.sessions

Alone(u) == ~strange /\ u \notin crossed

Progress(u) ==
  /\ At(cmd[u], "editing") => cmd[u].read \in {cmd[u].seen, Empty}
  /\ At(cmd[u], "readEvents") /\ ~strange => cmd[u].sessions \subseteq SessionRows(local)
  /\ At(cmd[u], "upload") =>
       /\ Uploaded(cmd[u].read.events \ cmd[u].events)
       /\ ~strange => cmd[u].read.events \subseteq local /\ cmd[u].sessions \subseteq SessionRows(local)
       /\ cmd[u].events \subseteq cmd[u].read.events
  /\ cmd[u].at \in {"localEvents", "remoteSessions", "remoteEvents"} => Uploaded(cmd[u].read.events)
  /\ At(cmd[u], "localEvents") =>
       /\ cmd[u].nsessions = Cardinality(SessionRows(cmd[u].counted))
       /\ ~strange => cmd[u].read.events \subseteq cmd[u].counted /\ cmd[u].counted \subseteq local
  /\ cmd[u].at \in {"remoteSessions", "remoteEvents"} =>
       /\ IsFiniteSet(cmd[u].counted) /\ cmd[u].nevents = Cardinality(cmd[u].counted)
       /\ Alone(u) => /\ remote.events \subseteq ContentRows(cmd[u].counted)
                      /\ remote.sessions \subseteq SessionRows(cmd[u].counted)
  /\ At(cmd[u], "remoteSessions") /\ ~strange /\ cmd[u].counted = cmd[u].read.events =>
       cmd[u].nsessions = Cardinality(SessionRows(cmd[u].counted))
  /\ At(cmd[u], "remoteEvents") /\ Alone(u) /\ cmd[u].counted = cmd[u].read.events => cmd[u].match

IndInv ==
  /\ TypeOK /\ IsFiniteSet(local)
  /\ Accounted /\ Mirrored /\ SettingsHold
  /\ \A u \in User : Progress(u)
  /\ VerifiedIsWhole /\ UndisturbedMatches
=============================================================================
