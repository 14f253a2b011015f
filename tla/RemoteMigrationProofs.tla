------------------------ MODULE RemoteMigrationProofs ------------------------
(***************************************************************************)
(* Proofs about RemoteMigration, for any rows, sessions, hooks, terminals, *)
(* faults and commands.                                                    *)
(***************************************************************************)
EXTENDS RemoteMigration, FiniteSetTheorems, TLAPS

\* A set of rows has no more sessions and contents than rows, and as many contents
\* if no two rows are equal in every column.
LEMMA Images ==
  ASSUME NEW rows, IsFiniteSet(rows)
  PROVE  /\ IsFiniteSet(SessionRows(rows)) /\ IsFiniteSet(ContentRows(rows))
         /\ Cardinality(SessionRows(rows)) \in Nat /\ Cardinality(rows) \in Nat
         /\ Cardinality(ContentRows(rows)) <= Cardinality(rows)
         /\ ~Twins(rows) => Cardinality(ContentRows(rows)) = Cardinality(rows)
<1> DEFINE session == [e \in rows |-> SessionOf[e]]
           content == [e \in rows |-> Content[e]]
<1>1. session \in Surjection(rows, SessionRows(rows)) /\ content \in Surjection(rows, ContentRows(rows))
  BY DEF Surjection, SessionRows, ContentRows
<1>2. ~Twins(rows) => content \in Injection(rows, ContentRows(rows))
  BY <1>1 DEF Twins, Injection, IsInjective, Surjection
<1> HIDE DEF session, content
<1>3. IsFiniteSet(SessionRows(rows)) /\ IsFiniteSet(ContentRows(rows))
  BY <1>1, FS_Surjection
<1>4. Cardinality(ContentRows(rows)) <= Cardinality(rows)
  BY <1>1, FS_Surjection
<1>5. ~Twins(rows) => Cardinality(ContentRows(rows)) = Cardinality(rows)
  BY <1>1, <1>2, FS_Surjection
<1> QED BY <1>3, <1>4, <1>5, FS_CardinalityType

\* What a command and a hook know, field by field.
LEMMA CmdFields ==
  ASSUME TypeOK, NEW u \in User
  PROVE  /\ cmd[u].at \in {"idle", "login", "editing", "users", "readSessions", "readEvents", "upload",
                           "localEvents", "remoteSessions", "remoteEvents", "verified", "mismatch"}
         /\ cmd[u].at = "editing" => cmd[u].op \in Op /\ cmd[u].seen \in Settings /\ cmd[u].read \in Settings
         /\ cmd[u].at \in {"users", "readSessions", "readEvents", "upload", "localEvents",
                           "remoteSessions", "remoteEvents"} => cmd[u].owner \in Owner
         /\ cmd[u].at = "readEvents" => cmd[u].sessions \subseteq Session
         /\ cmd[u].at = "upload" =>
              /\ cmd[u] \in [at : {"upload"}, owner : Owner, sessions : SUBSET Session,
                             events : SUBSET Event, read : Read]
              /\ cmd[u].sessions \subseteq Session /\ cmd[u].events \subseteq Event
         /\ cmd[u].at \in {"upload", "localEvents", "remoteSessions", "remoteEvents", "verified", "mismatch"} =>
              cmd[u].read \in Read /\ cmd[u].read.events \subseteq Event
         /\ cmd[u].at \in {"localEvents", "remoteSessions", "remoteEvents", "verified", "mismatch"} =>
              cmd[u].counted \subseteq Event
         /\ cmd[u].at \in {"localEvents", "remoteSessions", "remoteEvents"} => cmd[u].nevents \in Nat
         /\ cmd[u].at \in {"localEvents", "remoteSessions"} => cmd[u].nsessions \in Nat
         /\ cmd[u].at = "remoteEvents" => cmd[u].match \in BOOLEAN
<1>1. cmd[u] \in Doing
  BY DEF TypeOK
<1> QED BY <1>1 DEF Doing, Read

LEMMA HookFields ==
  ASSUME TypeOK, NEW h \in Hook
  PROVE  /\ hook[h].at \in {"idle", "capturing", "pushing"}
         /\ hook[h].at \in {"capturing", "pushing"} => hook[h].owner \in Owner
         /\ hook[h].at = "capturing" => hook[h].routed \in BOOLEAN
         /\ hook[h].at = "pushing" => hook[h].event \in Event
BY DEF TypeOK, Idle

\* A row, its content and its session are what the tables hold.
LEMMA RowTypes ==
  ASSUME NEW rows \in SUBSET Event
  PROVE  SessionRows(rows) \subseteq Session /\ ContentRows(rows) \subseteq Contents
BY RemoteAssumption DEF RemoteAssumption, SessionRows, ContentRows, Contents

\* What an unreadable file is taken for is a possible content of it.
LEMMA EmptySettings == Empty \in Settings
BY RemoteAssumption DEF Empty, Settings, RemoteAssumption

\* Reading the settings, or failing to, keeps the count of faults in its range.
LEMMA ReadsTyped ==
  ASSUME TypeOK, NEW read, ReadSettings(read)
  PROVE  faults' \in 0..MaxFaults
BY RemoteAssumption DEF ReadSettings, TypeOK, RemoteAssumption

\* Every step of a hook keeps every variable in its range.
LEMMA CaptureTyped ==
  ASSUME TypeOK, NEW h \in Hook, Capture(h)
  PROVE  TypeOK'
<1> USE DEF At, GotoHook
<1> DEFINE States == {Idle} \cup [at : {"capturing"}, routed : BOOLEAN, owner : Owner]
                            \cup [at : {"pushing"}, event : Event, owner : Owner]
<1>1. ASSUME NEW state \in States, GotoHook(h, state) PROVE hook' \in [Hook -> States]
  BY <1>1 DEF TypeOK
<1>2. ASSUME Fault PROVE faults' \in 0..MaxFaults /\ UNCHANGED <<minted, commands>>
  BY <1>2, RemoteAssumption DEF Fault, TypeOK, RemoteAssumption
<1>3. ASSUME NEW e \in Event
      PROVE  Merged(e) \in [users : BOOLEAN, sessions : SUBSET Session, events : SUBSET (Contents \cup Foreign)]
  BY RemoteAssumption DEF Merged, TypeOK, RemoteAssumption, Contents
<1>4. ASSUME Crossing(User) PROVE crossed' \subseteq User
  BY <1>4 DEF Crossing, TypeOK
<1>5. ASSUME NEW read \in {settings, Empty}, Fire(h, read) PROVE TypeOK'
  <2>1. [at |-> "capturing", routed |-> Routed(read), owner |-> OwnerOf(read)] \in States
    BY <1>5, EmptySettings DEF Routed, OwnerOf, Owner, TypeOK, Settings
  <2>2. hook' \in [Hook -> States]
    BY <1>1, <1>5, <2>1 DEF Fire
  <2>3. faults' \in 0..MaxFaults
    BY <1>5, ReadsTyped DEF Fire
  <2> QED BY <1>5, <2>2, <2>3 DEF Fire, TypeOK, data, history, edits
<1>6. CASE Leave(h)
  <2>1. hook' \in [Hook -> States]
    BY <1>1, <1>6 DEF Leave
  <2> QED BY <1>6, <2>1 DEF Leave, TypeOK, data, history, edits, bounds
<1>7. ASSUME NEW e \in Event, Commit(h, e) PROVE TypeOK'
  <2>1. hook[h].owner \in Owner
    BY <1>7, HookFields DEF Commit
  <2>2. hook' \in [Hook -> States]
    BY <1>1, <1>7, <2>1 DEF Commit
  <2> QED BY <1>7, <2>2 DEF Commit, TypeOK, edits, bounds
<1>8. ASSUME At(hook[h], "pushing")
      PROVE  [event |-> hook[h].event, owner |-> hook[h].owner] \in [event : Event, owner : Owner] /\ hook[h].event \in Event
  BY <1>8, HookFields
<1>9. ASSUME NEW replied \in BOOLEAN, Push(h, replied) PROVE TypeOK'
  <2>1. hook' \in [Hook -> States]
    BY <1>1, <1>9 DEF Push
  <2>2. remote' = Merged(hook[h].event) /\ hook[h].event \in Event /\ crossed' \subseteq User
    BY <1>4, <1>8, <1>9 DEF Push
  <2>3. queue' \subseteq [event : Event, owner : Owner] /\ faults' \in 0..MaxFaults /\ UNCHANGED <<minted, commands>>
    BY <1>2, <1>8, <1>9 DEF Push, TypeOK, bounds
  <2> QED BY <1>3, <1>9, <2>1, <2>2, <2>3 DEF Push, TypeOK, edits
<1>10. CASE Retain(h)
  <2>1. hook' \in [Hook -> States]
    BY <1>1, <1>10 DEF Retain
  <2>2. queue' \subseteq [event : Event, owner : Owner] /\ faults' \in 0..MaxFaults /\ UNCHANGED <<minted, commands>>
    BY <1>2, <1>8, <1>10 DEF Retain, TypeOK, bounds
  <2> QED BY <1>10, <2>1, <2>2 DEF Retain, TypeOK, history, edits
<1>11. ASSUME NEW q \in queue, Drain(h, q) PROVE TypeOK'
  <2>1. q.event \in Event
    BY DEF TypeOK
  <2> QED BY <1>3, <1>4, <1>11, <2>1 DEF Drain, TypeOK, edits, bounds
<1>12. CASE Lose(h)
  <2>1. hook' \in [Hook -> States]
    BY <1>1, <1>12 DEF Lose
  <2> QED BY <1>2, <1>8, <1>12, <2>1 DEF Lose, TypeOK, data, edits
<1> QED BY <1>5, <1>6, <1>7, <1>9, <1>10, <1>11, <1>12 DEF Capture

\* Settings stay settings, whichever part a command changes.
LEMMA SettingsTyped ==
  ASSUME NEW s \in Settings, NEW op \in Op, NEW uuid \in 0..MaxUuid
  PROVE  Edited(op, s, uuid) \in Settings
BY DEF Edited, Settings, Op

\* Every step that concerns settings.json keeps every variable in its range.
LEMMA ChangeTyped ==
  ASSUME TypeOK, NEW u \in User, Change(u)
  PROVE  TypeOK'
<1> USE DEF At, GotoCmd
<1>1. ASSUME NEW state \in Doing, GotoCmd(u, state) PROVE cmd' \in [User -> Doing]
  BY <1>1 DEF TypeOK
<1>2. ASSUME Command PROVE commands' \in 0..MaxCommands /\ UNCHANGED minted
  BY <1>2, RemoteAssumption DEF Command, TypeOK, RemoteAssumption
<1>3. ASSUME NEW op \in Op, NEW read \in {settings, Empty}, Edit(u, op, read)
      PROVE  cmd' \in [User -> Doing] /\ faults' \in 0..MaxFaults
  <2>1. [at |-> "editing", op |-> op, seen |-> settings, read |-> read] \in Doing
    BY EmptySettings DEF Doing, TypeOK
  <2> QED BY <1>1, <1>3, <2>1, ReadsTyped DEF Edit
<1>4. Idle \in Doing /\ [at |-> "login"] \in Doing
  BY DEF Idle, Doing
<1>5. ASSUME NEW op \in {"register", "configure", "local", "supabase"}, NEW read \in {settings, Empty},
             RunEdit(u, op, read)
      PROVE  TypeOK'
  BY <1>2, <1>3, <1>5 DEF RunEdit, TypeOK, data, history, edits, Op
<1>6. CASE Login(u)
  BY <1>1, <1>2, <1>4, <1>6 DEF Login, TypeOK, data, history, edits
<1>7. ASSUME NEW read \in {settings, Empty}, Reconcile(u, read) PROVE TypeOK'
  <2>1. cmd' \in [User -> Doing] /\ faults' \in 0..MaxFaults
    BY <1>1, <1>3, <1>4, <1>7, ReadsTyped DEF Reconcile, Op
  <2> QED BY <1>7, <2>1 DEF Reconcile, TypeOK, data, history, edits
<1>8. CASE Write(u)
  <2> DEFINE mints == cmd[u].op = "register" /\ cmd[u].read.uuid = 0
  <2>1. cmd[u].op \in Op /\ cmd[u].read \in Settings
    BY <1>8, CmdFields DEF Write
  <2>2. minted \in 0..MaxUuid /\ minted' \in 0..MaxUuid
    BY <1>8, RemoteAssumption DEF Write, TypeOK, RemoteAssumption
  <2>3. settings' \in Settings
    <3>1. CASE mints
      <4>1. minted + 1 \in 0..MaxUuid
        BY <1>8, <2>2, <3>1, RemoteAssumption DEF Write, RemoteAssumption
      <4> QED BY <1>8, <2>1, <4>1, SettingsTyped DEF Write
    <3>2. CASE ~mints
      <4>1. Edited(cmd[u].op, cmd[u].read, minted + 1) = Edited(cmd[u].op, cmd[u].read, 0)
        <5>1. CASE cmd[u].op = "register" /\ cmd[u].read.uuid # 0
          BY <5>1 DEF Edited
        <5>2. CASE cmd[u].op # "register"
          BY <5>2 DEF Edited
        <5> QED BY <3>2, <5>1, <5>2
      <4>2. settings' = Edited(cmd[u].op, cmd[u].read, 0) /\ 0 \in 0..MaxUuid
        BY <1>8, <4>1, RemoteAssumption DEF Write, RemoteAssumption
      <4> QED BY <2>1, <4>2, SettingsTyped
    <3> QED BY <3>1, <3>2
  <2>4. cmd' \in [User -> Doing]
    BY <1>1, <1>4, <1>8 DEF Write
  <2>5. overlapped' \in BOOLEAN /\ misread' \in BOOLEAN /\ chosen' \in {"local", "supabase"}
    BY <1>8 DEF Write, TypeOK
  <2> QED BY <1>8, <2>2, <2>3, <2>4, <2>5 DEF Write, TypeOK, data
<1> QED BY <1>5, <1>6, <1>7, <1>8 DEF Change

\* Every step of a migration keeps every variable in its range.
LEMMA MigrateTyped ==
  ASSUME TypeOK, IsFiniteSet(local), NEW u \in User, Migrate(u)
  PROVE  TypeOK'
<1> USE DEF At, GotoCmd
<1>1. ASSUME NEW state \in Doing, GotoCmd(u, state) PROVE cmd' \in [User -> Doing]
  BY <1>1 DEF TypeOK
<1>2. ASSUME Command PROVE commands' \in 0..MaxCommands /\ UNCHANGED minted
  BY <1>2, RemoteAssumption DEF Command, TypeOK, RemoteAssumption
<1>3. ASSUME Fault PROVE faults' \in 0..MaxFaults /\ UNCHANGED <<minted, commands>>
  BY <1>3, RemoteAssumption DEF Fault, TypeOK, RemoteAssumption
<1>4. Idle \in Doing
  BY DEF Idle, Doing
<1>5. /\ SessionRows(local) \subseteq Session /\ Cardinality(SessionRows(local)) \in Nat /\ Cardinality(local) \in Nat
      /\ local \subseteq Event
  BY RowTypes, Images DEF TypeOK
<1>6. ASSUME NEW others \in SUBSET User, Crossing(others) PROVE crossed' \subseteq User
  BY <1>6 DEF Crossing, TypeOK
<1>7. CASE MigrateBegin(u)
  <2>1. [at |-> "users", owner |-> OwnerOf(settings)] \in Doing
    BY DEF Doing, OwnerOf, Owner
  <2>2. cmd' \in [User -> Doing]
    BY <1>1, <1>7, <2>1 DEF MigrateBegin
  <2>3. crossed' \subseteq User
    BY <1>7 DEF MigrateBegin, TypeOK
  <2> QED BY <1>2, <1>7, <2>2, <2>3 DEF MigrateBegin, TypeOK, data, edits
<1>8. CASE RequestFails(u)
  <2>1. cmd' \in [User -> Doing]
    BY <1>1, <1>4, <1>8 DEF RequestFails, Fail
  <2> QED BY <1>3, <1>8, <2>1 DEF RequestFails, TypeOK, data, history, edits, bounds
<1>9. ASSUME NEW only \in BOOLEAN, SyncUsers(u, only) PROVE TypeOK'
  <2>1. [at |-> "readSessions", owner |-> cmd[u].owner] \in Doing
    BY <1>9, CmdFields DEF SyncUsers, Doing
  <2>2. cmd' \in [User -> Doing]
    BY <1>1, <1>4, <1>9, <2>1 DEF SyncUsers
  <2> QED BY <1>9, <2>2 DEF SyncUsers, TypeOK, history, edits, bounds
<1>10. CASE ReadSessions(u)
  <2>1. [at |-> "readEvents", owner |-> cmd[u].owner, sessions |-> SessionRows(local)] \in Doing
    BY <1>5, <1>10, CmdFields DEF ReadSessions, Doing
  <2>2. cmd' \in [User -> Doing]
    BY <1>1, <1>10, <2>1 DEF ReadSessions
  <2> QED BY <1>10, <2>2 DEF ReadSessions, TypeOK, data, history, edits, bounds
<1>11. CASE ReadEvents(u)
  <2>1. [at |-> "upload", owner |-> cmd[u].owner, sessions |-> cmd[u].sessions,
         events |-> local, read |-> [sessions |-> cmd[u].sessions, events |-> local]] \in Doing
    BY <1>5, <1>11, CmdFields DEF ReadEvents, Doing, Read
  <2>2. cmd' \in [User -> Doing]
    BY <1>1, <1>11, <2>1 DEF ReadEvents
  <2> QED BY <1>11, <2>2 DEF ReadEvents, TypeOK, data, history, edits, bounds
<1>12. ASSUME At(cmd[u], "upload")
       PROVE  /\ \A s : [cmd[u] EXCEPT !.sessions = @ \ {s}] \in Doing
              /\ \A e : [cmd[u] EXCEPT !.events = @ \ {e}] \in Doing
  BY <1>12, CmdFields DEF Doing
<1>13. ASSUME NEW s \in Session, NEW replied \in BOOLEAN, UploadSession(u, s, replied) PROVE TypeOK'
  <2>1. cmd' \in [User -> Doing]
    BY <1>1, <1>4, <1>12, <1>13 DEF UploadSession, Fail
  <2>2. crossed' \subseteq User
    BY <1>6, <1>13 DEF UploadSession
  <2> QED BY <1>3, <1>13, <2>1, <2>2 DEF UploadSession, TypeOK, edits, bounds
<1>14. ASSUME NEW e \in Event, NEW replied \in BOOLEAN, UploadEvent(u, e, replied) PROVE TypeOK'
  <2>1. cmd' \in [User -> Doing]
    BY <1>1, <1>4, <1>12, <1>14 DEF UploadEvent, Fail
  <2>2. crossed' \subseteq User /\ Content[e] \in Contents
    BY <1>6, <1>14 DEF UploadEvent, Contents
  <2> QED BY <1>3, <1>14, <2>1, <2>2 DEF UploadEvent, TypeOK, edits, bounds
<1>15. ASSUME NEW e \in Event, ChunkRefused(u, e) PROVE TypeOK'
  BY <1>1, <1>4, <1>15 DEF ChunkRefused, Fail, TypeOK, data, history, edits, bounds
<1>16. CASE CountLocal(u)
  <2>1. [at |-> "localEvents", owner |-> cmd[u].owner, read |-> cmd[u].read, counted |-> local,
         nsessions |-> Cardinality(SessionRows(local)), nevents |-> 0] \in Doing
    BY <1>5, <1>16, CmdFields DEF CountLocal, Doing
  <2>2. cmd' \in [User -> Doing]
    BY <1>1, <1>16, <2>1 DEF CountLocal, Counting
  <2> QED BY <1>16, <2>2 DEF CountLocal, TypeOK, data, history, edits, bounds
<1>17. CASE CountLocalEvents(u)
  <2>1. [at |-> "remoteSessions", owner |-> cmd[u].owner, read |-> cmd[u].read, counted |-> local,
         nsessions |-> cmd[u].nsessions, nevents |-> Cardinality(local)] \in Doing
    BY <1>5, <1>17, CmdFields DEF CountLocalEvents, Doing
  <2>2. cmd' \in [User -> Doing]
    BY <1>1, <1>17, <2>1 DEF CountLocalEvents, Counting
  <2> QED BY <1>17, <2>2 DEF CountLocalEvents, TypeOK, data, history, edits, bounds
<1>18. CASE CountRemote(u)
  <2> DEFINE state == [at |-> "remoteEvents", owner |-> cmd[u].owner, read |-> cmd[u].read,
                       counted |-> cmd[u].counted, nevents |-> cmd[u].nevents,
                       match |-> cmd[u].nsessions = Cardinality(remote.sessions)]
  <2>1. state \in Doing
    BY <1>18, CmdFields DEF CountRemote, Doing
  <2>2. cmd' \in [User -> Doing]
    BY <1>1, <1>18, <2>1 DEF CountRemote
  <2> QED BY <1>18, <2>2 DEF CountRemote, TypeOK, data, history, edits, bounds
<1>19. CASE CountRemoteEvents(u)
  <2> DEFINE state == [at |-> IF Match(u) THEN "verified" ELSE "mismatch",
                       read |-> cmd[u].read, counted |-> cmd[u].counted]
  <2>1. state \in Doing
    BY <1>19, CmdFields DEF CountRemoteEvents, Doing
  <2>2. cmd' \in [User -> Doing]
    BY <1>1, <1>19, <2>1 DEF CountRemoteEvents
  <2> QED BY <1>19, <2>2 DEF CountRemoteEvents, TypeOK, data, history, edits, bounds
<1>20. ASSUME NEW read \in {settings, Empty}, Flip(u, read) PROVE TypeOK'
  <2>1. [at |-> "editing", op |-> "supabase", seen |-> settings, read |-> read] \in Doing
    BY EmptySettings DEF Doing, TypeOK, Op
  <2>2. cmd' \in [User -> Doing] /\ faults' \in 0..MaxFaults
    BY <1>1, <1>20, <2>1, ReadsTyped DEF Flip, Edit
  <2> QED BY <1>20, <2>2 DEF Flip, TypeOK, data, history, edits
<1>21. CASE Stop(u)
  BY <1>1, <1>4, <1>21 DEF Stop, TypeOK, data, history, edits, bounds
<1> QED BY <1>7, <1>8, <1>9, <1>10, <1>11, <1>13, <1>14, <1>15, <1>16, <1>17, <1>18, <1>19, <1>20, <1>21 DEF Migrate

\* Every step keeps every variable in its range.
LEMMA Typed ==
  ASSUME TypeOK, IsFiniteSet(local), [Next]_vars
  PROVE  TypeOK'
<1>1. ASSUME NEW s \in Session, Delete(s) PROVE TypeOK'
  BY <1>1, RemoteAssumption DEF Delete, Command, TypeOK, edits, RemoteAssumption
<1>2. ASSUME NEW c \in Foreign, NEW s \in Session, OtherMachine(c, s) PROVE TypeOK'
  BY <1>2 DEF OtherMachine, TypeOK, edits, bounds
<1>3. CASE UNCHANGED vars
  BY <1>3 DEF vars, TypeOK, data, history, edits, bounds
<1> QED BY <1>1, <1>2, <1>3, CaptureTyped, ChangeTyped, MigrateTyped DEF Next

-----------------------------------------------------------------------------
\* The two statements about the counts, for one command, beside its progress.
Verified(u) == At(cmd[u], "verified") /\ Alone(u) => ContentRows(cmd[u].counted) \subseteq remote.events
Excused(u) == At(cmd[u], "mismatch") /\ Alone(u) => cmd[u].counted # cmd[u].read.events \/ Twins(cmd[u].counted)
OnCourse(u) == Progress(u) /\ Verified(u) /\ Excused(u)

\* The inductive invariant is that of the data, of the settings and of each command.
LEMMA Parts ==
  IndInv <=> /\ TypeOK /\ IsFiniteSet(local) /\ Accounted /\ Mirrored /\ SettingsHold
             /\ \A u \in User : OnCourse(u)
BY DEF IndInv, OnCourse, Verified, Excused, VerifiedIsWhole, UndisturbedMatches, Alone

\* At first nothing is captured and nothing runs.
LEMMA InitInv == Init => IndInv
<1> USE DEF At
<1> SUFFICES ASSUME Init PROVE IndInv
  OBVIOUS
<1>1. /\ local = {} /\ queue = {} /\ remote = [users |-> FALSE, sessions |-> {}, events |-> {}]
      /\ \A h \in Hook : hook[h] = Idle
      /\ \A u \in User : cmd[u] = Idle
      /\ captured = {} /\ spared = {} /\ crossed = {} /\ overlapped = FALSE /\ misread = FALSE /\ chosen = "local"
      /\ minted = settings.uuid /\ commands = 0 /\ faults = 0
  BY DEF Init
<1>2. settings \in [uuid : {0, 1}, auth : BOOLEAN, configured : BOOLEAN, pointer : {"local"}] /\ credentials = settings.auth
  BY RemoteAssumption DEF Init, RemoteAssumption
<1>3. settings \in Settings /\ minted \in 0..MaxUuid /\ minted <= 1 /\ credentials \in BOOLEAN
  BY <1>1, <1>2, RemoteAssumption DEF Settings, RemoteAssumption
<1>4. cmd \in [User -> Doing]
  BY DEF Init, Idle, Doing
<1>5. hook \in [Hook -> {Idle}]
  BY DEF Init
<1>6. strange \in BOOLEAN
  BY DEF Init
<1>7. TypeOK
  <2>1. remote \in [users : BOOLEAN, sessions : SUBSET Session, events : SUBSET (Contents \cup Foreign)]
    BY <1>1
  <2>2. hook \in [Hook -> {Idle} \cup [at : {"capturing"}, routed : BOOLEAN, owner : Owner]
                               \cup [at : {"pushing"}, event : Event, owner : Owner]]
    BY <1>5
  <2>3. commands \in 0..MaxCommands /\ faults \in 0..MaxFaults
    BY <1>1, RemoteAssumption DEF RemoteAssumption
  <2>5. overlapped \in BOOLEAN /\ misread \in BOOLEAN
    BY DEF Init
  <2>4. local \subseteq Event /\ captured \subseteq Event /\ spared \subseteq Event /\ crossed \subseteq User
        /\ queue \subseteq [event : Event, owner : Owner] /\ chosen \in {"local", "supabase"}
    BY <1>1
  <2> QED BY <1>3, <1>4, <1>6, <2>1, <2>2, <2>3, <2>4, <2>5 DEF TypeOK
<1>8. IsFiniteSet(local) /\ Accounted
  BY <1>1, FS_EmptySet DEF Accounted
<1>9. Mirrored
  BY <1>1 DEF Mirrored, Queued, InHand, Idle
<1>10. SettingsHold
  BY <1>1, <1>2, <1>3 DEF SettingsHold
<1>11. \A u \in User : OnCourse(u)
  BY <1>1 DEF OnCourse, Progress, Verified, Excused, Idle
<1> QED BY <1>7, <1>8, <1>9, <1>10, <1>11, Parts

\* The central database stays finite.
LEMMA StaysFinite ==
  ASSUME TypeOK, IsFiniteSet(local), [Next]_vars
  PROVE  IsFiniteSet(local')
<1>1. CASE local' = local
  BY <1>1
<1>2. ASSUME NEW h \in Hook, NEW e \in Event, Commit(h, e) PROVE IsFiniteSet(local')
  BY <1>2, FS_AddElement DEF Commit
<1>3. ASSUME NEW s \in Session, Delete(s) PROVE IsFiniteSet(local')
  <2>1. local' \in SUBSET local
    BY <1>3 DEF Delete
  <2> QED BY <2>1, FS_Subset
<1>4. ASSUME NEW h \in Hook, Capture(h) PROVE local' = local \/ \E e \in Event : Commit(h, e)
  BY <1>4 DEF Capture, Fire, Leave, Push, Retain, Drain, Lose, data
<1>5. ASSUME NEW u \in User, Change(u) PROVE local' = local
  BY <1>5 DEF Change, RunEdit, Login, Reconcile, Write, data
<1>6. ASSUME NEW u \in User, Migrate(u) PROVE local' = local
  BY <1>6 DEF Migrate, MigrateBegin, RequestFails, SyncUsers, ReadSessions, ReadEvents, UploadSession,
     UploadEvent, ChunkRefused, CountLocal, CountLocalEvents, CountRemote, CountRemoteEvents, Flip, Stop, data
<1> QED BY <1>1, <1>2, <1>3, <1>4, <1>5, <1>6 DEF Next, OtherMachine, vars, data

\* A command that does not move stays on course while the remote grows, unless
\* somebody else's rows are then held against it.
LEMMA Steady ==
  ASSUME NEW u \in User, OnCourse(u), cmd'[u] = cmd[u],
         remote.events \subseteq remote'.events, remote.sessions \subseteq remote'.sessions,
         strange => strange', strange' \/ local \subseteq local', u \in crossed => u \in crossed',
         \/ strange' \/ u \in crossed' \/ At(cmd[u], "idle")
         \/ remote'.events = remote.events /\ remote'.sessions = remote.sessions
  PROVE  OnCourse(u)'
<1> USE DEF At
<1>1. Alone(u)' => Alone(u) /\ (cmd[u].at = "idle" \/ (remote'.events = remote.events /\ remote'.sessions = remote.sessions))
  BY DEF Alone
<1>2. ~strange' => ~strange /\ SessionRows(local) \subseteq SessionRows(local')
  BY DEF SessionRows
<1>3. \A rows : Uploaded(rows) => Uploaded(rows)'
  BY DEF Uploaded
<1>4. Progress(u)
  BY DEF OnCourse
<1>5. Progress(u)'
  <2>0. At(cmd[u], "editing") => cmd[u].read \in {cmd[u].seen, Empty}
    BY <1>4 DEF Progress
  <2>1. At(cmd[u], "readEvents") /\ ~strange' => cmd[u].sessions \subseteq SessionRows(local')
    BY <1>2, <1>4 DEF Progress
  <2>2. At(cmd[u], "upload") =>
          /\ Uploaded(cmd[u].read.events \ cmd[u].events)'
          /\ ~strange' => cmd[u].read.events \subseteq local' /\ cmd[u].sessions \subseteq SessionRows(local')
          /\ cmd[u].events \subseteq cmd[u].read.events
    BY <1>2, <1>3, <1>4 DEF Progress
  <2>3. cmd[u].at \in {"localEvents", "remoteSessions", "remoteEvents"} => Uploaded(cmd[u].read.events)'
    BY <1>3, <1>4 DEF Progress
  <2>4. At(cmd[u], "localEvents") =>
          /\ cmd[u].nsessions = Cardinality(SessionRows(cmd[u].counted))
          /\ ~strange' => cmd[u].read.events \subseteq cmd[u].counted /\ cmd[u].counted \subseteq local'
    BY <1>2, <1>4 DEF Progress
  <2>5. cmd[u].at \in {"remoteSessions", "remoteEvents"} =>
          /\ IsFiniteSet(cmd[u].counted) /\ cmd[u].nevents = Cardinality(cmd[u].counted)
          /\ Alone(u)' => /\ remote'.events \subseteq ContentRows(cmd[u].counted)
                          /\ remote'.sessions \subseteq SessionRows(cmd[u].counted)
    BY <1>1, <1>4 DEF Progress
  <2>6. At(cmd[u], "remoteSessions") /\ ~strange' /\ cmd[u].counted = cmd[u].read.events =>
          cmd[u].nsessions = Cardinality(SessionRows(cmd[u].counted))
    BY <1>2, <1>4 DEF Progress
  <2>7. At(cmd[u], "remoteEvents") /\ Alone(u)' /\ cmd[u].counted = cmd[u].read.events => cmd[u].match
    BY <1>1, <1>4 DEF Progress
  <2> QED BY <2>0, <2>1, <2>2, <2>3, <2>4, <2>5, <2>6, <2>7 DEF Progress, SessionRows, ContentRows
<1>6. Verified(u)' /\ Excused(u)'
  BY <1>1 DEF OnCourse, Verified, Excused, ContentRows, Twins
<1> QED BY <1>5, <1>6 DEF OnCourse

\* A row of the central database may be merged into the remote.
LEMMA Merging ==
  ASSUME TypeOK, Mirrored, ~strange, NEW e \in local, remote' = Merged(e), local' = local
  PROVE  remote'.events \subseteq ContentRows(local') /\ remote'.sessions \subseteq SessionRows(local')
BY DEF Mirrored, Merged, ContentRows, SessionRows

\* What a hook does keeps the invariant's parts: it takes a row in hand when it
\* commits it and lets go of it only into the remote, the outbox or the losses.
LEMMA CaptureKeeps ==
  ASSUME IndInv, NEW h \in Hook, Capture(h)
  PROVE  Accounted' /\ Mirrored' /\ SettingsHold' /\ \A u \in User : OnCourse(u)'
<1> USE DEF At, GotoHook
<1>1. TypeOK /\ Accounted /\ Mirrored /\ SettingsHold /\ \A u \in User : OnCourse(u)
  BY Parts
<1>2. ASSUME NEW state, GotoHook(h, state)
      PROVE  hook'[h] = state /\ \A g \in Hook : g # h => hook'[g] = hook[g]
  BY <1>1, <1>2 DEF TypeOK
<1>3. ASSUME cmd' = cmd, strange' = strange, local \subseteq local', crossed \subseteq crossed',
             remote.events \subseteq remote'.events, remote.sessions \subseteq remote'.sessions,
             remote' = remote \/ \A u \in User : At(cmd[u], "idle") \/ u \in crossed'
      PROVE  \A u \in User : OnCourse(u)'
  BY <1>1, <1>3, Steady
<1>4. ASSUME settings' = settings, overlapped' = overlapped, misread' = misread, chosen' = chosen, minted' = minted PROVE SettingsHold'
  BY <1>1, <1>4 DEF SettingsHold
<1>5. CASE Leave(h) \/ \E read \in {settings, Empty} : Fire(h, read)
  <2>1. UNCHANGED <<settings, data, cmd, history, edits, minted>>
    BY <1>5 DEF Fire, Leave, bounds, history, edits
  <2>2. InHand' = InHand
    BY <1>2, <1>5 DEF Fire, Leave, InHand, Idle
  <2>3. Accounted'
    BY <1>1, <2>1, <2>2 DEF Accounted, Queued, data, history, edits
  <2>4. Mirrored'
    BY <1>1, <2>1, <2>2 DEF Mirrored, Queued, ContentRows, SessionRows, data, history, edits
  <2> QED BY <1>3, <1>4, <2>1, <2>3, <2>4 DEF data, history, edits
<1>6. ASSUME NEW e \in Event, Commit(h, e) PROVE Accounted' /\ Mirrored' /\ SettingsHold' /\ \A u \in User : OnCourse(u)'
  <2>1. /\ local' = local \cup {e} /\ spared' = IF hook[h].routed THEN spared ELSE spared \cup {e}
        /\ UNCHANGED <<settings, remote, queue, cmd, strange, crossed, overlapped, misread, chosen, minted>>
    BY <1>6 DEF Commit, edits, bounds
  <2>2. /\ InHand \subseteq InHand' /\ InHand' \subseteq InHand \cup {e}
        /\ hook[h].routed => e \in InHand'
    BY <1>2, <1>6 DEF Commit, InHand, Idle
  <2>3. Accounted'
    <3>1. e \in InHand' \cup spared'
      BY <2>1, <2>2
    <3>2. spared \subseteq spared'
      BY <2>1
    <3> QED BY <1>1, <2>1, <2>2, <3>1, <3>2 DEF Accounted, Queued
  <2>4. Mirrored'
    BY <1>1, <2>1, <2>2 DEF Mirrored, Queued, ContentRows, SessionRows
  <2> QED BY <1>3, <1>4, <2>1, <2>3, <2>4
<1>7. ASSUME At(hook[h], "pushing")
      PROVE  /\ hook[h].event \in InHand
             /\ GotoHook(h, Idle) => /\ InHand' \subseteq InHand
                                     /\ \A e \in InHand : e \in InHand' \/ e = hook[h].event
  <2>1. hook[h].event \in Event
    BY <1>1, <1>7, HookFields
  <2>2. hook[h].event \in InHand
    BY <1>7, <2>1 DEF InHand
  <2>3. ASSUME GotoHook(h, Idle) PROVE hook'[h].at = "idle" /\ \A g \in Hook : g # h => hook'[g] = hook[g]
    BY <1>2, <2>3 DEF Idle
  <2>4. ASSUME GotoHook(h, Idle) PROVE InHand' \subseteq InHand
    BY <2>3, <2>4 DEF InHand
  <2>5. ASSUME GotoHook(h, Idle), NEW e \in InHand, e # hook[h].event PROVE e \in InHand'
    BY <2>3, <2>5 DEF InHand
  <2> QED BY <2>2, <2>4, <2>5
<1>8. ASSUME NEW e \in Event, remote' = Merged(e)
      PROVE  remote.events \subseteq remote'.events /\ remote.sessions \subseteq remote'.sessions /\ Content[e] \in remote'.events
  BY <1>8 DEF Merged
<1>9. ASSUME Crossing(User) PROVE crossed \subseteq crossed' /\ \A u \in User : At(cmd[u], "idle") \/ u \in crossed'
  BY <1>9 DEF Crossing
<1>10. ASSUME NEW replied \in BOOLEAN, Push(h, replied)
       PROVE  Accounted' /\ Mirrored' /\ SettingsHold' /\ \A u \in User : OnCourse(u)'
  <2> DEFINE e == hook[h].event
  <2>1. At(hook[h], "pushing") /\ GotoHook(h, Idle) /\ remote' = Merged(e) /\ Crossing(User)
    BY <1>10 DEF Push
  <2>2. e \in Event
    BY <1>1, <2>1, HookFields
  <2>3. UNCHANGED <<settings, local, cmd, spared, strange, overlapped, misread, chosen, minted>>
    BY <1>10 DEF Push, Fault, edits, bounds
  <2>4. Queued \subseteq Queued' /\ Queued' \subseteq Queued \cup {e}
    BY <1>10 DEF Push, Queued
  <2>5. Accounted'
    BY <1>1, <1>7, <1>8, <2>1, <2>2, <2>3, <2>4 DEF Accounted
  <2>6. Mirrored'
    <3>1. ~strange => e \in local
      BY <1>1, <1>7, <2>1 DEF Mirrored
    <3> QED BY <1>1, <1>7, <2>1, <2>3, <2>4, <3>1, Merging DEF Mirrored
  <2> QED BY <1>3, <1>4, <1>8, <1>9, <2>1, <2>2, <2>3, <2>5, <2>6
<1>11. CASE Retain(h)
  <2>1. At(hook[h], "pushing") /\ GotoHook(h, Idle)
    BY <1>11 DEF Retain
  <2>2. UNCHANGED <<settings, local, remote, cmd, history, edits, minted>>
    BY <1>11 DEF Retain, Fault, bounds, history, edits
  <2> DEFINE firing == [event |-> hook[h].event, owner |-> hook[h].owner]
  <2>3. Queued' = Queued \cup {hook[h].event}
    <3>1. queue' = queue \cup {firing} /\ firing.event = hook[h].event
      BY <1>11 DEF Retain
    <3> HIDE DEF firing
    <3> QED BY <3>1 DEF Queued
  <2>4. Accounted'
    BY <1>1, <1>7, <2>1, <2>2, <2>3 DEF Accounted, history, edits
  <2>5. Mirrored'
    BY <1>1, <1>7, <2>1, <2>2, <2>3 DEF Mirrored, ContentRows, SessionRows, history, edits
  <2> QED BY <1>3, <1>4, <2>2, <2>4, <2>5 DEF history, edits
<1>12. ASSUME NEW q \in queue, Drain(h, q)
       PROVE  Accounted' /\ Mirrored' /\ SettingsHold' /\ \A u \in User : OnCourse(u)'
  <2>1. /\ remote' = Merged(q.event) /\ Crossing(User) /\ q.event \in Event
        /\ UNCHANGED <<settings, local, hook, cmd, spared, strange, overlapped, misread, chosen, minted>>
    BY <1>1, <1>12 DEF Drain, edits, bounds, TypeOK
  <2>2. /\ Queued' \subseteq Queued /\ q.event \in Queued
        /\ \A e \in Queued : e \in Queued' \/ e = q.event
        /\ InHand' = InHand
    BY <1>12, <2>1 DEF Drain, Queued, InHand
  <2>3. Accounted'
    BY <1>1, <1>8, <2>1, <2>2 DEF Accounted
  <2>4. Mirrored'
    <3>1. ~strange => q.event \in local
      BY <1>1, <2>2 DEF Mirrored
    <3> QED BY <1>1, <2>1, <2>2, <3>1, Merging DEF Mirrored
  <2> QED BY <1>3, <1>4, <1>8, <1>9, <2>1, <2>3, <2>4
<1>13. CASE Lose(h)
  <2>1. At(hook[h], "pushing") /\ GotoHook(h, Idle) /\ spared' = spared \cup {hook[h].event}
    BY <1>13 DEF Lose
  <2>2. UNCHANGED <<settings, local, remote, queue, cmd, strange, crossed, overlapped, misread, chosen, minted>>
    BY <1>13 DEF Lose, Fault, data, edits
  <2>3. Accounted'
    BY <1>1, <1>7, <2>1, <2>2 DEF Accounted, Queued
  <2>4. Mirrored'
    BY <1>1, <1>7, <2>1, <2>2 DEF Mirrored, Queued, ContentRows, SessionRows
  <2> QED BY <1>3, <1>4, <2>2, <2>3, <2>4
<1> QED BY <1>5, <1>6, <1>10, <1>11, <1>12, <1>13 DEF Capture

\* Registering, configuring, logging in and setting the backend keep the
\* invariant's parts: an update that does not overlap another changes its own part,
\* of the file or of the {} it took it for.
LEMMA ChangeKeeps ==
  ASSUME IndInv, NEW u \in User, Change(u)
  PROVE  Accounted' /\ Mirrored' /\ SettingsHold' /\ \A v \in User : OnCourse(v)'
<1> USE DEF At, GotoCmd
<1>1. TypeOK /\ Accounted /\ Mirrored /\ SettingsHold /\ \A v \in User : OnCourse(v)
  BY Parts
<1>2. UNCHANGED <<local, remote, queue, hook, spared, strange, crossed>>
  BY DEF Change, RunEdit, Login, Reconcile, Write, data, history, edits
<1>3. Accounted' /\ Mirrored'
  <2>1. Queued' = Queued /\ InHand' = InHand
    BY <1>2 DEF Queued, InHand
  <2> QED BY <1>1, <1>2, <2>1 DEF Accounted, Mirrored, ContentRows, SessionRows
<1>4. cmd'[u].at \in {"idle", "login", "editing"} /\ \A v \in User : v # u => cmd'[v] = cmd[v]
  BY <1>1 DEF Change, RunEdit, Login, Reconcile, Write, Edit, Idle, TypeOK
<1>5. OnCourse(u)'
  <2>1. cmd'[u].at = "editing" => cmd'[u].read \in {cmd'[u].seen, Empty}
    BY <1>1 DEF Change, RunEdit, Login, Reconcile, Write, Edit, Idle, TypeOK
  <2> QED BY <1>4, <2>1 DEF OnCourse, Progress, Verified, Excused
<1>6. \A v \in User : OnCourse(v)'
  BY <1>1, <1>2, <1>4, <1>5, Steady
<1>7. CASE ~Write(u)
  <2>1. UNCHANGED <<settings, overlapped, misread, chosen, minted>>
    BY <1>7 DEF Change, RunEdit, Login, Reconcile, Command, history, edits, bounds
  <2> QED BY <1>1, <1>3, <1>6, <2>1 DEF SettingsHold
<1>8. CASE Write(u)
  <2> SUFFICES ASSUME ~overlapped' PROVE SettingsHold'
    BY <1>3, <1>6 DEF SettingsHold
  <2> DEFINE op == cmd[u].op
             read == cmd[u].read
  <2>1. ~overlapped /\ read \in {settings, Empty} /\ op \in Op
    BY <1>1, <1>8, CmdFields DEF Write, OnCourse, Progress
  <2>2. settings \in Settings /\ read \in Settings /\ minted \in Nat /\ chosen \in {"local", "supabase"}
    BY <1>1, <2>1, EmptySettings, RemoteAssumption DEF TypeOK, RemoteAssumption
  <2>3. /\ read.uuid \in {0, minted} /\ read.pointer \in {"local", chosen}
        /\ ~misread' => /\ read = settings /\ ~misread
                        /\ read.uuid = minted /\ minted <= 1 /\ read.pointer = chosen
    <3>1. ~misread' => read = settings /\ ~misread
      BY <1>8 DEF Write
    <3> QED BY <1>1, <2>1, <3>1 DEF SettingsHold, Empty
  <2>4. /\ settings' = Edited(op, read, minted + 1)
        /\ minted' = IF op = "register" /\ read.uuid = 0 THEN minted + 1 ELSE minted
        /\ chosen' = IF op \in {"local", "supabase"} THEN op ELSE chosen
    BY <1>8 DEF Write
  <2>5. CASE op = "register"
    <3>1. settings' = [read EXCEPT !.uuid = IF read.uuid = 0 THEN minted + 1 ELSE read.uuid, !.auth = FALSE]
      BY <2>4, <2>5 DEF Edited
    <3>2. settings'.pointer = read.pointer
      BY <2>2, <3>1 DEF Settings
    <3>3. settings'.uuid = IF read.uuid = 0 THEN minted + 1 ELSE read.uuid
      BY <2>2, <3>1 DEF Settings
    <3>4. minted' = IF read.uuid = 0 THEN minted + 1 ELSE minted
      BY <2>4, <2>5
    <3>5. chosen' = chosen
      BY <2>4, <2>5
    <3> HIDE DEF op, read
    <3> QED BY <2>2, <2>3, <3>2, <3>3, <3>4, <3>5 DEF SettingsHold
  <2>6. CASE op # "register"
    <3>1. settings'.uuid = read.uuid
      BY <2>1, <2>2, <2>4, <2>6 DEF Edited, Settings, Op
    <3>2. settings'.pointer = IF op \in {"local", "supabase"} THEN op ELSE read.pointer
      BY <2>1, <2>2, <2>4, <2>6 DEF Edited, Settings, Op
    <3>3. minted' = minted
      BY <2>4, <2>6
    <3>4. chosen' = IF op \in {"local", "supabase"} THEN op ELSE chosen
      BY <2>4
    <3> HIDE DEF op, read
    <3> QED BY <2>2, <2>3, <3>1, <3>2, <3>3, <3>4 DEF SettingsHold
  <2> QED BY <2>5, <2>6
<1> QED BY <1>7, <1>8

\* Equal counts: what was counted is in the remote if the remote's rows all come
\* from it.
LEMMA CountsMatch ==
  ASSUME NEW rows, IsFiniteSet(rows), NEW contents, contents \subseteq ContentRows(rows),
         Cardinality(rows) = Cardinality(contents)
  PROVE  contents = ContentRows(rows)
<1>1. IsFiniteSet(ContentRows(rows)) /\ Cardinality(ContentRows(rows)) <= Cardinality(rows) /\ Cardinality(rows) \in Nat
  BY Images
<1>2. Cardinality(contents) <= Cardinality(ContentRows(rows)) /\ Cardinality(ContentRows(rows)) \in Nat
  BY <1>1, FS_Subset, FS_CardinalityType
<1>3. Cardinality(contents) = Cardinality(ContentRows(rows))
  BY <1>1, <1>2
<1> QED BY <1>1, <1>3, FS_Subset

\* A command's own next step keeps it on course.
LEMMA MigrateOnCourse ==
  ASSUME IndInv, NEW u \in User, Migrate(u)
  PROVE  OnCourse(u)'
<1> USE DEF At, GotoCmd, Alone
<1>1. TypeOK /\ IsFiniteSet(local) /\ Mirrored /\ Progress(u)
  BY Parts DEF OnCourse
<1>2. ASSUME NEW state, GotoCmd(u, state) PROVE cmd'[u] = state
  BY <1>1, <1>2 DEF TypeOK
<1>3. ASSUME cmd'[u].at \in {"idle", "users", "readSessions"} PROVE OnCourse(u)'
  BY <1>3 DEF OnCourse, Progress, Verified, Excused
<1>15. ASSUME NEW read \in {settings, Empty}, Flip(u, read) PROVE OnCourse(u)'
  <2>1. cmd'[u].at = "editing" /\ cmd'[u].read = read /\ cmd'[u].seen = settings
    BY <1>2, <1>15 DEF Flip, Edit
  <2> QED BY <2>1 DEF OnCourse, Progress, Verified, Excused
<1>4. CASE MigrateBegin(u) \/ RequestFails(u) \/ Stop(u) \/ \E e \in Event : ChunkRefused(u, e)
  <2>1. cmd'[u].at \in {"idle", "users"}
    BY <1>2, <1>4 DEF MigrateBegin, RequestFails, Stop, ChunkRefused, Fail, Idle
  <2> QED BY <1>3, <2>1
<1>5. ASSUME NEW only \in BOOLEAN, SyncUsers(u, only) PROVE OnCourse(u)'
  <2>1. cmd'[u].at \in {"idle", "readSessions"}
    <3>1. GotoCmd(u, Idle) \/ GotoCmd(u, [at |-> "readSessions", owner |-> cmd[u].owner])
      BY <1>5 DEF SyncUsers
    <3> QED BY <1>2, <3>1 DEF Idle
  <2> QED BY <1>3, <2>1
<1>6. CASE ReadSessions(u)
  <2>1. /\ cmd'[u].at = "readEvents" /\ cmd'[u].sessions = SessionRows(local)
        /\ local' = local
    BY <1>2, <1>6 DEF ReadSessions, data
  <2> QED BY <2>1 DEF OnCourse, Progress, Verified, Excused, SessionRows
<1>7. CASE ReadEvents(u)
  <2>1. /\ cmd'[u].at = "upload" /\ cmd'[u].sessions = cmd[u].sessions
        /\ cmd'[u].events = local /\ cmd'[u].read.events = local
        /\ local' = local /\ strange' = strange /\ cmd[u].at = "readEvents"
    BY <1>2, <1>7 DEF ReadEvents, data, history, edits
  <2>2. ~strange => cmd[u].sessions \subseteq SessionRows(local)
    BY <1>1, <2>1 DEF Progress
  <2> QED BY <2>1, <2>2 DEF OnCourse, Progress, Verified, Excused, Uploaded, SessionRows
<1>8. ASSUME At(cmd[u], "upload")
      PROVE  /\ \A s : /\ [cmd[u] EXCEPT !.sessions = @ \ {s}].at = "upload"
                      /\ [cmd[u] EXCEPT !.sessions = @ \ {s}].sessions = cmd[u].sessions \ {s}
                      /\ [cmd[u] EXCEPT !.sessions = @ \ {s}].events = cmd[u].events
                      /\ [cmd[u] EXCEPT !.sessions = @ \ {s}].read = cmd[u].read
             /\ \A e : /\ [cmd[u] EXCEPT !.events = @ \ {e}].at = "upload"
                      /\ [cmd[u] EXCEPT !.events = @ \ {e}].sessions = cmd[u].sessions
                      /\ [cmd[u] EXCEPT !.events = @ \ {e}].events = cmd[u].events \ {e}
                      /\ [cmd[u] EXCEPT !.events = @ \ {e}].read = cmd[u].read
  BY <1>1, <1>8, CmdFields
<1>9. ASSUME NEW s \in Session, NEW replied \in BOOLEAN, UploadSession(u, s, replied) PROVE OnCourse(u)'
  <2>1. CASE ~replied
    BY <1>2, <1>3, <1>9, <2>1 DEF UploadSession, Fail, Idle
  <2>2. CASE replied
    <3>1. /\ cmd[u].at = "upload" /\ cmd'[u] = [cmd[u] EXCEPT !.sessions = @ \ {s}]
          /\ UNCHANGED <<local, strange>> /\ remote' = [remote EXCEPT !.sessions = @ \cup {s}]
      BY <1>2, <1>9, <2>2 DEF UploadSession
    <3>2. /\ cmd'[u].at = "upload" /\ cmd'[u].sessions \subseteq cmd[u].sessions
          /\ cmd'[u].events = cmd[u].events /\ cmd'[u].read = cmd[u].read
      BY <1>8, <3>1
    <3>3. remote'.events = remote.events /\ remote.sessions \subseteq remote'.sessions
      BY <1>1, <3>1 DEF TypeOK
    <3>4. Uploaded(cmd[u].read.events \ cmd[u].events)'
      BY <1>1, <3>1, <3>2, <3>3 DEF Progress, Uploaded
    <3> QED BY <1>1, <3>1, <3>2, <3>4 DEF OnCourse, Progress, Verified, Excused, SessionRows
  <2> QED BY <2>1, <2>2
<1>10. ASSUME NEW e \in Event, NEW replied \in BOOLEAN, UploadEvent(u, e, replied) PROVE OnCourse(u)'
  <2>1. CASE ~replied
    BY <1>2, <1>3, <1>10, <2>1 DEF UploadEvent, Fail, Idle
  <2>2. CASE replied
    <3>1. /\ cmd[u].at = "upload" /\ cmd'[u] = [cmd[u] EXCEPT !.events = @ \ {e}]
          /\ UNCHANGED <<local, strange>> /\ remote' = [remote EXCEPT !.events = @ \cup {Content[e]}]
          /\ SessionOf[e] \in remote.sessions
      BY <1>2, <1>10, <2>2 DEF UploadEvent
    <3>2. /\ cmd'[u].at = "upload" /\ cmd'[u].sessions = cmd[u].sessions
          /\ cmd'[u].events = cmd[u].events \ {e} /\ cmd'[u].read = cmd[u].read
      BY <1>8, <3>1
    <3>3. remote'.sessions = remote.sessions /\ remote'.events = remote.events \cup {Content[e]}
      BY <1>1, <3>1 DEF TypeOK
    <3>4. Uploaded(cmd[u].read.events \ cmd[u].events)'
      BY <1>1, <3>1, <3>2, <3>3 DEF Progress, Uploaded
    <3> QED BY <1>1, <3>1, <3>2, <3>4 DEF OnCourse, Progress, Verified, Excused, SessionRows
  <2> QED BY <2>1, <2>2
<1>11. CASE CountLocal(u)
  <2>1. /\ cmd[u].at = "upload" /\ cmd[u].events = {}
        /\ cmd'[u].at = "localEvents" /\ cmd'[u].read = cmd[u].read /\ cmd'[u].counted = local
        /\ cmd'[u].nsessions = Cardinality(SessionRows(local))
        /\ UNCHANGED <<local, remote, strange>>
    BY <1>2, <1>11 DEF CountLocal, Counting, data, history, edits
  <2>2. Uploaded(cmd[u].read.events) /\ (~strange => cmd[u].read.events \subseteq local)
    BY <1>1, <2>1 DEF Progress, Uploaded
  <2> QED BY <2>1, <2>2 DEF OnCourse, Progress, Verified, Excused, Uploaded, SessionRows
<1>12. CASE CountLocalEvents(u)
  <2>1. /\ cmd[u].at = "localEvents" /\ cmd'[u].at = "remoteSessions"
        /\ cmd'[u].read = cmd[u].read /\ cmd'[u].counted = local
        /\ cmd'[u].nsessions = cmd[u].nsessions /\ cmd'[u].nevents = Cardinality(local)
        /\ UNCHANGED <<local, remote, strange>>
    BY <1>2, <1>12 DEF CountLocalEvents, Counting, data, history, edits
  <2>2. /\ Uploaded(cmd[u].read.events) /\ cmd[u].nsessions = Cardinality(SessionRows(cmd[u].counted))
        /\ ~strange => cmd[u].read.events \subseteq cmd[u].counted /\ cmd[u].counted \subseteq local
    BY <1>1, <2>1 DEF Progress
  <2>3. ~strange => remote.events \subseteq ContentRows(local) /\ remote.sessions \subseteq SessionRows(local)
    BY <1>1 DEF Mirrored
  <2>4. ~strange /\ local = cmd[u].read.events => cmd[u].counted = local
    BY <2>2
  <2> QED BY <1>1, <2>1, <2>2, <2>3, <2>4 DEF OnCourse, Progress, Verified, Excused, Uploaded, SessionRows, ContentRows
<1>13. CASE CountRemote(u)
  <2>1. /\ cmd[u].at = "remoteSessions" /\ cmd'[u].at = "remoteEvents"
        /\ cmd'[u].read = cmd[u].read /\ cmd'[u].counted = cmd[u].counted /\ cmd'[u].nevents = cmd[u].nevents
        /\ cmd'[u].match = (cmd[u].nsessions = Cardinality(remote.sessions))
        /\ UNCHANGED <<local, remote, strange, crossed>>
    BY <1>2, <1>13 DEF CountRemote, data, history, edits
  <2>2. ASSUME ~strange, u \notin crossed, cmd[u].counted = cmd[u].read.events PROVE cmd'[u].match
    <3>1. Uploaded(cmd[u].counted) /\ remote.sessions \subseteq SessionRows(cmd[u].counted)
      BY <1>1, <2>1, <2>2 DEF Progress
    <3>2. remote.sessions = SessionRows(cmd[u].counted)
      BY <3>1 DEF Uploaded, SessionRows
    <3> QED BY <1>1, <2>1, <2>2, <3>2 DEF Progress
  <2> QED BY <1>1, <2>1, <2>2 DEF OnCourse, Progress, Verified, Excused, Uploaded, SessionRows, ContentRows
<1>14. CASE CountRemoteEvents(u)
  <2>1. /\ cmd[u].at = "remoteEvents" /\ cmd'[u].at = (IF Match(u) THEN "verified" ELSE "mismatch")
        /\ cmd'[u].read = cmd[u].read /\ cmd'[u].counted = cmd[u].counted
        /\ UNCHANGED <<local, remote, strange, crossed>>
    <3> DEFINE state == [at |-> IF Match(u) THEN "verified" ELSE "mismatch",
                         read |-> cmd[u].read, counted |-> cmd[u].counted]
    <3>1. GotoCmd(u, state) /\ cmd[u].at = "remoteEvents" /\ UNCHANGED <<local, remote, strange, crossed>>
      BY <1>14 DEF CountRemoteEvents, data, history, edits
    <3>2. /\ state.at = (IF Match(u) THEN "verified" ELSE "mismatch")
          /\ state.read = cmd[u].read /\ state.counted = cmd[u].counted
      OBVIOUS
    <3> HIDE DEF state
    <3>3. cmd'[u] = state
      BY <1>2, <3>1
    <3> QED BY <3>1, <3>2, <3>3
  <2>2. /\ Uploaded(cmd[u].read.events) /\ IsFiniteSet(cmd[u].counted) /\ cmd[u].nevents = Cardinality(cmd[u].counted)
        /\ ~strange /\ u \notin crossed => remote.events \subseteq ContentRows(cmd[u].counted)
        /\ ~strange /\ u \notin crossed /\ cmd[u].counted = cmd[u].read.events => cmd[u].match
    BY <1>1, <2>1 DEF Progress
  <2>3. Verified(u)'
    <3>1. ASSUME ~strange, u \notin crossed, Match(u) PROVE remote.events = ContentRows(cmd[u].counted)
      BY <2>2, <3>1, CountsMatch DEF Match
    <3> QED BY <2>1, <3>1 DEF Verified, ContentRows
  <2>4. Excused(u)'
    <3>1. ASSUME ~strange, u \notin crossed, cmd[u].counted = cmd[u].read.events, ~Twins(cmd[u].counted) PROVE Match(u)
      <4>1. remote.events = ContentRows(cmd[u].counted)
        BY <2>2, <3>1 DEF Uploaded, ContentRows
      <4>2. Cardinality(remote.events) = cmd[u].nevents
        BY <2>2, <3>1, <4>1, Images
      <4> QED BY <2>2, <3>1, <4>2 DEF Match
    <3> QED BY <2>1, <3>1 DEF Excused, Twins
  <2>5. Progress(u)'
    BY <2>1 DEF Progress
  <2> QED BY <2>3, <2>4, <2>5 DEF OnCourse
<1> QED BY <1>4, <1>5, <1>6, <1>7, <1>9, <1>10, <1>11, <1>12, <1>13, <1>14, <1>15 DEF Migrate

\* What a migration changes besides its own progress: the remote grows by rows of
\* the central database, and whoever else is under way is told.
LEMMA MigrateGrows ==
  ASSUME IndInv, NEW u \in User, Migrate(u)
  PROVE  /\ UNCHANGED <<settings, local, queue, hook, spared, strange, overlapped, misread, chosen, minted>>
         /\ \A v \in User : v # u => cmd'[v] = cmd[v] /\ (v \in crossed => v \in crossed')
         /\ remote.events \subseteq remote'.events /\ remote.sessions \subseteq remote'.sessions
         /\ \/ remote'.events = remote.events /\ remote'.sessions = remote.sessions
            \/ \A v \in User : v # u => At(cmd[v], "idle") \/ v \in crossed'
         /\ ~strange => remote'.events \subseteq ContentRows(local) /\ remote'.sessions \subseteq SessionRows(local)
<1> USE DEF At, GotoCmd
<1>1. /\ TypeOK /\ Progress(u)
      /\ ~strange => remote.events \subseteq ContentRows(local) /\ remote.sessions \subseteq SessionRows(local)
  BY Parts DEF OnCourse, Mirrored
<1>2. \A v \in User : v # u => cmd'[v] = cmd[v]
  BY <1>1 DEF TypeOK, Migrate, MigrateBegin, RequestFails, SyncUsers, ReadSessions, ReadEvents, UploadSession,
     UploadEvent, ChunkRefused, CountLocal, CountLocalEvents, Counting, CountRemote, CountRemoteEvents, Flip, Stop, Edit, Fail
<1>3. UNCHANGED <<settings, local, queue, hook, spared, strange, overlapped, misread, chosen, minted>>
  BY DEF Migrate, MigrateBegin, RequestFails, SyncUsers, ReadSessions, ReadEvents, UploadSession,
     UploadEvent, ChunkRefused, CountLocal, CountLocalEvents, CountRemote, CountRemoteEvents, Flip, Stop,
     Command, Fault, data, history, edits, bounds
<1>4. CASE remote' = remote /\ \A v \in User : v # u => (v \in crossed => v \in crossed')
  BY <1>1, <1>2, <1>3, <1>4
<1>5. ASSUME NEW only \in BOOLEAN, SyncUsers(u, only) PROVE remote'.events = remote.events /\ remote'.sessions = remote.sessions /\ crossed' = crossed
  BY <1>1, <1>5 DEF SyncUsers, TypeOK, history, edits
<1>6. ASSUME Crossing(User \ {u})
      PROVE  /\ crossed \subseteq crossed'
             /\ \A v \in User : v # u => At(cmd[v], "idle") \/ v \in crossed'
  BY <1>6 DEF Crossing
<1>7. ASSUME NEW s \in Session, NEW replied \in BOOLEAN, UploadSession(u, s, replied)
      PROVE  /\ remote'.events = remote.events /\ remote'.sessions = remote.sessions \cup {s} /\ Crossing(User \ {u})
             /\ ~strange => s \in SessionRows(local)
  BY <1>1, <1>7 DEF UploadSession, Progress, TypeOK
<1>8. ASSUME NEW e \in Event, NEW replied \in BOOLEAN, UploadEvent(u, e, replied)
      PROVE  /\ remote'.sessions = remote.sessions /\ remote'.events = remote.events \cup {Content[e]} /\ Crossing(User \ {u})
             /\ ~strange => Content[e] \in ContentRows(local)
  BY <1>1, <1>8 DEF UploadEvent, Progress, TypeOK, ContentRows
<1>9. CASE ~\E only \in BOOLEAN : SyncUsers(u, only)
  <2>1. CASE \E s \in Session, replied \in BOOLEAN : UploadSession(u, s, replied)
    BY <1>1, <1>2, <1>3, <1>6, <1>7, <2>1
  <2>2. CASE \E e \in Event, replied \in BOOLEAN : UploadEvent(u, e, replied)
    BY <1>1, <1>2, <1>3, <1>6, <1>8, <2>2
  <2>3. CASE ~(\E s \in Session, replied \in BOOLEAN : UploadSession(u, s, replied))
             /\ ~(\E e \in Event, replied \in BOOLEAN : UploadEvent(u, e, replied))
    BY <1>4, <1>9, <2>3 DEF Migrate, MigrateBegin, RequestFails, ReadSessions, ReadEvents,
       ChunkRefused, CountLocal, CountLocalEvents, CountRemote, CountRemoteEvents, Flip, Stop, data, history, edits
  <2> QED BY <2>1, <2>2, <2>3
<1> QED BY <1>1, <1>2, <1>3, <1>5, <1>9

\* Every step keeps the inductive invariant.
LEMMA Inductive == IndInv /\ [Next]_vars => IndInv'
<1> SUFFICES ASSUME IndInv, [Next]_vars PROVE IndInv'
  OBVIOUS
<1> DEFINE Kept == Accounted' /\ Mirrored' /\ SettingsHold' /\ \A u \in User : OnCourse(u)'
<1>1. TypeOK /\ IsFiniteSet(local) /\ Accounted /\ Mirrored /\ SettingsHold /\ \A u \in User : OnCourse(u)
  BY Parts
<1>2. TypeOK' /\ IsFiniteSet(local')
  BY <1>1, Typed, StaysFinite
<1>3. ASSUME NEW u \in User, Migrate(u) PROVE Kept
  <2>1. OnCourse(u)'
    BY <1>3, MigrateOnCourse
  <2>2. /\ UNCHANGED <<settings, local, queue, hook, spared, strange, overlapped, misread, chosen, minted>>
        /\ \A v \in User : v # u => cmd'[v] = cmd[v] /\ (v \in crossed => v \in crossed')
        /\ remote.events \subseteq remote'.events /\ remote.sessions \subseteq remote'.sessions
        /\ \/ remote'.events = remote.events /\ remote'.sessions = remote.sessions
           \/ \A v \in User : v # u => At(cmd[v], "idle") \/ v \in crossed'
        /\ ~strange => remote'.events \subseteq ContentRows(local) /\ remote'.sessions \subseteq SessionRows(local)
    BY <1>3, MigrateGrows
  <2>3. \A v \in User : OnCourse(v)'
    BY <1>1, <2>1, <2>2, Steady
  <2>4. Queued' = Queued /\ InHand' = InHand
    BY <2>2 DEF Queued, InHand
  <2>5. Accounted' /\ Mirrored'
    BY <1>1, <2>2, <2>4 DEF Accounted, Mirrored, ContentRows, SessionRows
  <2>6. SettingsHold'
    BY <1>1, <2>2 DEF SettingsHold
  <2> QED BY <2>3, <2>5, <2>6
<1>4. ASSUME NEW s \in Session, Delete(s) PROVE Kept
  <2>1. /\ UNCHANGED <<settings, remote, queue, hook, cmd, spared, crossed, overlapped, misread, chosen, minted>>
        /\ local' \subseteq local /\ strange' = TRUE
    BY <1>4 DEF Delete, Command, edits
  <2>2. Accounted' /\ Mirrored' /\ SettingsHold'
    BY <1>1, <2>1 DEF Accounted, Mirrored, SettingsHold, Queued, InHand
  <2> QED BY <1>1, <2>1, <2>2, Steady
<1>5. ASSUME NEW c \in Foreign, NEW s \in Session, OtherMachine(c, s) PROVE Kept
  <2>1. /\ UNCHANGED <<settings, local, queue, hook, cmd, spared, crossed, overlapped, misread, chosen, minted>>
        /\ remote.events \subseteq remote'.events /\ remote.sessions \subseteq remote'.sessions /\ strange' = TRUE
    BY <1>5 DEF OtherMachine, edits, bounds
  <2>2. Accounted' /\ Mirrored' /\ SettingsHold'
    BY <1>1, <2>1 DEF Accounted, Mirrored, SettingsHold, Queued, InHand
  <2> QED BY <1>1, <2>1, <2>2, Steady
<1>6. ASSUME UNCHANGED vars PROVE Kept
  <2>1. UNCHANGED <<settings, local, remote, queue, hook, cmd, spared, strange, crossed, overlapped, misread, chosen, minted>>
    BY <1>6 DEF vars, data, history, edits, bounds
  <2>2. Accounted' /\ Mirrored' /\ SettingsHold'
    BY <1>1, <2>1 DEF Accounted, Mirrored, SettingsHold, Queued, InHand, ContentRows, SessionRows
  <2> QED BY <1>1, <2>1, <2>2, Steady
<1>7. Kept
  <2>1. ASSUME NEW h \in Hook, Capture(h) PROVE Kept
    BY <2>1, CaptureKeeps
  <2>2. ASSUME NEW u \in User, Change(u) PROVE Kept
    BY <2>2, ChangeKeeps
  <2> HIDE DEF Kept
  <2> QED BY <1>3, <1>4, <1>5, <1>6, <2>1, <2>2 DEF Next
<1>8. VerifiedIsWhole' /\ UndisturbedMatches' /\ \A u \in User : Progress(u)'
  BY <1>7 DEF OnCourse, Verified, Excused, VerifiedIsWhole, UndisturbedMatches, Alone
<1> QED BY <1>2, <1>7, <1>8 DEF IndInv

\* The invariant of the migration beside its hooks, for any number of rows, hooks,
\* terminals, faults and commands.
THEOREM RemoteInductive == Spec => []IndInv
<1>1. IndInv /\ [Next]_vars => IndInv'
  BY Inductive
<1> QED BY <1>1, InitInv, PTL DEF Spec

\* A row captured under settings that name the remote is there, queued or in hand,
\* unless its hook died, whatever the settings do meanwhile.
THEOREM RemoteAccounted == Spec => []Accounted
<1>1. IndInv => Accounted
  BY DEF IndInv
<1> QED BY <1>1, RemoteInductive, PTL

\* Equal counts prove a whole upload: with nobody else writing and nothing strange
\* in the remote, every row counted is there.
THEOREM RemoteVerifiedIsWhole == Spec => []VerifiedIsWhole
<1>1. IndInv => VerifiedIsWhole
  BY DEF IndInv
<1> QED BY <1>1, RemoteInductive, PTL

\* An undisturbed migration is not sent back by the comparison of counts.
THEOREM RemoteUndisturbedMatches == Spec => []UndisturbedMatches
<1>1. IndInv => UndisturbedMatches
  BY DEF IndInv
<1> QED BY <1>1, RemoteInductive, PTL

\* Updates of settings.json that do not overlap bring no old value back, and lose one
\* only by writing back the {} they read: else one identity, and the
\* pointer last set.
THEOREM RemoteSettingsHold == Spec => []SettingsHold
<1>1. IndInv => SettingsHold
  BY DEF IndInv
<1> QED BY <1>1, RemoteInductive, PTL
=============================================================================
