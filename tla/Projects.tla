------------------------------ MODULE Projects ------------------------------
(***************************************************************************)
(* Which project a session's usage is filed under: the rows of `projects`, *)
(* one per repository however its directory is spelled, the fold of rows   *)
(* that older versions filed under a linked worktree, and the opt-in       *)
(* markers that /enable and /disable write and remove.                     *)
(*                                                                         *)
(* A hook resolves its checkout, opens the database (folding it first when *)
(* it is older), looks up the spelling under which the repository is       *)
(* stored, and only then takes the write lock and records.  The fold is a  *)
(* transaction over a copy of the tables, one row at a time; other hooks   *)
(* read the committed tables meanwhile and cannot write.                   *)
(*                                                                         *)
(* A path is a spelling; Real gives the directory it denotes, itself a     *)
(* path.  What a repository is does not change, but directories disappear. *)
(***************************************************************************)
EXTENDS Integers, FiniteSets

CONSTANTS
  Path,        \* spellings of directories
  NoPath,
  Real,        \* realpath of a spelling
  SameName,    \* <<p, q>>: the basename of p, or of its realpath, is q's
  Under,       \* p is under <M>/.claude/worktrees/: the spelling <M>, or NoPath
  GitDir,      \* directories that hold a `.git` directory
  Linked,      \* linked worktrees: the main directory their `.git` file names
  Kit,         \* the name in the PROJECT-INFO document of a directory
  Name, NoName,
  Session, Hook,
  User,        \* processes of the commands /enable and /disable
  Cwd,         \* spellings under which sessions and commands run
  Given,       \* names given at /enable
  Legacy,      \* [tables, present]: what an older version may have left, and where
  Opted,       \* markers there may be at first
  Removable,   \* directories that may be deleted
  Markable,    \* directories that may be opted in
  MaxId,       \* bound: row ids
  MaxStarted   \* bound: hooks fired and commands run

ASSUME ProjectsAssumption ==
  /\ Hook \cap User = {}
  /\ NoPath \notin Path /\ NoName \notin Name /\ MaxId \in Nat \ {0} /\ MaxStarted \in Nat
  /\ Real \in [Path -> Path] /\ \A p \in Path : Real[Real[p]] = Real[p]
  /\ Under \in [Path -> Path \cup {NoPath}]
  /\ GitDir \subseteq {Real[p] : p \in Path}
  /\ Linked \in [{Real[p] : p \in Path} -> GitDir \cup {NoPath}]
  /\ \A d \in GitDir : Linked[d] = NoPath
  /\ Kit \in [Path -> Name \cup {NoName}]
  /\ Cwd \subseteq Path /\ Given \subseteq Name

VARIABLES
  present,  \* directories that exist
  marker,   \* the opt-in marker of a directory: "none", "central", "project"
  db,       \* [rows, home]: the projects table, and the project of a session
  version,  \* user_version: "old" until the fold is stamped
  cmd,      \* what each hook and each user command is doing
  born,     \* (history) the directory a session was first filed under
  started   \* firings and commands so far

vars == <<present, marker, db, version, cmd, born, started>>

Dir == {Real[p] : p \in Path}
Row == [id : 1..MaxId, path : Path, name : Name \cup {NoName}, mirror : Path \cup {NoPath}]
Tables == [rows : SUBSET Row, home : [Session -> 0..MaxId]]

\* One row for a path and for an id, and no session without its project.
Sound(t) ==
  /\ \A r, q \in t.rows : r.path = q.path \/ r.id = q.id => r = q
  /\ \A s \in Session : t.home[s] = 0 \/ \E r \in t.rows : r.id = t.home[s]

\* What an older version leaves behind is sound; markers are on directories.
ASSUME LegacyAssumption ==
  /\ \A old \in Legacy : old.tables \in Tables /\ Sound(old.tables) /\ old.present \subseteq Dir
  /\ Opted \subseteq [Dir -> {"none", "central", "project"}]

Idle == [at |-> "idle"]
At(p, at) == cmd[p].at = at
Goto(p, state) == cmd' = [cmd EXCEPT ![p] = state]

(***************************************************************************)
(* Checkouts                                                               *)
(***************************************************************************)

HasGit(p) == Real[p] \in present /\ (Real[p] \in GitDir \/ Linked[Real[p]] # NoPath)

\* main_repo_root: spelled as the sessions of the main checkout spell it
MainOf(p) ==
  LET main == Linked[Real[p]]
  IN  IF Real[p] \in present /\ main # NoPath /\ main \in present
      THEN IF Under[p] # NoPath /\ Real[Under[p]] = main THEN Under[p] ELSE main
      ELSE NoPath

Key(p) == IF MainOf(p) # NoPath THEN MainOf(p) ELSE p

Marked(p) == p # NoPath /\ marker[Real[p]] # "none"

IsEnabled(p) == Marked(p) \/ Marked(MainOf(p))

\* storage_mode_for: the checkout's own marker decides when it has one
Decisive(p) == IF Marked(p) \/ MainOf(p) = NoPath THEN p ELSE MainOf(p)

ProjectMode(p) == marker[Real[Decisive(p)]] = "project"

(***************************************************************************)
(* The tables                                                              *)
(***************************************************************************)

RowAt(rows, path) == {r \in rows : r.path = path}

\* SQLite's next row id
NextIds(rows) ==
  {n \in 1..MaxId : (\A r \in rows : r.id < n) /\ (n > 1 => \E r \in rows : r.id = n - 1)}

FirstOf(rows) == {r \in rows : \A s \in rows : r.id <= s.id}

\* Mutant of Canonical: only the exact spelling is known.
CanonicalExact(rows, path) == path

\* canonical_project_path: the stored spelling of the directory
Canonical(rows, path) ==
  LET same == {r \in rows : /\ <<path, r.path>> \in SameName
                            /\ Real[r.path] \in present /\ Real[r.path] = Real[path]}
  IN  IF RowAt(rows, path) # {} \/ same = {} THEN path
      ELSE CHOOSE p \in Path : \E r \in FirstOf(same) : p = r.path

\* get_or_create: the rows with one for path, and its id
GetOrCreate(rows, path) ==
  IF RowAt(rows, path) # {}
  THEN {[rows |-> rows, id |-> r.id] : r \in RowAt(rows, path)}
  ELSE {[rows |-> rows \cup {[id |-> n, path |-> path, name |-> NoName, mirror |-> NoPath]},
         id |-> n] : n \in NextIds(rows)}

\* UPDATE projects SET ... WHERE path = ?
WithName(rows, path, name) ==
  {IF r.path = path THEN [id |-> r.id, path |-> path, name |-> name, mirror |-> r.mirror] ELSE r : r \in rows}
WithMirror(rows, path, mirror) ==
  {IF r.path = path THEN [id |-> r.id, path |-> path, name |-> r.name, mirror |-> mirror] ELSE r : r \in rows}

(***************************************************************************)
(* The fold of linked-worktree rows                                        *)
(***************************************************************************)

\* Mutant of FoldTarget: a live clone below .claude/worktrees is folded too.
FoldTargetBlind(p, others) ==
  IF /\ Under[p] # NoPath
     /\ \/ \E o \in others : Real[o] = Real[Under[p]]
        \/ Real[Under[p]] \in present \cap GitDir
  THEN Under[p]
  ELSE IF MainOf(p) # NoPath /\ Real[MainOf(p)] # Real[p] THEN MainOf(p) ELSE NoPath

\* worktree_fold_target, others being the paths of the other rows
FoldTarget(p, others) ==
  IF HasGit(p) /\ MainOf(p) = NoPath THEN NoPath
  ELSE IF /\ Under[p] # NoPath
          /\ \/ \E o \in others : Real[o] = Real[Under[p]]
             \/ Real[Under[p]] \in present \cap GitDir
  THEN Under[p]
  ELSE IF MainOf(p) # NoPath /\ Real[MainOf(p)] # Real[p] THEN MainOf(p)
  ELSE NoPath

\* _fold_dest_path: the stored spelling, the directory need not exist
FoldDest(rows, target) ==
  LET same == {r \in rows : Real[r.path] = Real[target]}
  IN  IF RowAt(rows, target) # {} \/ same = {} THEN target
      ELSE CHOOSE p \in Path : \E r \in FirstOf(same) : p = r.path

\* what the destination takes over from the row folded into it
Inherit(d, r) ==
  [id |-> d.id, path |-> d.path,
   name |-> IF d.name = NoName THEN r.name ELSE d.name,
   mirror |-> IF d.mirror = NoPath THEN r.mirror ELSE d.mirror]

\* Mutant of FoldInto: the worktree row is left behind.
FoldIntoKeeping(t, r, g) ==
  [rows |-> {IF d.id = g.id THEN Inherit(d, r) ELSE d : d \in g.rows},
   home |-> [s \in Session |-> IF t.home[s] = r.id THEN g.id ELSE t.home[s]]]

\* Mutant of FoldInto: the sessions are left with the row that is deleted.
FoldIntoHomeless(t, r, g) ==
  [rows |-> {IF d.id = g.id THEN Inherit(d, r) ELSE d : d \in {x \in g.rows : x.id # r.id}},
   home |-> t.home]

\* Mutant of FoldInto: the row is deleted before its name is copied.
FoldIntoLate(t, r, g) ==
  [rows |-> {d \in g.rows : d.id # r.id},
   home |-> [s \in Session |-> IF t.home[s] = r.id THEN g.id ELSE t.home[s]]]

\* Row r of the tables t is folded into the row g.id of g.rows.
FoldInto(t, r, g) ==
  [rows |-> {IF d.id = g.id THEN Inherit(d, r) ELSE d : d \in {x \in g.rows : x.id # r.id}},
   home |-> [s \in Session |-> IF t.home[s] = r.id THEN g.id ELSE t.home[s]]]

\* The tables after the fold has looked at row r: one, unless ids run out.
Folded(t, r) ==
  LET target == FoldTarget(r.path, {o.path : o \in t.rows \ {r}})
      dests  == IF target = NoPath THEN {} ELSE GetOrCreate(t.rows, FoldDest(t.rows, target))
  IN  IF target = NoPath \/ \E g \in dests : g.id = r.id THEN {t}
      ELSE {FoldInto(t, r, g) : g \in dests}

(***************************************************************************)
(* Hooks                                                                   *)
(***************************************************************************)

Init ==
  /\ marker \in Opted
  /\ \E old \in Legacy : db = old.tables /\ present = old.present
  /\ version = "old" /\ started = 0
  /\ cmd = [p \in Hook \cup User |-> Idle]
  /\ born = [s \in Session |->
               IF db.home[s] = 0 THEN NoPath
               ELSE CHOOSE d \in Dir : \E r \in db.rows : r.id = db.home[s] /\ d = Real[r.path]]

Start == started < MaxStarted /\ started' = started + 1

Writable == \A h \in Hook : ~At(h, "folding")

\* main(): opt-in, project key, storage mode and name are read before anything
Gate(h, p, s) ==
  /\ At(h, "idle") /\ Start
  /\ Real[p] \in present /\ IsEnabled(p)
  /\ Goto(h, [at |-> "opening", key |-> Key(p), session |-> s, mirrored |-> ProjectMode(p)])
  /\ UNCHANGED <<present, marker, db, version, born>>

\* what a hook holds from one step to the next
Carry(h, at, project, seen) ==
  [at |-> at, key |-> cmd[h].key, session |-> cmd[h].session, mirrored |-> cmd[h].mirrored,
   project |-> project, seen |-> seen]

FoldBegin(h) ==
  /\ At(h, "opening") /\ version = "old" /\ Writable
  /\ Goto(h, [at |-> "folding", todo |-> db.rows, tables |-> db, seen |-> present,
              after |-> Carry(h, "looking", NoPath, {})])
  /\ UNCHANGED <<present, marker, db, version, born, started>>

\* A row is looked at with the columns it has at that time.
FoldRow(h) ==
  /\ At(h, "folding")
  /\ \E r \in FirstOf(cmd[h].todo) : \E x \in cmd[h].tables.rows : x.id = r.id /\
       \E t \in Folded(cmd[h].tables, x) :
         Goto(h, [at |-> "folding", todo |-> cmd[h].todo \ {r}, tables |-> t,
                  seen |-> cmd[h].seen, after |-> cmd[h].after])
  /\ UNCHANGED <<present, marker, db, version, born, started>>

FoldCommit(h) ==
  /\ At(h, "folding") /\ cmd[h].todo = {}
  /\ db' = cmd[h].tables
  /\ version' = "new"
  /\ Goto(h, cmd[h].after)
  /\ UNCHANGED <<present, marker, born, started>>

\* a statement fails: rolled back, and capture goes on
FoldFails(h) ==
  /\ At(h, "folding")
  /\ Goto(h, cmd[h].after)
  /\ UNCHANGED <<present, marker, db, version, born, started>>

\* nothing to fold, or the lock is not to be had
OpenAsIs(h) ==
  /\ At(h, "opening") /\ (version = "new" \/ ~Writable)
  /\ Goto(h, Carry(h, "looking", NoPath, {}))
  /\ UNCHANGED <<present, marker, db, version, born, started>>

Lookup(h) ==
  /\ At(h, "looking")
  /\ Goto(h, Carry(h, "recording", Canonical(db.rows, cmd[h].key), db.rows))
  /\ UNCHANGED <<present, marker, db, version, born, started>>

\* insert_events: the session keeps the project it was created with
Filed(home, s, id) == IF home[s] = 0 THEN [home EXCEPT ![s] = id] ELSE home

Stored(h, mirror) ==
  \E g \in GetOrCreate(db.rows, cmd[h].project) :
    /\ db' = [rows |-> IF mirror THEN WithMirror(g.rows, cmd[h].project, cmd[h].key) ELSE g.rows,
              home |-> Filed(db.home, cmd[h].session, g.id)]
    /\ born' = IF db.home[cmd[h].session] = 0
               THEN [born EXCEPT ![cmd[h].session] = Real[cmd[h].key]] ELSE born

Record(h) ==
  /\ At(h, "recording") /\ Writable
  /\ \E usage \in BOOLEAN : Stored(h, cmd[h].mirrored /\ usage)
  /\ Goto(h, Carry(h, "naming", cmd[h].project, cmd[h].seen))
  /\ UNCHANGED <<present, marker, version, started>>

NothingNew(h) ==
  /\ At(h, "recording") /\ Writable
  /\ Goto(h, Carry(h, "naming", cmd[h].project, cmd[h].seen))
  /\ UNCHANGED <<present, marker, db, version, born, started>>

\* stamp_project_name: by path, and only a name that differs
StampName(h) ==
  /\ At(h, "naming") /\ Writable
  /\ db' = [rows |-> IF Kit[cmd[h].key] = NoName THEN db.rows
                     ELSE WithName(db.rows, cmd[h].project, Kit[cmd[h].key]),
            home |-> db.home]
  /\ Goto(h, Carry(h, "sweeping", cmd[h].project, cmd[h].seen))
  /\ UNCHANGED <<present, marker, version, born, started>>

\* the sub-agent transcripts of the firing are recorded for the same project
Sweep(h) ==
  /\ At(h, "sweeping") /\ Writable
  /\ Stored(h, FALSE)
  /\ Goto(h, Idle)
  /\ UNCHANGED <<present, marker, version, started>>

\* nothing to sweep, a locked database, or a killed hook
Leave(h) ==
  /\ ~At(h, "idle")
  /\ Goto(h, Idle)
  /\ UNCHANGED <<present, marker, db, version, born, started>>

(***************************************************************************)
(* /enable, /disable and the user                                          *)
(***************************************************************************)

\* Mutant of Checkouts: only the checkout the command runs in.
CheckoutsHere(p) == {Real[p], Real[Key(p)]}

\* the checkouts repo_scope searches for markers
Checkouts(p) ==
  {Real[p], Real[Key(p)]} \cup
    IF Real[Key(p)] \in GitDir THEN {d \in Dir : Linked[d] = Real[Key(p)]} ELSE {}

\* repo_scope
Scope(u, p, goal) ==
  /\ At(u, "idle") /\ Start /\ Real[p] \in present
  /\ \E listed \in IF Real[Key(p)] \in GitDir THEN BOOLEAN ELSE {TRUE} :
       Goto(u, [at |-> goal, dir |-> p, failed |-> ~listed, root |-> Canonical(db.rows, Key(p)),
                left |-> {d \in IF listed THEN Checkouts(p) ELSE {Real[p], Real[Key(p)]} :
                            marker[d] # "none"}])
  /\ UNCHANGED <<present, marker, db, version, born>>

Enable(u, mode) ==
  /\ At(u, "enable") /\ Real[cmd[u].root] \in present \cap Markable
  /\ marker' = [marker EXCEPT ![Real[cmd[u].root]] = mode]
  /\ Goto(u, [at |-> IF mode = "central" THEN "clearing" ELSE "register", root |-> cmd[u].root])
  /\ UNCHANGED <<present, db, version, born, started>>

\* central mode: the metadata of a mirror that is no longer written
ClearStale(u) ==
  /\ At(u, "clearing") /\ Writable
  /\ db' = [rows |-> WithMirror(db.rows, cmd[u].root, NoPath), home |-> db.home]
  /\ Goto(u, [at |-> "register", root |-> cmd[u].root])
  /\ UNCHANGED <<present, marker, version, born, started>>

\* register_name creates the row of a project that never captured
RegisterName(u, name) ==
  /\ At(u, "register") /\ Kit[cmd[u].root] = NoName /\ Writable
  /\ \E g \in GetOrCreate(db.rows, cmd[u].root) :
       db' = [rows |-> WithName(g.rows, cmd[u].root, name), home |-> db.home]
  /\ Goto(u, Idle)
  /\ UNCHANGED <<present, marker, version, born, started>>

\* every marker is attempted, whatever happened to the others
Unlink(u, d, ok) ==
  /\ At(u, "disable") /\ d \in cmd[u].left
  /\ marker' = [marker EXCEPT ![d] = IF ok THEN "none" ELSE @]
  /\ Goto(u, [cmd[u] EXCEPT !.left = @ \ {d}, !.failed = @ \/ ~ok])
  /\ UNCHANGED <<present, db, version, born, started>>

ClearMirrorMeta(u, ok) ==
  /\ At(u, "disable") /\ cmd[u].left = {} /\ (ok => Writable)
  /\ db' = [rows |-> IF ok THEN WithMirror(db.rows, cmd[u].root, NoPath)
                     ELSE db.rows,
            home |-> db.home]
  /\ Goto(u, [at |-> IF ok /\ ~cmd[u].failed THEN "disabled" ELSE "idle", dir |-> cmd[u].dir])
  /\ UNCHANGED <<present, marker, version, born, started>>

\* /disable prints its summary, /enable is given up or finds a kit document
Return(u) ==
  /\ cmd[u].at \in {"disabled", "clearing", "register"}
  /\ Goto(u, Idle)
  /\ UNCHANGED <<present, marker, db, version, born, started>>

\* a worktree, a clone or a whole repository is deleted
RemoveDir(d) ==
  /\ d \in present \cap Removable
  /\ present' = present \ {d}
  /\ marker' = [marker EXCEPT ![d] = "none"]
  /\ UNCHANGED <<db, version, cmd, born, started>>

Capture(h) ==
  \/ \E p \in Cwd, s \in Session : Gate(h, p, s)
  \/ FoldBegin(h) \/ FoldRow(h) \/ FoldCommit(h) \/ FoldFails(h) \/ OpenAsIs(h)
  \/ Lookup(h) \/ Record(h) \/ NothingNew(h) \/ StampName(h) \/ Sweep(h) \/ Leave(h)

Command(u) ==
  \/ \E p \in Cwd, goal \in {"enable", "disable"} : Scope(u, p, goal)
  \/ \E mode \in {"central", "project"} : Enable(u, mode)
  \/ ClearStale(u)
  \/ \E name \in Given : RegisterName(u, name)
  \/ \E d \in Dir, ok \in BOOLEAN : Unlink(u, d, ok)
  \/ \E ok \in BOOLEAN : ClearMirrorMeta(u, ok)
  \/ Return(u)

Next ==
  \/ \E h \in Hook : Capture(h)
  \/ \E u \in User : Command(u)
  \/ \E d \in Dir : RemoveDir(d)

Spec == Init /\ [][Next]_vars

-----------------------------------------------------------------------------
(***************************************************************************)
(* Properties                                                              *)
(***************************************************************************)

\* What a hook remembers at each point of a firing, ...
Carried ==
  [at : {"looking", "recording", "naming", "sweeping"}, key : Path, session : Session,
   mirrored : BOOLEAN, project : Path \cup {NoPath}, seen : SUBSET Row]

HookState ==
  {Idle}
  \cup [at : {"opening"}, key : Path, session : Session, mirrored : BOOLEAN]
  \cup [at : {"folding"}, todo : SUBSET Row, tables : Tables, seen : SUBSET Dir, after : Carried]
  \cup Carried

\* ... and a command of the user.
UserState ==
  {Idle}
  \cup [at : {"enable", "disable"}, dir : Path, failed : BOOLEAN, root : Path, left : SUBSET Dir]
  \cup [at : {"clearing", "register"}, root : Path]
  \cup [at : {"idle", "disabled"}, dir : Path]

TypeOK ==
  /\ present \subseteq Dir
  /\ marker \in [Dir -> {"none", "central", "project"}]
  /\ db \in Tables
  /\ version \in {"old", "new"}
  /\ DOMAIN cmd = Hook \cup User
  /\ (\A h \in Hook : cmd[h] \in HookState) /\ (\A u \in User : cmd[u] \in UserState)
  /\ born \in [Session -> Dir \cup {NoPath}]
  /\ started \in 0..MaxStarted

\* A hook records for a spelling of the directory it was started in.
KeysAgree ==
  \A h \in Hook : cmd[h].at \in {"recording", "naming", "sweeping"} =>
    cmd[h].project \in Path /\ Real[cmd[h].project] = Real[cmd[h].key]

\* One hook folds at a time, over tables that nobody else has touched since.
FoldsAlone ==
  \A h \in Hook : At(h, "folding") =>
    /\ \A g \in Hook : At(g, "folding") => g = h
    /\ cmd[h].after.at = "looking" /\ present \subseteq cmd[h].seen

\* The tables are sound at every moment of the fold and of every capture.
IndInv ==
  /\ TypeOK /\ KeysAgree /\ FoldsAlone
  /\ Sound(db)
  /\ \A h \in Hook : At(h, "folding") => Sound(cmd[h].tables)

\* The main directory of a directory's repository.
Repo(d) == IF Linked[d] # NoPath THEN Linked[d] ELSE d

\* A deleted clone below .claude/worktrees looks like a deleted worktree.
LostClone(d) == d \in GitDir \ present /\ \E p \in Path : Real[p] = d /\ Under[p] # NoPath

\* Below <M>/.claude/worktrees/ there are worktrees of M's repository and
\* clones, and M itself is not among them: the fold goes by the path alone.
WorktreesBelong ==
  \A p \in Path : Under[p] # NoPath =>
    /\ Real[p] \in GitDir \/ Repo(Real[p]) = Repo(Real[Under[p]])
    /\ Real[p] # Real[Under[p]]

\* One command runs at a time: whoever enables while another disables gets
\* what came last.
OneUser == \A u, w \in User : u = w

\* A session's usage stays in the repository it was first filed under, through
\* any number of captures elsewhere and through the fold, unless the repository
\* is a clone that was deleted.
FiledAtHome ==
  \A s \in Session, r \in db.rows : r.id = db.home[s] =>
    Repo(Real[r.path]) = Repo(born[s]) \/ LostClone(Repo(born[s]))

\* A capture makes a second row for a directory only if the first one was
\* committed after it had looked, or if it makes again a row that it has seen and
\* that a fold has removed since.
NoUnseenTwin ==
  [][\A h \in Hook : cmd[h].at \in {"recording", "sweeping"} /\ cmd'[h].at \in {"naming", "idle"} =>
       \A r \in db'.rows, q \in db.rows :
         /\ RowAt(db.rows, r.path) = {}
         /\ Real[r.path] \in present /\ Real[q.path] = Real[r.path]
         /\ <<r.path, q.path>> \in SameName
         => \/ RowAt(cmd[h].seen, q.path) = {}
            \/ RowAt(cmd[h].seen, r.path) # {} /\ version = "new"]_vars

\* When the fold commits no row of a linked worktree is left that belongs to
\* another row, so a second fold would change nothing.
FoldIsFinal ==
  \A h \in Hook : At(h, "folding") /\ cmd[h].todo = {} /\ cmd[h].seen = present =>
    \A r \in cmd[h].tables.rows :
      LET target == FoldTarget(r.path, {o.path : o \in cmd[h].tables.rows \ {r}})
      IN  target = NoPath \/ FoldDest(cmd[h].tables.rows, target) = r.path

\* The fold forgets nothing: a row that stays keeps its name and mirror, and
\* what a folded row knew is known of its repository afterwards.
FoldKeepsKnown ==
  \A h \in Hook : At(h, "folding") => \A r \in db.rows :
    \E d \in cmd[h].tables.rows :
      /\ IF RowAt(cmd[h].tables.rows, r.path) # {} THEN d.path = r.path
         ELSE Repo(Real[d.path]) = Repo(Real[r.path]) \/ LostClone(Repo(Real[r.path]))
      /\ r.name # NoName => IF d.path = r.path THEN d.name = r.name ELSE d.name # NoName
      /\ r.mirror # NoPath => IF d.path = r.path THEN d.mirror = r.mirror ELSE d.mirror # NoPath

\* When /disable reports success, no checkout of the repository is captured.
DisabledIsOff ==
  [][\A u \in User : ~At(u, "disabled") /\ cmd'[u].at = "disabled" =>
       \A p \in Path : Real[Key(p)] = Real[Key(cmd[u].dir)] => ~IsEnabled(p)]_vars

=============================================================================
