---------------------------- MODULE SchemaLadder ----------------------------
(***************************************************************************)
(* Opening the central database (connect and migrate in                    *)
(* scripts/capture.py).  Every process that opens it creates the baseline  *)
(* tables, and unless stamp and shape are current climbs the ladder of     *)
(* schema hops 2 .. 7 and the data hop 8.  A hop is a row of autocommitted *)
(* statements, a check that what it adds is really there, and the stamp;   *)
(* nothing locks a peer out between them.  Any statement may fail, and a   *)
(* process may be killed between two of them.                              *)
(***************************************************************************)
EXTENDS Integers

CONSTANTS
    Conn,           \* connections that open the database, again and again
    MaxFaults,      \* bound: statements that fail ("locked", "disk full")
    MaxKills        \* bound: processes killed while they migrate

ASSUME LadderAssumption ==
    MaxFaults \in Nat /\ MaxKills \in Nat

VARIABLES
    version,        \* PRAGMA user_version
    shape,          \* the columns, tables and data steps that have landed
    pc, hop, todo,  \* of each connection: stage, hop, columns still to add
    trouble,        \* history: has a statement of this connection failed?
    honest,         \* history: did the file's first stamp tell the truth?
    faults, kills

process == <<pc, hop, todo, trouble, honest>>
bounds == <<faults, kills>>
vars == <<version, shape, process, bounds>>

SchemaVersion == 8
Hop == 2 .. 7
Version == {0} \cup 2 .. SchemaVersion      \* the baseline is not stamped

\* The columns a hop adds with ALTER TABLE.
Columns(k) ==
    CASE k = 2 -> {"issue_key", "task_size", "note"}
      [] k = 3 -> {"mirror_path", "mirror_last_at"}
      [] k = 4 -> {"cache_w_1h", "cache_w_1h_usd"}
      [] k = 5 -> {"name"}
      [] k = 6 -> {"api_calls", "ctx_tokens"}
      [] k = 7 -> {"owner_id"}
      [] OTHER -> {}

\* The table its script creates.
Table(k) ==
    CASE k = 2 -> {"pricing"} [] k = 3 -> {"audit_log"} [] k = 7 -> {"users"} [] OTHER -> {}

\* The post-condition that migrate_vK verifies before it stamps.
Required(k) == Columns(k) \cup (IF k = 2 THEN {} ELSE Table(k))

\* What a stamp k says has been done by hop k.
Promised(k) ==
    Columns(k) \cup Table(k)
        \cup (IF k = 2 THEN {"seed"} ELSE IF k = 8 THEN {"fold"} ELSE {})

Claimed(v) == UNION {Promised(k) : k \in 2 .. v}

\* What the fast path re-checks.
Full == UNION {Required(k) : k \in Hop}

Part == Claimed(SchemaVersion)
Stage == {"alter", "check", "script", "seed", "stamp"}
PC == {"closed", "fast", "fold", "ready"} \cup Stage

TypeOK ==
    /\ version \in Version
    /\ shape \in SUBSET Part
    /\ pc \in [Conn -> PC]
    /\ hop \in [Conn -> Hop]
    /\ todo \in [Conn -> SUBSET Part]
    /\ trouble \in [Conn -> BOOLEAN] /\ honest \in BOOLEAN
    /\ faults \in Nat /\ kills \in Nat

\* A file in the shape of version v.  Releases since hop 4 create the pricing
\* table with its 1-hour column.
ShapeOf(v) ==
    {Claimed(v)} \cup IF v \in {2, 3} THEN {Claimed(v) \cup {"cache_w_1h_usd"}} ELSE {}

\* The stamp may be anything: a restored or edited file, an early stamp.
Init ==
    /\ version \in Version
    /\ \E v \in Version : shape \in ShapeOf(v)
    /\ honest = (Claimed(version) \subseteq shape)
    /\ pc = [c \in Conn |-> "closed"]
    /\ hop = [c \in Conn |-> 2]
    /\ todo = [c \in Conn |-> {}]
    /\ trouble = [c \in Conn |-> FALSE]
    /\ faults = 0 /\ kills = 0

-----------------------------------------------------------------------------
Goto(c, p) == pc' = [pc EXCEPT ![c] = p]

Close(c) ==
    /\ Goto(c, "closed")
    /\ hop' = [hop EXCEPT ![c] = 2]
    /\ todo' = [todo EXCEPT ![c] = {}]
    /\ trouble' = [trouble EXCEPT ![c] = FALSE]
    /\ UNCHANGED honest

Fault == faults < MaxFaults /\ faults' = faults + 1 /\ UNCHANGED kills

\* Hop 7 begins with its table, the others with their columns.
StartHop(c, k) ==
    /\ hop' = [hop EXCEPT ![c] = k]
    /\ todo' = [todo EXCEPT ![c] = Columns(k)]
    /\ Goto(c, IF k = 7 THEN "script" ELSE "alter")

\* Where a hop goes on after a stage.
After(k, stage) ==
    CASE stage = "alter"  -> IF k = 3 THEN "script" ELSE "check"
      [] stage = "check"  -> IF k = 2 THEN "script" ELSE "stamp"
      [] stage = "script" -> IF k = 2 THEN "seed" ELSE IF k = 3 THEN "check" ELSE "alter"
      [] OTHER            -> "stamp"

Continue(c) ==
    /\ Goto(c, After(hop[c], pc[c]))
    /\ UNCHANGED <<hop, todo, trouble, honest>>

\* sqlite3.connect and executescript(SCHEMA): the baseline tables are there,
\* or the connection is not (it raises, as if it had never been opened).
Open(c) ==
    /\ pc[c] = "closed"
    /\ Goto(c, "fast")
    /\ UNCHANGED <<version, shape, hop, todo, trouble, honest, bounds>>

\* Mutant of Current: the fast path trusts the stamp.
CurrentByStamp == version >= SchemaVersion

Current == version >= SchemaVersion /\ Full \subseteq shape

FastPath(c) ==
    /\ pc[c] = "fast" /\ Current
    /\ Goto(c, "ready")
    /\ UNCHANGED <<version, shape, hop, todo, trouble, honest, bounds>>

Climb(c) ==
    /\ pc[c] = "fast" /\ ~Current
    /\ StartHop(c, 2)
    /\ UNCHANGED <<version, shape, trouble, honest, bounds>>

\* A column needs its table: pricing is the work of hop 2.
Addable(x) == x = "cache_w_1h_usd" => "pricing" \in shape

Alter(c, x) ==
    /\ pc[c] = "alter" /\ x \in todo[c]
    /\ shape' = IF Addable(x) THEN shape \cup {x} ELSE shape
    /\ todo' = [todo EXCEPT ![c] = @ \ {x}]
    /\ UNCHANGED <<version, pc, hop, trouble, honest, bounds>>

\* The error is swallowed: the check below will tell.
AlterFails(c, x) ==
    /\ pc[c] = "alter" /\ x \in todo[c] /\ Fault
    /\ todo' = [todo EXCEPT ![c] = @ \ {x}]
    /\ trouble' = [trouble EXCEPT ![c] = TRUE]
    /\ UNCHANGED <<version, shape, pc, hop, honest>>

Altered(c) ==
    /\ pc[c] = "alter" /\ todo[c] = {}
    /\ Continue(c)
    /\ UNCHANGED <<version, shape, bounds>>

\* CREATE TABLE IF NOT EXISTS; a new pricing table has the 1-hour column.
Script(c) ==
    /\ pc[c] = "script"
    /\ shape' = shape \cup Table(hop[c])
                  \cup (IF hop[c] = 2 /\ "pricing" \notin shape THEN {"cache_w_1h_usd"} ELSE {})
    /\ Continue(c)
    /\ UNCHANGED <<version, bounds>>

\* INSERT OR IGNORE of the seed rates unless one is there, and its commit.
Seed(c) ==
    /\ pc[c] = "seed"
    /\ shape' = shape \cup {"seed"}
    /\ Continue(c)
    /\ UNCHANGED <<version, bounds>>

\* Mutant of Holds: the stamp trusts the statements.
HoldsAlways(c) == TRUE

Holds(c) == Required(hop[c]) \subseteq shape

Check(c) ==
    /\ pc[c] = "check" /\ Holds(c)
    /\ Continue(c)
    /\ UNCHANGED <<version, shape, bounds>>

\* The hop did not land: migrate gives up, the connection is used as it is.
CheckFails(c) ==
    /\ pc[c] = "check" /\ ~Holds(c)
    /\ Goto(c, "ready")
    /\ UNCHANGED <<version, shape, hop, todo, trouble, honest, bounds>>

\* PRAGMA user_version, whatever it was.
Stamp(c) ==
    /\ pc[c] = "stamp"
    /\ version' = hop[c]
    /\ IF hop[c] < 7
       THEN StartHop(c, hop[c] + 1)
       ELSE Goto(c, "fold") /\ UNCHANGED <<hop, todo>>
    /\ UNCHANGED <<shape, trouble, honest, bounds>>

\* Mutant of Fold: the version is not read again under the lock.
FoldUnstamped(c) ==
    /\ pc[c] = "fold"
    /\ shape' = shape \cup {"fold"}
    /\ Goto(c, "ready")
    /\ UNCHANGED <<version, hop, todo, trouble, honest, bounds>>

\* migrate_v8: one BEGIN IMMEDIATE transaction reads the version again, folds
\* and stamps.
Fold(c) ==
    /\ pc[c] = "fold"
    /\ IF version < SchemaVersion
       THEN shape' = shape \cup {"fold"} /\ version' = SchemaVersion
       ELSE UNCHANGED <<version, shape>>
    /\ Goto(c, "ready")
    /\ UNCHANGED <<hop, todo, trouble, honest, bounds>>

\* It rolls back, and the connection is used.
FoldFails(c) ==
    /\ pc[c] = "fold" /\ Fault
    /\ Goto(c, "ready")
    /\ UNCHANGED <<version, shape, hop, todo, trouble, honest>>

\* Any other failing statement, a read of the shape included, raises out of
\* connect.
Raise(c) ==
    /\ pc[c] \in {"fast", "check", "script", "seed", "stamp"} /\ Fault
    /\ Close(c)
    /\ UNCHANGED <<version, shape>>

\* The process has done its work.
Done(c) ==
    /\ pc[c] = "ready"
    /\ Close(c)
    /\ UNCHANGED <<version, shape, bounds>>

Kill(c) ==
    /\ pc[c] # "closed" /\ kills < MaxKills
    /\ kills' = kills + 1
    /\ Close(c)
    /\ UNCHANGED <<version, shape, faults>>

-----------------------------------------------------------------------------
Step(c) ==
    \/ Open(c) \/ FastPath(c) \/ Climb(c)
    \/ \E x \in todo[c] : Alter(c, x) \/ AlterFails(c, x)
    \/ Altered(c) \/ Script(c) \/ Seed(c) \/ Check(c) \/ CheckFails(c)
    \/ Stamp(c) \/ Fold(c) \/ FoldFails(c) \/ Raise(c) \/ Done(c)

Next == \E c \in Conn : Step(c) \/ Kill(c)

Spec == Init /\ [][Next]_vars

(***************************************************************************)
(* Fairness: hooks go on opening the database, and a process that runs     *)
(* goes on.  Faults and kills are bounded.                                 *)
(***************************************************************************)
Fairness == \A c \in Conn : WF_vars(Step(c))

FairSpec == Spec /\ Fairness

-----------------------------------------------------------------------------
(***************************************************************************)
(* Properties.                                                             *)
(***************************************************************************)

\* However many processes migrate at once, whichever statements fail and
\* wherever a process dies: a stamp is only ever put on a database that has
\* all that the version promises, the hops below it, the pricing seed and the
\* fold included - even on one whose earlier stamp was wrong (migrate_v2 ..
\* migrate_v8, "never stamp a version the schema does not actually have").
HonestStamps == [][version' # version => Claimed(version') \subseteq shape']_vars

\* So a database that was not mis-stamped never claims what it does not have.
StampImpliesShape == honest => Claimed(version) \subseteq shape

\* The self-heal: a process none of whose statements failed finds every column
\* and table of the current version once connect returns, whatever the stamp
\* said and whatever failed in the peers it overlapped with.
ReadyIsFull == \A c \in Conn : pc[c] = "ready" => trouble[c] \/ Full \subseteq shape

\* The database is brought up to date, again and again: peers that stamp an
\* earlier hop late set the version back, but never for good.
BroughtUpToDate == []<>Current

\* Why: a process at hop k has seen the hops below it land; ...
Climbed(c) ==
    /\ pc[c] \in Stage => Claimed(hop[c] - 1) \subseteq shape
    /\ pc[c] = "fold" => Claimed(7) \subseteq shape

\* ... and of its own hop what lies behind it, for certain once it is checked
\* and short of trouble before.
Landed(c) ==
    /\ pc[c] \in {"alter", "check"} /\ ~trouble[c] => Columns(hop[c]) \ todo[c] \subseteq shape
    /\ pc[c] = "script" /\ hop[c] = 3 /\ ~trouble[c] => Columns(3) \subseteq shape
    /\ pc[c] \in {"script", "seed"} /\ hop[c] = 2 => Columns(2) \subseteq shape
    /\ pc[c] = "seed" => hop[c] = 2 /\ "pricing" \in shape
    /\ pc[c] = "check" => todo[c] = {} /\ (hop[c] # 2 => Table(hop[c]) \subseteq shape)
    /\ pc[c] = "alter" /\ hop[c] = 7 => Table(7) \subseteq shape
    /\ pc[c] = "stamp" => Promised(hop[c]) \subseteq shape
    /\ pc[c] \in {"alter", "script"} => todo[c] \subseteq Columns(hop[c])
    /\ pc[c] = "script" =>
           /\ hop[c] \in {2, 3, 7}
           /\ hop[c] = 3 => todo[c] = {}
           /\ hop[c] = 7 => todo[c] = Columns(7)

IndInv ==
    /\ TypeOK /\ StampImpliesShape /\ ReadyIsFull
    /\ \A c \in Conn : Climbed(c) /\ Landed(c)
=============================================================================
