# A verification development for agent-token-telemetry

This directory holds TLA+ models of the plugin, the TLC configurations
that check them on small instances, and TLAPS proofs of what matters most for
every value of the constants. Source paths are relative to the repository root;
`PROJECT.json` maps every definition to the lines it stands for.

## 1. The system

A session of the coding assistant writes append-only JSON-lines transcripts: one
for the session and one for each sub-agent. The plugin's hooks (`Stop`,
`SubagentStop`, `SessionEnd`) run `scripts/capture.py` once per event. Every firing is
a short-lived process, several may run at once, and the harness kills one that exceeds
its timeout. Slash commands run the other scripts beside them, and one of those leaves a
server behind, the dashboard. What they all share lies in files:

    transcripts --> capture --> central SQLite --> (project mirror SQLite)
                       |              |
                       |              +--> report / dashboard / pricing / backfill
                       +--> remote database (login, REST upserts)
                                 ^ failing that: outbox SQLite, drained later

### Inventory

| Component | State | Operations | Hard parts | What makes it correct |
|---|---|---|---|---|
| Usage capture, `capture.py` `main`, `record`, `sweep_subagents`, `mirror_events` | `cursors`, `events`, `projects` of the central database; the mirror; the marker file | a firing: main slice, name stamp, sweep, mirror, remote | overlapping hooks, lock timeouts, kills between transactions, half-written lines, mode switches | each usage line in exactly one batch; each batch mirrored or missed for a stated reason; every file eventually reached |
| Usage aggregation, `aggregate`, `derive_event_fields` | none (pure), but successive captures add up | sum a slice | a call spread over slices, interleaved calls | never under-counts; exact when no capture ends inside a call |
| Remote write-through, `supabase_backend.py` | outbox file, credentials, remote tables, `_user_synced` | `write_events`, drain, push, enqueue, `login` | lost requests and replies, overlapping drains, foreign keys, row-level security, login before or after registration | a payload taken is delivered or queued; parents before children; eventual delivery |
| Schema ladder, `connect`, `migrate`, `migrate_v2` .. `migrate_v8` | `user_version`, table shapes | climb the hops on every open | every hook opens and may migrate concurrently, no lock between statements, failure part-way, wrong stamps | a stamp never claims what is not there; a capture finds the shape it needs; the file is brought up to date |
| Project identity, `canonical_project_path`, `fold_worktree_projects`, `main_repo_root`, `stamp_project_name` | `projects` and `sessions` rows, aliases, opt-in markers | find or create the row of a directory, fold rows of worktrees, name, enable, disable | lookup before the lock, worktrees that are gone, two spellings of one path, a fold that fails part-way | usage stays with its repository; no second row; the fold forgets nothing; off means off |
| Storage operations, `manage.py`, `migrate_lib.py` | central and mirror databases, marker | export, delete, import, disable, clear mirror metadata | cursors are deleted by session; the same rows in two databases | nothing lost or doubled by export, delete, import |
| Remote migration, `remote_migrate.py` | active backend pointer, remote tables | login, upload, verify, flip, revert | captures during the upload, requests lost | matching counts mean a whole upload, and an undisturbed one matches |
| Settings and identity, `settings.py` | `settings.json` | `ensure_identity`, `set_active_backend`, `set_supabase_config`, `record_auth_identity` | unlocked read-modify-write, a read that answers `{}` when it fails | no old value comes back without an overlap; nothing is lost without one or a failed read |
| Pricing refresh, `pricing_update.py` | `model_pricing` rows | fetch, parse, diff, insert | same-day reruns, backdated rows, introductory rates | a rate in force is never rewritten; no default goes stale in silence |
| Backfill and its cached summary, `pricing_update.py`, `backfill_summary.py` | pricing rows, a cache file | plan, apply, cache | bundles of linked rows; staleness | what is offered is accepted; a fresh cache equals a recomputation |
| Dashboard lifecycle, `dashboard.py` | runtime marker, server process | open, serve, restart, stop, idle exit | two commands at once, ports taken, recycled pids, waits that run out | one server, at the port the tab polls, of the newest version; none ended under a tab, none left alone |
| Reports and dashboard queries, `report.py`, `dashboard.py`, `dashboard.html`, `supabase/reports.sql` | none | resolve prices, cut a window into buckets, aggregate, render | estimates, clock changes | each event at its own price, or an estimate and marked so; every event in a bucket |
| Remote schema, `supabase/schema.sql` | tables, policies | | external: its policies decide which upserts succeed | as used by the outbox |
| Commands and hook registration, `commands/*.md`, `hooks/hooks.json` | none | the orders in which a user runs things | | appear as user actions |

The hazards behind these rows, each at its line, are listed under `hazards` in
`PROJECT.json`, with the properties that watch them.

### How the parts interact

* Capture passes what it has committed centrally, batch by batch, first to the
  mirror and then to `write_events`. The remote is never read to decide what to
  capture. `Capture` ends where the remote push begins and `Outbox` starts there:
  between them flows a number of batches, in the order they were committed.
* A user command changes what a running firing has already read: the marker
  (`SwitchMode` in `Capture`, `Enable` and `Unlink` in `Projects`) and `settings.json`
  (`Login*`, `Register` in `Outbox`, `Write` in `RemoteMigration`). The models give the
  firing its own copy, taken when the code reads it.
* Two firings meet only in the central write lock (`writer`) and in the outbox
  file (`outbox`), which has no lock held over a whole drain.
* One file is seen by several models, each for its own questions: of the central
  database `Capture` has cursors and slices, `SchemaLadder` the version and the columns,
  `Projects` the rows of projects and sessions, `StorageOps` slices that are deleted and
  brought back, `Pricing` the price rows. A firing is one process in all of them:
  gate and project key (`Projects`), open (`SchemaLadder`), transactions (`Capture`), push
  (`Outbox`).
* `RemoteMigration` takes from `Outbox` only what `Delivery` says of it: a push delivers
  or keeps, a drain delivers what was kept. It adds what `Outbox` fixes: commands that
  change the settings, and an upload beside the pushes.
* A refresh and a backfill write the same price rows, and every capture that brings a
  new model changes what a backfill would offer: one model, `Pricing`, has all three and
  the cached summary between them. `Rates` is the arithmetic it shares with the reports.
* The chart (`Timeline`) starts from event rows: `MCUsageSlices` runs both modules.

## 2. Modules

| Module | Role |
|---|---|
| `UsageLedger` | abstract specification: logs consumed in consecutive slices, each in one step |
| `Capture`, `MCCapture` | one session's capture: concurrent hooks, central transactions, sweep, mirror, mode switches, faults and kills |
| `CaptureProofs` | proofs about both, and that `Capture` implements `UsageLedger` |
| `UsageSlices`, `MCUsageSlices` | what `aggregate` adds up in successive slices, against the transcript taken as a whole |
| `Timeline` | the buckets of the dashboard's chart in local time, against the window they cut up |
| `Delivery` | abstract specification: at-least-once delivery |
| `Outbox`, `MCOutbox` | remote write-through: drain, push, outbox, login |
| `OutboxProofs` | proofs about `Outbox`, and that it implements `Delivery` |
| `SchemaLadder`, `MCSchemaLadder` | opening and migrating the central database, by processes that overlap |
| `SchemaLadderProofs` | proofs about `SchemaLadder` |
| `Projects`, `MCProjects` | checkouts, the opt-in gate, the rows of projects and sessions, the fold, enable and disable |
| `ProjectsProofs` | proofs about `Projects` |
| `StorageOps`, `MCStorageOps` | export, validation, deletion and import beside captures and the mirror |
| `CountingProofs` | sums over finite sets, and with them proofs about `StorageOps` and `UsageSlices`; proofs about `Timeline` |
| `RemoteMigration`, `MCRemoteMigration` | settings, upload, counts and flip beside hooks that capture and push |
| `RemoteMigrationProofs` | proofs about `RemoteMigration` |
| `Rates` | operators: resolution of a price, what a page mints, what a backfill offers and applies |
| `Pricing`, `MCPricing` | refreshes, backfills and the cached summary beside captures, deletions and midnight |
| `PricingProofs` | proofs about `Pricing` |
| `Dashboard`, `MCDashboard` | the dashboard's server, its marker, the commands on it and the tabs that poll it |
| `DashboardProofs` | proofs about `Dashboard` |

### Capture

Variables: `log`, `partial` are the transcripts (a line is `"usage"` or
`"plain"`; `partial` says a line is half written); `cursor`, `events`,
`projectRow`, `named`, `stamped` the central database; `writer` SQLite's write
lock; `mirror` the project-local database; `marker` and `clearing` the storage
mode and the second step of switching it; `pc`, `mode`, `slice`, `todo`, `swept`,
`batch` the local state of each firing; `missed` records, for the properties only,
the batches that will not be mirrored and why.

A firing is `Fire` (gate passed, marker read), `Begin` (BEGIN IMMEDIATE) or
`BeginBusy`, `ReadMain` (cursor and file), `CommitMain` (`record` or rollback),
`StampName` (its own transaction; its `database is locked` leaves `main`), then the
sweep: `SweepSkip` and `SweepCheck` compare size and cursor without the lock,
`SweepBegin`, `SweepRead` and `SweepCommit` are a file's transaction, `SweepDone`
and `SweepDeadline` end it, and `MirrorWrite`, `MirrorError`, `Finish` the mirror.
Transactions are split into steps on purpose: that nothing comes between them is
what has to be shown. An error inside one, or `Kill`, rolls back.

Abstracted: file contents beyond "does the line carry usage" (see `UsageSlices`),
byte offsets (counted in lines), sessions other than one (they share no cursor), the
opt-in gate and the project's row (see `Projects`), git metadata (an input).

### UsageSlices and Timeline

`lines` is a transcript of usage lines (message id, group, snapshot), `offset` the
cursor, `total` and `row` what the event rows add up to and say last. `Kept` is the
last-line-wins accumulator of `aggregate`, `ListedLast` the order its dictionary
keeps, `CaptureUsage` one firing. The reference is the same usage computed from the
consumed lines at once (`FinalOf`, `TrueTokens`). Its specification is `SlicesSpec`, a
name of its own, because `CountingProofs` extends this module and `StorageOps` both.

`Timeline` is the chart over those rows, a pure algorithm: `BucketStart` and
`NextBucket` are the functions of those names, `Visited` the keys the loop of
`_timeline` makes. Time is counted in half-hours and a zone changes its clock once;
`Local`, `Instant` and `Fold` are what Python's `datetime` does and are external. Months
have two days and the periods are 1, 2, 2 and 3 days long, so that a change falls into,
before and after every window, at its midnights and in between. A clock is put by two
hours at most (`TimelineAssumption`), which is what the 26 hours in `_next_bucket` allow
for. Nothing depends on a variable, so TLC evaluates the property once.

### Outbox and Delivery

`Fire` reads settings once; `Build` stamps the owner and makes a payload; `Select`,
`NextRow`, `Delete`, `Drained` are `_drain_outbox` (one SELECT, then row by row push
and DELETE by id); `Token`, `Upsert`, `Land` the requests of `_push` in its order
(user, projects, models, sessions, events); `Enqueue` the fallback. `Refused` is an
answer the policies or foreign keys force, `RequestLost` and `ReplyLost` the two ways
a request fails in transit (the second after the remote has done it); `SelectError`,
`DeleteError`, `EnqueueError` a failing outbox file; `Kill` the hook timeout.
`LoginStore` and `LoginRecord` are the two steps of `login`; `Register` is
`ensure_identity`. `IsNextId` is how SQLite numbers an `INTEGER PRIMARY KEY` without
`AUTOINCREMENT`.

A payload's tables are reduced to which parent tables hold their row (`remote`) and
whether its event rows have landed (`delivered`). Payload names are reused once
nothing of the earlier use remains (`Fresh`), so that a run of any length stays
finite. `accepted` and `exposed` are history variables for the properties.

`Delivery` says what is left when processes, requests and rows are taken away:
`Keep` and `Deliver` take a payload, `Drop` takes one out of the queue only when it is
delivered. `ImplementsDelivery` maps `taken` to `accepted`, `pending` to the payloads of
the outbox and `excused` to `exposed`, so a recycled row id is the one way out.

External, modelled from their use: what the Supabase policies and foreign keys accept
(`NeedsOf`, `Allowed`), and that an upsert either happens or does not.

### SchemaLadder

`version` is `PRAGMA user_version`, `shape` the set of columns, tables and data steps
(`"seed"`, `"fold"`) that have landed; `pc`, `hop` and `todo` say where a connection is
in the ladder. `Open` is `connect` up to the baseline script, `FastPath` and `Climb` the
test at the head of `migrate`. A hop is `Alter` or `AlterFails` for each column (the
error is swallowed), `Script` (CREATE TABLE), `Seed` (hop 2), `Check` or `CheckFails`
(the post-condition) and `Stamp`, in the order of that hop (`After`). `Fold` is
`migrate_v8`, one transaction with its own reading of the version. `Raise` is any other
failing statement, which leaves `connect`; `Done` ends a process that has its database.

Each statement is an action, because each autocommits and a peer may come between any
two. The tests of the shape are one step although they are several reads: columns are
only ever added, so a later read can only find more. The baseline script is part of
`Open` (idempotent, and without it the connection does not exist). A file may begin in
the shape of any version with any stamp, since `migrate` expects mis-stamped files.
`trouble` and `honest` are history variables. Which rows the fold moves is in `Projects`.

What the properties do not say: `user_version` may go back. A slow process stamps hop 5
after a fast one has stamped 8, the next open climbs again, and the fold runs a second
time (it finds nothing: `FoldIsFinal`). While processes keep overlapping the version
need not settle at 8 for good, so the liveness property is that the file is current
again and again.

### Projects

A path is a spelling and `Real` the directory it denotes; `Linked` says whose worktree a
directory is, `Under` that a path lies below some `.claude/worktrees/`. `present` are the
directories that exist, `marker` their opt-in markers, `db` the rows of `projects` and
the project of each session.

`Gate` is everything `main` reads before it opens the database (checkout, marker, storage
mode); `FoldBegin`, `FoldRow`, `FoldCommit`, `FoldFails` are `migrate_v8` over a copy of
the tables, one row at a time, `OpenAsIs` an open that does not fold; `Lookup` is
`canonical_project_path`, before the lock; `Record`, `StampName`, `Sweep` the
transactions of the firing as far as these tables go. `Scope` is `repo_scope`, `Unlink`
and `ClearMirrorMeta` are `disable`, `Enable`, `ClearStale`, `RegisterName` the steps of
`/enable`. `RemoveDir` deletes a worktree or clone. Files do not change what they are:
how a `.git` pointer or a kit document is parsed is in the constants.

Not covered: a worktree of *another* repository placed below `.claude/worktrees` (the
fold's first rule would take it for one of the repository around it), markers in
subdirectories, and two user commands at once.

### StorageOps

`rows` and `cursor` are the central database, `mirror` and `export` the other two
places a row can be; each is a bag of slices. `hand` is what a hook has committed and
not yet mirrored, `cmd` the storage command the user is in. `CaptureSlice` is a whole
central transaction (that it may be taken as one step is what `Refinement` proves of
`Capture`). `Export` is `manage.py export`, one transaction out of one snapshot,
`ExportFails` its rollback; `Validate` is step 4 of `storage-separate`; `Confirm` steps 3
and 4 of `storage-delete`; `Delete` is `manage.py delete`; `Import` is `import_project`,
from the mirror or from the export; `Stop` a user who declines. `Merge` keeps the code's
reading of "rows the central database lacks": a source's duplicates are each compared
with what was there before the statement, so both arrive.

Central rows and cursors have one owner (a transcript belongs to one project and one
session for ever). `raced` and `imported` are history variables. Left out: audit rows,
names and `retro_link`, the schema preflight, all export files but the latest. `disable`
is in `Projects`.

A deletion takes the cursors with the rows, so a live transcript is read again from 0
and its usage returns: `RecordedAgain` and `CountedOnceUnlessImported` show that nothing
is lost or doubled by it. What was captured between validation and deletion goes without
being in the export; `ValidatedIsWhole` says so by its premise `~raced`.

### RemoteMigration

`settings` is `settings.json`, `queue` the outbox, `remote` the user's rows as the
policies show them. A hook is `Fire` (settings read), `Commit`, then `Push` or `Retain`
(what `Delivery` promises of a push), `Drain`, `Lose` (killed, or the outbox cannot be
written) or `Leave`. Every writer of the settings is an `Edit` (the file read) and a later
`Write` of the whole file; `RunEdit` is the command around one, `Login` and `Reconcile`
are the two halves of `login`. Every such read is a `ReadSettings`, which may fail and then
answers `{}` (`Empty`), for a hook as for a command; the command goes on from there and
writes it back. `MigrateBegin` and `Login` refuse to start without settings. `do_migrate` is `MigrateBegin`, `SyncUsers`, `ReadSessions`
and `ReadEvents` (two SELECTs), `UploadSession`, `UploadEvent` (chunks of one row),
`CountLocal`, `CountLocalEvents`, `CountRemote`, `CountRemoteEvents`; `RequestFails` and
`ChunkRefused` end it. `Flip` and `Stop` are what the command file makes of its result.

Sessions stand for the four parent tables. `Delete` (a storage command) and
`OtherMachine` set `strange`: from then on totals compare different things and the code
checks nothing else. `crossed`, `overlapped`, `misread`, `spared` and `chosen` are history. Left out:
`retro_link`, audit rows, the full name, the preflight, the printed local counts.

### Rates and Pricing

A model name is reduced to what the code asks of it: which prefixes match it, their
lengths, which of them name only an ancestor version. `Resolved` is
`resolved_subquery`, `IsEstimated` the predicates behind the estimate mark,
`Candidates` and `FamilyDefaults` are `build_candidates`, `Refused`, `Planned`,
`StaleIntros`, `FutureOnlyNewest` the filters and warnings after it, `Warned` the versions
the report warns about: a refused increase that is on record (`AlreadyRecorded`) is not. `BackfillCandidates`,
`Bundle`, `Offers`, `Applied` are the backfill: candidates with the day of their first
row, the closing of bundles, the plan and the checks of an apply.

In `Pricing` a refresh is `RefreshPlan` and `RefreshApply` (date and table are read
long before rows are written, and `Insert` ignores a row whose prefix and date are taken); a plan run is `PlanStart` (fingerprint), `PlanCompute`,
`PlanCheck` (fingerprint again), `PlanWrite`; an apply is `BackfillApply`, one exclusive
transaction, and `ClearSummary`. `Capture`, `Delete`, `Midnight` and `Kill` come between
any two. `BannerShown` is the dashboard's test.

Rates are one number for five prices, time is in days (rows are dated at UTC midnight),
a plan's SELECTs are one step. `cache.missed` is not in the code: it is the usage deleted
while a plan was computed. A row that came and went between the two fingerprints leaves
no trace in them, so the banner is only shown to be truthful without it. The page and the
table a refresh planned against stay in its `cmd` until it has written: `FamilyFollowsNewest`
compares what the report says with the table that comes out.

### Dashboard

`process` is what every process id is (`Gone`, a server `starting`, `serving` or `dying`,
or a program that is not ours), `marker` the runtime file, `tabs` the ports an open page
refreshes itself from, `visiting` pages a browser was told to load, `cmd` what each
terminal is doing. `Begin` reads the marker and picks the newest installed script (one
step); `Reattach`, `Replace`, `OpenAfresh` are `cmd_open`'s cases, `Restart`, `Stop` the
other commands; `Kill`, `Released`, `WaitTimesOut` are `_stop_running`; `Spawn`,
`Answered`, `AwaitTimesOut`, `Record` are `_spawn_detached`; `Unlink` ends `stop`. A server
is `Bind`, `Expire` (the watchdog) and `Die`. `Load`, `Poll`, `CloseTab` and `Tick` are
the browser: a tick is the page's refresh of five minutes, and a server without a request
for eleven minutes ends, which is between the second and the third (`IdleTicks`).
`Update`, `Strange...` and `PidReused` are the world around.

`disturbed` (history) says that commands overlapped, a wait ran out, no port was free or
an id was used again: what the properties except. Left out: a development checkout, a
`--port` other than the default; a tab with auto-refresh off counts as closed; ports
above `LastPort` count as busy.

## 3. Runs

"Passing" runs check the properties on the whole state space of their bounds.

| Run | Question | Bounds | Properties |
|---|---|---|---|
| `capture` | Do overlapping, failing hooks consume each line once, account for each batch, keep to one storage mode, and implement the ledger? | 2 hooks, 1 sub-agent file (`MaxSubLines` = 1), 2 lines in the main transcript, batch limit 1, kit name on, project mode at first, 1 switch by the user, 1 I/O error; hooks symmetric | `ExactlyOnce`, `MirrorAccounted`, `ModeSnapshot`, `ImplementsLedger` |
| `capture_live` | Does a file late in the sweep's order starve? | 2 hooks, 2 sub-agent files, batch limit 1, 1 kill | `AllConsumed` |
| `slices` | Do slices add up to the transcript, and has the chart everything? | 4 lines, 2 message ids (or none), 2 groups, snapshots 0..2; clock changes by half an hour or an hour, both ways, at 5 instants around a midnight, charts at 7 times after it | `NeverUnderCounted`, `ExactBetweenCalls`, `ContextOfLastCall`, `EveryChartWhole` |
| `outbox` | Is a payload lost, a parent missing? | 2 hooks, 3 payload names, 2 batches per firing, drain of 1 row, 2 faults, 1 kill, 2 user actions, identity registered but not logged in; symmetric | `ParentsFirst`, `ImplementsDelivery` |
| `outbox_live` | Is everything delivered in the end? | 1 hook, logged in, 2 faults, 1 kill | `EventuallyDelivered` |
| `schema` | Can overlapping opens leave a stamp that lies, a capture without its columns, or a file that is never finished? | 2 connections that open again and again, all 8 hops, every initial version with every stamp, 1 failing statement, 1 kill | `HonestStamps`, `ReadyIsFull`, `BroughtUpToDate` |
| `storage` | Do export, deletion and import lose or double usage? | 2 transcripts of 2 lines in 2 projects, 1 hook, 1 deletion, 2 imports | `CursorCovered`, `CountedOnceUnlessImported`, `ValidatedIsWhole`, `RecordedAgain` |
| `pricing` | Is recorded usage re-priced behind the user's back, an offer refused, a summary shown that is wrong? | 2 models, 3 prefixes, 3 days with 1, 2 and 2 pages, 1 refresh and 1 backfill at a time, each any number of times, 2 events, 1 deletion, 3 candidates at most | `OfferedIsAccepted`, `BannerTruthful`, `WarnedOrOffered`, `FamilyFollowsNewest`, `PastPricesStand`, `AppliedSettles` |
| `projects` | Does usage leave its repository, the fold forget something, a second row appear, a disabled checkout go on? | a repository with an alias, two linked worktrees and a clone below `.claude/worktrees`; four databases of older versions; 2 hooks (symmetric) and 1 user, 3 firings or commands, 4 row ids | `IndInv`, `FiledAtHome`, `FoldIsFinal`, `FoldKeepsKnown`, `NoUnseenTwin`, `DisabledIsOff` |
| `remote` | Can counts match over an incomplete upload, a pushed row be lost, an update of the settings vanish? | 3 events in 2 sessions, two of them equal in every column, 1 row of another machine, 1 hook, 2 terminals (symmetric), 2 commands, 1 fault, 3 settings to start from; the fault is a lost request or reply, a kill or a read of the settings that fails | `Accounted`, `VerifiedIsWhole`, `UndisturbedMatches`, `SettingsHold` |
| `dashboard` | Do commands leave two servers, an old page, a tab without its server, a server without a tab? | 2 process ids, 2 ports, 2 terminals, 2 commands, 1 update, 1 interference from outside | `OneServer`, `PortKept`, `NoStalePage`, `NeverUnderATab`, `NothingLingers` |

The inductive invariants that are proved (section 5) were checked on the same instances
before their proofs and are not repeated in the runs.

One run checks a statement that the code does not keep; TLC finds the counterexample.

| Run | Statement | What happens |
|---|---|---|
| `outbox_retained` | "On ANY remote/transport error the firing is retained in the local outbox" (`scripts/supabase_backend.py:326`) | of two overlapping drains, the slower one deletes by an id that a newer row has been given meanwhile |

### Where the code does less than it says

Each of these is in a model, and the property named says how far the promise holds.

* *"In project mode capture writes both DBs on every captured turn"*
  (`docs/TELEMETRY-CONTRACT.md:67`): the name stamp meets a locked database, or a
  sub-agent file cannot be read, after the central commit; the exception leaves `main`
  and neither mirror nor remote sees the batch. `MirrorAccounted` names every such batch.
* *Usage counted once per `message.id`* (`README.md:100`): a capture between two lines of
  one call counts it in both slices. `ExactBetweenCalls`.
* *A firing waits in the outbox until the user logs in* (`scripts/supabase_backend.py:591`):
  a payload queued before the login keeps the local owner id, is refused at every drain and
  blocks the rows behind it. `EventuallyDelivered` is about a user who has logged in. Nor
  does login before `register-user`, the documented order, record the account's id:
  rows stay refused until the next login.
* *Duplicates never in the central database* (`docs/TELEMETRY-CONTRACT.md:127`): imported
  rows have no cursors, so a live transcript is recorded again; and what a mirror has twice
  arrives twice. `CountedOnceUnlessImported`.
* *No capture ever creates a second row* (`scripts/capture.py:1056`): two first captures
  that overlap do, under two spellings. `NoUnseenTwin` shows that nothing else does.
* A deleted clone below `.claude/worktrees` looks like a deleted worktree and is folded
  into the repository around it (`LostClone` in `FiledAtHome`).
* A mismatch of counts need not mean an incomplete upload: equal rows are kept once by the
  remote, rows of another machine and rows deleted locally count as well, and with them
  counts can also agree by chance. `VerifiedIsWhole`, `UndisturbedMatches` say without what.
  Changing one's name drops the recorded account id (`scripts/settings.py:157`).
* *The family default is the rate the newest version's own prefix resolves to*
  (`build_candidates`, `scripts/pricing_update.py:850`). A row whose prefix and date are
  taken is ignored (`:1107`): after a second refresh of a day, or a rate corrected for a
  `starting` date that is on record, the two differ, and only the status *already recorded
  at this date* tells (`Ignored`). Nothing tells in two cases. `LongRecorded`: the newest
  version's rates are all increases too old to mint; they are on record, so the warning is
  dropped (`:1288`), and the default stays what it was. `Shadowed`: a candidate is compared with the
  table before the refresh's own inserts, so an increase that starts before a recorded row,
  or an older one added beside one on record, moves the default or the version alone.
* *Re-running enable never re-mints* (`scripts/settings.py:140`) and an update changes its
  own part only: `read_settings` answers `{}` to an unreadable or half-written file
  (`:60`, `TestReadTolerance` in `tests/test_settings.py`), and the update writes that back.
  One command, without an overlap, then mints a second identity, or drops the identity, the
  remote's address or the pointer. `SettingsHold` names that (`misread`) and the overlap,
  and shows that nothing else does it.
* A bundle's list of required prefixes may be longer than needed, because a
  candidate's impact is overwritten while bundles are closed.
* The summary's comment (`scripts/pricing_update.py:2128`) says that a change during the
  plan is noticed; one that is undone again is not (`cache.missed`).
* *The dashboard reattaches* (`commands/dashboard.md:20`): two `open`s that overlap leave
  two servers, one of which no marker names. It ends when nobody looks at it
  (`NothingLingers`). After `stop`, or the idle exit and another `open`, a tab on a port
  other than the default is not revived (`commands/dashboard-stop.md`). A marker whose
  process id is used again makes `stop` signal another program
  (`scripts/dashboard.py:865`).
* The chart's loop does not end where hours are changed by half an hour
  (Australia/Lord_Howe, put back), and in a zone whose day has two midnights
  (America/Havana) the events of the second first hour are left out of the day chart;
  `ChartEnds` and `EveryRowCharted` except just these.

### Why the bounds are enough

* Two hooks: every interaction is through one lock or one file, and the properties
  relate at most two processes (a holder and a contender, a slow and a fast drain).
  The proofs remove the bound for the safety properties.
* One sub-agent file in `capture` already gives two transcripts under one lock; the
  liveness run has two, so that they compete for a batch limit of one, which stands
  for 40. Two lines give a slice before and after the cursor has moved.
* One failure is put at each point of each transaction; a second one meets a state the
  first has already produced (only the counter differs). `capture` has I/O errors and no
  kills and `capture_live` kills and no errors: an error and a kill inside a transaction
  both roll back, and a kill outside one stops a firing where an error would.
* The schema ladder has no bound but two connections, one fault and one kill: its hops
  and columns are all there, and the proofs remove the three.
* Four transcript lines allow two interleaved calls of two lines each, the smallest
  case in which "last line", "last call started" and "last entered" differ.
* Two lines and one hook that fires again and again give a project whose usage is one
  row, two rows, or one row after deletion that overlaps two imported ones; the second
  project shows that a command leaves others alone. A second import meets what the first
  has brought. The proofs remove the bounds.
* A drain of one row stands for 50: a drain of more rows repeats its loop. Three
  payload names allow a row selected, a row deleted and a row that takes over its id.
* Two versions, one of whose prefixes is the ancestor of the other's and matches its
  dated names as well, are the smallest catalogue with a family default, an own price and
  an estimate from a relative. Three days separate yesterday's row, today's and one the
  backdate bound of one day refuses. The site announces an increase of version 5-2 on the
  first day; on the second it lists 5-2 at one rate or with an increase since the first, so
  that two refreshes of that day disagree; on the third, that increase, too old by then and on
  record or not, or an introductory rate that has lapsed. Each warning and each exception of
  `FamilyFollowsNewest` but `Overtaken` occurs: without any one of them the run fails. A
  second refresh in flight meets
  the table only through `Insert`; the theorems have any number of them.
* The directories of `projects` contain each case of the fold's rules once: a spelling
  that is not canonical, a worktree inside and one outside the repository, a clone that
  only looks like one. Three firings or commands are two overlapping and one that meets
  what they left.
* In `remote` two commands are a migration and what disturbs it, or two updates of the
  settings; three events in two sessions let a parent or child be missing, and twins make
  the remote hold fewer. The proofs remove the bounds.
* In `dashboard` a second process id, port and terminal are what a duplicate, a moved
  server and an overlap need. Two commands are "start, then anything". The proofs of the
  safety properties remove the bounds.

Bounds are constants (`Max...`) and appear only in guards. Deadlock is not checked:
a session whose transcripts are full and whose hooks are idle has stopped legitimately.

## 4. Fairness

* `Capture`: a hook process that can step does, and while the session lives hooks go
  on firing (`hooks/hooks.json` registers capture for every stop event, so each turn
  brings one). From some point on no wait for the lock runs out and no sweep meets its
  deadline: the lock is held for milliseconds and the wait is 5 s (`connect`). Nothing
  is assumed of the harness's writes, the user, kills or errors, except that the last
  two are bounded. Without the assumption on timeouts a firing may always lose, and
  `AllConsumed` would be false of the code as well.
* `Outbox`: the same for firings, and a login that has stored its session finishes.
* `SchemaLadder`: hooks go on opening the database, and a process that runs goes on.
  Faults and kills are bounded and nothing is assumed of them.
* `StorageOps`: the hooks of a session go on firing and a hook that has committed goes on
  to the mirror or stops. Captures are strongly fair, because one hook slot serves all
  transcripts and each of them has stop events of its own. Nothing is assumed of the user.
* `Dashboard`: processes are scheduled, a command runs to its end, time passes, and a page
  that refreshes itself polls. Nothing is assumed of the user or of other programs.
* `Projects`, `RemoteMigration`, `Pricing`: safety only, no fairness.

## 5. Proofs

All are for arbitrary constants satisfying the modules' assumptions.

**Ledger** (`CaptureProofs`): `LedgerExactlyOnce` proves `Spec => []ExactlyOnce`.
The invariant is `ExactlyOnce` with the ledger's types. A new slice starts at the
cursor, which no earlier slice has passed, so it is disjoint from all of them and
closes the gap to the new cursor.

**Capture** (`CaptureProofs`): `TypeCorrect`; `InductiveInvariant`, whose parts are
`TypeOK`, `LockHeld` (between BEGIN and COMMIT iff holding the lock), `SliceFresh` (a
slice waiting to be committed starts at the file's cursor) and `SweepRoom` (a file is
opened only below the batch limit, which bounds `swept`). `TypeOK` alone is not
inductive: `swept <= SweepBatch` needs `SweepRoom`, and that the committed slice starts
at the cursor needs that nobody else held the lock since it was read.
`Refinement` proves `Spec => ImplementsLedger`: `CommitMain` and `SweepCommit` of a
non-empty slice are `Consume`, `FinishLine` is `Extend`, all else stutters.
`CaptureExactlyOnce` combines `Refinement` with `LedgerExactlyOnce`.
`CaptureMirrorAccounted` and `CaptureModeSnapshot` go through `MirrorInv`:
`MirrorAccounted` with `SlicesBehind` (a recorded slice lies behind its file's cursor, so
a newly committed one is none of them), `BatchesApart` (a process remembers a batch once,
so taking the head removes it) and `NothingYet` (before its first commit it has nothing to
lose). `StepMoves` reduces the actions to the six ways a step can move a batch between
the recorded, pending, mirrored and given-up ones, and `PlaceStep` is the set argument.

**Outbox** (`OutboxProofs`): `OutboxInductive` proves the conjunction of

* `IdsUnique`: queued ids differ (a new id is above all in the table);
* `SelectionKnown`: a queued row whose id a process still holds is that process's row,
  or its payload is `exposed`; this is the sharpest statement that survives recycled ids;
* `Carries`: which local variables are set at which point;
* `DeletesDelivered`: a row about to be deleted is delivered;
* `PushedBefore`: the place in the push, and the user-row latch, tell what the remote has.

From it follow `OutboxRetains`, `OutboxParentsFirst` and `OutboxRetainsAlone`: where
`\A g, h \in Hook : g = h`, nothing is ever exposed and the documented promise
`Retained` holds. So the loss in `outbox_retained` needs two overlapping drains.
`OutboxImplements` proves `Spec => ImplementsDelivery`: `Build` is `Begin`, `Land` and a
lost reply are `Deliver`, `Enqueue` is `Keep`, `Delete` is `Drop` (this is where
`SelectionKnown` and `DeletesDelivered` are needed), all else stutters.

**Schema ladder** (`SchemaLadderProofs`): `LadderInductive`, `LadderStampsHonestly`
and `LadderReadyIsFull`. `HonestStamps` says nothing of a process in the middle of a hop,
so it is not inductive. What is missing is `Climbed` (a process at hop k has seen
everything up to hop k - 1 land, whatever the version says by now) and `Landed` (of hop k
itself, what lies behind the process's position, for certain after the check and before
it only for a process without trouble). Both survive the steps of others, because
`shape` only grows (`StepAlone`, `OthersKept`); `ActingStep` goes through the actions of
the process itself. The case that is not routine is `AlterStep`: the column of hop 4 on
`pricing` can be added only because hop 4 is reached with hop 2's table in place.

**Sums** (`CountingProofs`). Counts and token totals are folds over finite sets, defined by
a recursive function. The installed provers cannot instantiate an induction rule, but they
can use that a set of naturals has a least element (`LeastNat`, from `WFMin`): a claim
about every subset is refuted at a subset from which no element can be taken
(`LeastSubset`). So a fold exists as the function its equation describes (`SumsExist`), any
element may be taken first (`SumsRemove`), a disjoint union adds up (`SumsUnion`), and
equal sums of ordered summands have equal summands (`SumsCompare`).

**Storage operations** (`CountingProofs`): `StorageInductive`, `StorageCursorCovered`,
`StorageCountedOnce`, `StorageValidatedIsWhole`. To the three properties the invariant
adds that no cursor is past its transcript and `ExportIsPart`: no row of an export
awaiting validation has left the central database. The step that matters for the first
two is the capture: what is recorded of a file lies below its cursor, so the new slice is
disjoint from it; this is what an import breaks and why imported projects are excluded.
For the third it is the validation: the export is a part, the counts are equal, so by
`SumsCompare` it is the whole (`EqualCounts`). A capture after it sets `raced`.

**Usage aggregation** (`CountingProofs`): `SlicesInductive`,
`SlicesNeverUnderCount`, `SlicesExactBetweenCalls`, `SlicesContextOfLastCall`. The
invariant adds that a call has one group and that captures ended behind the cursor, the
last one at it. A slice's counted lines are all final lines of the consumed transcript
afterwards, and the others were final before (`FinalAfterSlice`); the converse fails only
for a line whose call goes on in the slice, which is `Straddled` (`FinalBetweenCalls`).
For the context size `ContextIsLastStarted` shows that the accumulator's order, an id at
its first line with its last snapshot, ends with the call that started last.

**The chart** (`CountingProofs`): `ChartsEnd`, `EveryRowIsCharted` and, of both,
`ChartsAreWhole`, for every zone, window, chart time and length of a month. `LoopVisits`
is about the loop alone: if a growing list of keys starts with the window's first bucket
and each key's next bucket is the next of the list, the rounds make the list up to the
first key past the end, provided one of as many as the model allows is past it. The list
is given outright (`HourKeys`, `LongKeys`), so the recursive function has a solution to
compare with. What is left is arithmetic of one clock change (`InstantValue`: which of two
instants a local time means): a key of a day lies within two hours of its midnight, 26
hours on is in the next day whichever way the clock went (`LongNext`), and local time
goes back over no midnight that is not repeated (`DaysInOrder`).

**Projects** (`ProjectsProofs`): `ProjectsSound` proves `IndInv`: the tables are sound at
every moment of a fold and of a capture, because a fold runs alone, over tables nobody
else has touched (`FoldsAlone`), and a row's key is its path's (`KeysAgree`).
`ProjectsNoUnseenTwin` follows what a hook has seen (`SeenIsKnown`).
`ProjectsFiledAtHome`, `ProjectsFoldKeepsKnown` and `ProjectsFoldIsFinal` follow the fold
row by row: `HomeInv` (a session's row is in its repository, in the fold's copy as well),
`KeepsAll` (what each row knew is somewhere in the copy), `Settled` (a row already visited
has no target left, and no later step gives it one). They need `WorktreesBelong`, on which
the fold relies as well: it goes by the path alone, and below `<M>/.claude/worktrees/`
there are worktrees of `M`'s repository, or clones (`WORKTREE_COMPONENT`,
`scripts/capture.py:941`). The instance that TLC checks satisfies it.
`ProjectsDisabledIsOff` needs `OneUser`, one command at a time: whoever enables a checkout
while another disables the repository gets what came last. Looking for these invariants
showed that three properties were too strong as first stated, each with a counterexample
in a slightly larger instance, now part of the bounds: a clone that was deleted is folded
away (`LostClone`), and a hook may make again a row that it has seen and a fold has since
removed.

**Pricing** (`PricingProofs`): `PricingInductive` (one rate for a prefix and a date, a
refresh in flight inside the backdate bound), `PricesStand`, `BannerIsTruthful`. That
prices stand needs two facts: the apply has verified that it re-prices exactly the
estimates its candidates claim, each to its model's own rate (`AppliedReprices`), and a
row dated after an event does not matter to it (`LaterRowsIrrelevant`), which leaves a
refresh the days from its bound on. The banner's invariant follows a plan from
fingerprint to file: between two equal fingerprints tables have only grown, unless
something was deleted, and so are the same.

The properties of offers need that tables and usage are finite at all times
(`AlwaysFinite`). A bundle grows, by a recursive function, as often as there are
candidates; `BundleGrows` shows that the function exists and `BundleStable` that it has
stopped by then, because every step that adds something adds a candidate. An offered
bundle therefore closes what it touches, which gives `WarningAndOfferDisjoint`, and the
closed union of bundles passes every check of the apply (`ClosedOffersApply`), which is
the second half of `OffersAreAccepted`. Its first half, that what a bundle requires is
offered too, needs `OneLevelOfVersions`: a prefix that refines a shorter estimate is not
itself an estimate that a longer prefix refines. A prefix names
a version of two numbers at most (`_PREFIX_RE`, `scripts/pricing_update.py:97`), so there
is one level. Without it the claim is false: of four prefixes, each longer than the last,
the first is offered with the third, and the third alone is not. `BackfillSettles`: the
first usage that made a prefix a candidate is not older than the row it is given.
`DefaultsFollowNewest` needs an invariant of its own, `ReportInv`: a refresh in flight holds
what it planned against the table it saw, and a row that came since was written by another
refresh, or is a backfill's and dated before a row of its prefix. Then, if nothing is minted
for the newest version, the report warns (`NothingMinted`); otherwise the default
(`DefaultTakes`) and the version (`OwnTakes`) are both charged its latest rate. The run has
one refresh at a time; the theorem has any number, and `Overtaken` occurs only there.

**Remote migration** (`RemoteMigrationProofs`): `RemoteInductive`, with `Accounted`,
`VerifiedIsWhole`, `UndisturbedMatches`, `SettingsHold` as corollaries. The invariant adds
`Mirrored` (what the remote and the pushes hold comes from the central database) and
`Progress` (what a migration has uploaded and counted so far; an update goes on from the
file or from `{}`). The code compares numbers,
so the argument needs cardinalities: the rows uploaded are a part of those counted, the
remote's a subset of the contents counted, and equal totals of nested finite sets mean
equal sets (`FiniteSetTheorems`).

**Dashboard** (`DashboardProofs`): `DashboardInductive`, with `OneServer`, `PortKept`,
`NoStalePage` as corollaries, and `DashboardNeverUnderATab`. The invariant has
`OnePerPort` for every state and, while undisturbed, `OneCommand`, `Expected` (who may run
at which point of the one command), `OnTarget` (a command acts on what the marker names),
`DyingApart` (what still has to die does not hold the port a new server waits for) and
`Newest`. `NeverUnderATab` needs none of it: a page polls more often than a server waits.

Assumptions used: `CaptureAssumption`, `OutboxAssumption`, `LadderAssumption`,
`StorageAssumption`, `SlicesAssumption`, `TimelineAssumption`, `ProjectsAssumption`,
`LegacyAssumption`, `RatesAssumption`, `PricingAssumption`, `RemoteAssumption`,
`DashboardAssumption` (types of the constants; a machine has finitely many transcripts, a
page and the seed finitely many rows; no clock is put by more than two hours; `NoHook` is
no hook; the batch limit is positive; no two prefixes of one name have one length; seed
rows have one rate for a prefix; another machine's rows differ from ours; databases of
older versions are sound). Hypotheses of single theorems, named above:
`WorktreesBelong`, `OneUser`, `OneLevelOfVersions`; the instances satisfy them
(`MCLayoutAssumption`, `MCNamingAssumption`). The runs evaluate all assumptions.

## 6. Only model-checked

* Liveness (`AllConsumed`, `EventuallyDelivered`, `BroughtUpToDate`, `RecordedAgain`,
  `NothingLingers`): the prover handles neither fairness nor ENABLED.

## 7. Not modelled, and the plan

Never, because there is no state or only text processing: report and dashboard
rendering and their SQL sums, the pricing page's HTML parser, the dashboard page apart
from its polling, JSON decoding, the slash commands' prose. `supabase/*.sql` is external
to the scripts and is modelled by what the outbox needs of it.

Not yet:

* A refreshed session (`scripts/supabase_backend.py:605`): two processes refresh, or a
  refresh and a login overlap, and the file keeps one of them. Which tokens the server
  still honours then is not in this repository.
* A firing through `Capture` and `Outbox` in one module: that every committed batch is
  taken by `write_events` or its firing has ended is so far an argument from the two.
* Storage: audit rows, names and users, the preflight, export files beyond the latest.

## 8. Running

    tlc -workers 2 -config MCCapture.cfg MCCapture.tla
    tlapm CaptureProofs.tla
