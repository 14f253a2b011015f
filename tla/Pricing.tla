------------------------------ MODULE Pricing ------------------------------
(***************************************************************************)
(* The pricing table under refreshes and backfills, beside captures,       *)
(* deletions and midnight, and the cached plan summary of the dashboard.   *)
(*                                                                         *)
(* Several commands overlap.  A refresh reads its date and plans against   *)
(* the table in one step and writes in another; a plan run takes a         *)
(* fingerprint, plans in one snapshot, takes the fingerprint again and     *)
(* writes the summary, each in a step of its own; an apply plans, checks,  *)
(* inserts and verifies in one exclusive transaction and removes the       *)
(* summary afterwards.  A command can be killed between any two steps.     *)
(***************************************************************************)
EXTENDS Rates

CONSTANTS
  Refresher,      \* processes that run pricing_update.py for a refresh
  Backfiller,     \* processes that run --backfill-plan or --backfill-apply
  Page,           \* the pages the site serves on a day
  SeedRow,        \* the rows the migration seeds
  LastDay,        \* bound: the days of a behaviour
  MaxDeleted,     \* bound: events ever deleted
  MaxEvents,      \* bound: events ever captured
  MaxCandidates   \* a refresh that would mint more is refused

ASSUME PricingAssumption ==
  /\ Refresher \cap Backfiller = {}
  /\ LastDay \in Nat \ {0} /\ MaxDeleted \in Nat /\ MaxEvents \in Nat /\ MaxCandidates \in Nat
  /\ Page \in [1..LastDay -> SUBSET Seq(Entry)]
  /\ IsFiniteSet(SeedRow)
  /\ SeedRow \subseteq [prefix : Prefix, from : {Seed}, rate : Nat, src : {"seed"}]
  /\ \A r \in SeedRow : r.prefix \in FamilyRow
  /\ \A r, s \in SeedRow : r.prefix = s.prefix => r = s

VARIABLES
  today,    \* the date, UTC
  rows,     \* the pricing table
  events,   \* usage events [model, day]
  gone,     \* events deleted; their row ids are not used again
  cmd,      \* what each command is doing; a refresh's `page` and `seen`, the
            \* table it planned against (not in the code), are for its report
  cache     \* the summary beside the database, or NoSummary; its `missed`
            \* (not in the code) is the usage deleted during the plan

vars == <<today, rows, events, gone, cmd, cache>>

Command == Refresher \cup Backfiller

Idle == [at |-> "idle"]
NoSummary == [offered |-> {}, fp |-> Fingerprint({}, {}), missed |-> {}]

At(p, at) == cmd[p].at = at
Goto(p, state) == cmd' = [cmd EXCEPT ![p] = state]

Row(c) == [prefix |-> c.prefix, from |-> c.from, rate |-> c.rate, src |-> "page"]

\* INSERT OR IGNORE on the unique (prefix, effective_from)
Insert(table, new) ==
  table \cup {n \in new : \A r \in table : r.prefix # n.prefix \/ r.from # n.from}

Init ==
  /\ today = 1
  /\ rows = SeedRow
  /\ events = {} /\ gone = {}
  /\ cmd = [p \in Command |-> Idle]
  /\ cache = NoSummary

Midnight == /\ today < LastDay
            /\ today' = today + 1
            /\ UNCHANGED <<rows, events, gone, cmd, cache>>

\* A hook records usage of today, or of an earlier day when the transcript
\* is read late.
Capture(m, day) ==
  LET e == [model |-> m, day |-> day]
  IN  /\ e \notin events \cup gone
      /\ Cardinality(events \cup gone) < MaxEvents
      /\ events' = events \cup {e}
      /\ UNCHANGED <<today, rows, gone, cmd, cache>>

Delete(e) ==
  /\ Cardinality(gone) < MaxDeleted
  /\ events' = events \ {e} /\ gone' = gone \cup {e}
  /\ UNCHANGED <<today, rows, cmd, cache>>

(***************************************************************************)
(* Refresh                                                                 *)
(***************************************************************************)

RefreshPlan(p, page) ==
  /\ At(p, "idle")
  /\ Cardinality(Candidates(page, today)) <= MaxCandidates
  /\ Goto(p, [at |-> "minting", day |-> today, page |-> page, seen |-> rows,
              warned |-> Warned(rows, page, today),
              new |-> {Row(c) : c \in Planned(rows, page, today)}])
  /\ UNCHANGED <<today, rows, events, gone, cache>>

RefreshApply(p) ==
  /\ At(p, "minting")
  /\ rows' = Insert(rows, cmd[p].new)
  /\ Goto(p, Idle)
  /\ UNCHANGED <<today, events, gone, cache>>

(***************************************************************************)
(* --backfill-plan                                                         *)
(***************************************************************************)

PlanStart(p) ==
  /\ At(p, "idle")
  /\ Goto(p, [at |-> "planning", fp |-> Fingerprint(rows, events), gone |-> gone])
  /\ UNCHANGED <<today, rows, events, gone, cache>>

PlanCompute(p) ==
  /\ At(p, "planning")
  /\ Goto(p, [at |-> "planned", fp |-> cmd[p].fp, gone |-> cmd[p].gone,
              offered |-> Offered(rows, events)])
  /\ UNCHANGED <<today, rows, events, gone, cache>>

\* Mutant of PlanCheck: the summary is written whatever happened meanwhile.
PlanTrust(p) ==
  /\ At(p, "planned")
  /\ Goto(p, [at |-> "writing", fp |-> Fingerprint(rows, events), offered |-> cmd[p].offered,
              missed |-> gone \ cmd[p].gone])
  /\ UNCHANGED <<today, rows, events, gone, cache>>

\* the second fingerprint: a summary is written for a table that stood still
PlanCheck(p) ==
  /\ At(p, "planned")
  /\ Goto(p, IF Fingerprint(rows, events) = cmd[p].fp
             THEN [at |-> "writing", fp |-> cmd[p].fp, offered |-> cmd[p].offered,
                   missed |-> gone \ cmd[p].gone]
             ELSE Idle)
  /\ UNCHANGED <<today, rows, events, gone, cache>>

PlanWrite(p) ==
  /\ At(p, "writing")
  /\ cache' = [offered |-> cmd[p].offered, fp |-> cmd[p].fp, missed |-> cmd[p].missed]
  /\ Goto(p, Idle)
  /\ UNCHANGED <<today, rows, events, gone>>

(***************************************************************************)
(* --backfill-apply: all of the named prefixes or nothing                  *)
(***************************************************************************)

BackfillApply(p, named) ==
  /\ At(p, "idle")
  /\ \E new \in Applied(rows, events, named) : rows' = rows \cup new
  /\ Goto(p, [at |-> "applied"])
  /\ UNCHANGED <<today, events, gone, cache>>

ClearSummary(p) ==
  /\ At(p, "applied")
  /\ cache' = NoSummary
  /\ Goto(p, Idle)
  /\ UNCHANGED <<today, rows, events, gone>>

Kill(p) == /\ ~At(p, "idle")
           /\ Goto(p, Idle)
           /\ UNCHANGED <<today, rows, events, gone, cache>>

Refresh(p) == (\E page \in Page[today] : RefreshPlan(p, page)) \/ RefreshApply(p)

Plan(p) == PlanStart(p) \/ PlanCompute(p) \/ PlanCheck(p) \/ PlanWrite(p)

Backfill(p) == (\E named \in SUBSET (Prefix \ FamilyRow) \ {{}} : BackfillApply(p, named)) \/ ClearSummary(p)

Next ==
  \/ Midnight
  \/ \E m \in Model, day \in 1..today : Capture(m, day)
  \/ \E e \in events : Delete(e)
  \/ \E p \in Refresher : Refresh(p)
  \/ \E p \in Backfiller : Plan(p) \/ Backfill(p)
  \/ \E p \in Command : Kill(p)

Spec == Init /\ [][Next]_vars

\* The banner's line is shown for a summary that offers something, as long as
\* the tables still have the fingerprint it was computed over.
BannerShown ==
  /\ cache.offered # {}
  /\ cache.fp = Fingerprint(rows, events)

-----------------------------------------------------------------------------
(***************************************************************************)
(* Properties                                                              *)
(***************************************************************************)

RowSet == [prefix : Prefix, from : Nat, rate : Nat, src : {"seed", "page", "backfill"}]

TypeOK ==
  /\ today \in 1..LastDay
  /\ rows \subseteq RowSet
  /\ events \cup gone \subseteq [model : Model, day : 1..today]
  /\ events \cap gone = {}
  /\ DOMAIN cmd = Command

\* One rate for a prefix and a date.
UniqueKey(table) == \A r, s \in table : r.prefix = s.prefix /\ r.from = s.from => r = s

\* A refresh in flight holds rows of one rate for a date, none of them dated
\* before the backdate bound.
MintingOK ==
  \A p \in Refresher : At(p, "minting") =>
    /\ cmd[p].day \in 1..today
    /\ cmd[p].new \subseteq RowSet
    /\ UniqueKey(cmd[p].new)
    /\ \A r \in cmd[p].new : r.from >= cmd[p].day - BackdateMaxDays

\* The inductive invariant: whatever commands overlap, the table has one rate
\* for a prefix and a date, and a refresh stays inside the backdate bound.
IndInv == TypeOK /\ UniqueKey(rows) /\ MintingOK

\* Prices of recorded usage stand.  An event is re-priced only from an
\* estimate to its model's own rate, or by a refresh not more than the
\* backdate bound after it; rows are never changed or removed.
PastPricesStand ==
  [][/\ rows \subseteq rows'
     /\ \A e \in events \cap events' : Resolved(rows, e) # Resolved(rows', e) =>
          \/ Estimated(rows, e) /\ OwnPriced(rows', e)
          \/ \E p \in Refresher : At(p, "minting") /\ e.day >= cmd[p].day - BackdateMaxDays]_vars

\* The naming the offers rely on: a prefix names a version of two numbers at
\* most (_PREFIX_RE), so one that refines an estimate is refined no further.
OneLevelOfVersions ==
  \A p \in Prefix :
    ~ /\ \E m \in Model, q \in Prefix :
           <<m, q>> \in Ancestor /\ IsOwn(m, p) /\ Length[q] < Length[p]
      /\ \E m \in Model, q \in Prefix :
           <<m, p>> \in Ancestor /\ IsOwn(m, q) /\ Length[p] < Length[q]

\* Whatever the plan offers the apply accepts: an offer only requires what is
\* offered too, and every set of offers that holds the bundles it requires,
\* alone or together, passes all of apply's checks.
OfferedIsAccepted ==
  LET offers == Offers(rows, events)
      names(cands) == {c.prefix : c \in cands}
      closed(S) == \A o \in S : o.bundle \subseteq {x.cand : x \in S}
  IN  /\ closed(offers)
      /\ \A S \in SUBSET offers \ {{}} :
           closed(S) => Applied(rows, events, names({o.cand : o \in S})) # {}

\* A backfill settles what it was applied for: none of the prefixes it added a
\* row for is a candidate right afterwards.
AppliedSettles ==
  [][\A p \in Backfiller : ~At(p, "applied") /\ cmd'[p].at = "applied" =>
       \A r \in rows' \ rows :
         r.prefix \notin {c.prefix : c \in BackfillCandidates(rows', events')}]_vars

\* The banner of the dashboard speaks of the plan a run would give now, unless
\* usage was deleted while the summary was being computed: a row that came and
\* went in that time leaves no trace in the two fingerprints.
BannerTruthful ==
  BannerShown /\ cache.missed = {} => cache.offered = Offered(rows, events)

\* The warning and the backfill line never speak of the same usage: a model that
\* is listed as without a price of its own has no event a bundle would re-price
\* (build_price_warning: "a backfill is offered precisely for models that now DO
\* have their own price").
WarnedOrOffered ==
  \A m \in WithoutOwnPrice(rows, events), c \in Offered(rows, events) :
    \A e \in c.impact : e.model # m

\* The rate a table charges for a prefix on a day.
Charged(table, p, day) ==
  {r.rate : r \in {x \in table : /\ x.prefix = p /\ x.from <= day
              /\ \A y \in table : y.prefix = p /\ y.from <= day => y.from <= x.from}}

Own(v) == SpecificPrefix[v][1]

\* The report marks a row "already recorded at this date", and it is not inserted.
Ignored(p, v) ==
  \E r \in cmd[p].new : r.prefix \in {Own(v), FamilyPrefix[v]} /\ r \notin rows'

\* Another refresh has written these prefixes since this one planned.
Overtaken(p, v) ==
  \E r \in rows \ cmd[p].seen : r.prefix \in {Own(v), FamilyPrefix[v]} /\ r.src = "page"

\* The newest version's only rates are increases too old to be minted, and they
\* are on record: the default is left alone without a word.
LongRecorded(p, v) ==
  /\ \A c \in Candidates(cmd[p].page, cmd[p].day) : c.prefix # Own(v)
  /\ \E e \in Refused(cmd[p].page, cmd[p].day) :
       e.version = v /\ AlreadyRecorded(cmd[p].seen, e)

\* The newest version's increase starts before a row that was recorded earlier, or
\* is on record while an older increase is added: the default takes the increase,
\* the version itself keeps the other rate.
Shadowed(p, v) ==
  \E c \in Latest(cmd[p].page, cmd[p].day, Own(v)) :
    \/ \E r \in cmd[p].seen : r.prefix = Own(v) /\ c.from < r.from
    \/ \E r \in cmd[p].new : r.prefix = Own(v) /\ r.from < c.from /\ Unchanged(cmd[p].seen, c)

\* No family keeps an old default in silence.  When a refresh has written, the
\* family's default of that day is the rate its newest version's own prefix
\* resolves to (build_candidates), or the report says why not: it warns about that
\* version, or marks one of the two rows "already recorded at this date", unless
\* another refresh wrote them meanwhile.  LongRecorded and Shadowed are the two
\* cases in which the code does neither.
FamilyFollowsNewest ==
  [][\A p \in Refresher : RefreshApply(p) =>
       \A v \in Newest(cmd[p].page) :
         \/ Charged(rows', FamilyPrefix[v], cmd[p].day) = Charged(rows', Own(v), cmd[p].day)
         \/ v \in cmd[p].warned \/ Ignored(p, v)
         \/ Overtaken(p, v)
         \/ LongRecorded(p, v) \/ Shadowed(p, v)]_vars

=============================================================================
