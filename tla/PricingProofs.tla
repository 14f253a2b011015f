--------------------------- MODULE PricingProofs ---------------------------
(***************************************************************************)
(* For every page, every number of overlapping commands and every history  *)
(* of events: the pricing table keeps one rate for a prefix and a date,    *)
(* and recorded usage is only ever re-priced the way the contract allows.  *)
(***************************************************************************)
EXTENDS Pricing, TLAPS, WellFoundedInduction, FiniteSetTheorems

-----------------------------------------------------------------------------
(* What a page mints. *)

\* Every candidate of a page is a row of the table's shape, dated at most
\* BackdateMaxDays back and never in the future (build_candidates).
LEMMA SpecificInBounds ==
  ASSUME NEW page \in Seq(Entry), NEW day \in Nat, NEW c \in Specific(page, day)
  PROVE  /\ c \in [prefix : Prefix \ FamilyRow, rate : Nat, from : Nat]
         /\ c.from >= day - BackdateMaxDays
<1>1. PICK i \in Kept(page, day) :
        \E p \in Items(SpecificPrefix[page[i].version]) :
          c = [prefix |-> p, rate |-> page[i].rate, from |-> MintedFrom(page[i], day)]
  BY DEF Specific
<1>2. PICK p \in Items(SpecificPrefix[page[i].version]) :
          c = [prefix |-> p, rate |-> page[i].rate, from |-> MintedFrom(page[i], day)]
  BY <1>1
<1>3. i \in DOMAIN page /\ Mints(page, day, page[i])
  BY <1>1 DEF Kept
<1>4. page[i] \in Entry /\ page[i] \in Items(page)
  BY <1>3 DEF Items
<1>5. page[i].version \in Version /\ page[i].rate \in Nat /\ page[i].cond \in Condition
  BY <1>4 DEF Entry
<1>6. p \in Prefix \ FamilyRow
  BY <1>2, <1>5, RatesAssumption DEF Items
<1>7. /\ MintedFrom(page[i], day) \in Nat
      /\ MintedFrom(page[i], day) >= day - BackdateMaxDays
  <2>1. CASE page[i].cond.kind = "starting"
    <3>1. page[i].cond.day \in Nat /\ MintedFrom(page[i], day) = page[i].cond.day
      BY <1>5, <2>1 DEF Condition, MintedFrom
    <3>2. page[i] \notin Refused(page, day)
      BY <1>3, <2>1 DEF Mints
    <3>3. ~(page[i].cond.day < day - BackdateMaxDays)
      BY <3>2, <2>1, <1>4 DEF Refused
    <3> QED BY <3>1, <3>3, RatesAssumption
  <2>2. CASE page[i].cond.kind # "starting"
    BY <2>2, RatesAssumption DEF MintedFrom
  <2> QED BY <2>1, <2>2
<1> QED BY <1>2, <1>5, <1>6, <1>7

\* Of the rows minted for one prefix and date only one is kept.
LEMMA SpecificUnique ==
  ASSUME NEW page \in Seq(Entry), NEW day \in Nat,
         NEW c \in Specific(page, day), NEW d \in Specific(page, day),
         c.prefix = d.prefix, c.from = d.from
  PROVE  c = d
<1>1. PICK i \in Kept(page, day) : \E p \in Items(SpecificPrefix[page[i].version]) :
        c = [prefix |-> p, rate |-> page[i].rate, from |-> MintedFrom(page[i], day)]
  BY DEF Specific
<1>2. PICK j \in Kept(page, day) : \E p \in Items(SpecificPrefix[page[j].version]) :
        d = [prefix |-> p, rate |-> page[j].rate, from |-> MintedFrom(page[j], day)]
  BY DEF Specific
<1>3. i \in DOMAIN page /\ j \in DOMAIN page /\ DOMAIN page = 1..Len(page) /\ Len(page) \in Nat
  BY <1>1, <1>2 DEF Kept
<1>4. page[i].version \in Version /\ page[j].version \in Version
  <2>1. page[i] \in Entry /\ page[j] \in Entry
    BY <1>3
  <2> QED BY <2>1 DEF Entry
<1>5. page[i].version = page[j].version
  <2>1. c.prefix \in Items(SpecificPrefix[page[i].version])
    BY <1>1
  <2>2. c.prefix \in Items(SpecificPrefix[page[j].version])
    BY <1>2
  <2>3. PICK m \in DOMAIN SpecificPrefix[page[i].version] :
          c.prefix = SpecificPrefix[page[i].version][m]
    BY <2>1 DEF Items
  <2>4. PICK n \in DOMAIN SpecificPrefix[page[j].version] :
          c.prefix = SpecificPrefix[page[j].version][n]
    BY <2>2 DEF Items
  <2> QED BY <1>4, <2>3, <2>4, RatesAssumption
<1>6. MintedFrom(page[i], day) = MintedFrom(page[j], day)
  BY <1>1, <1>2
<1>7. ~(i < j) /\ ~(j < i)
  BY <1>1, <1>2, <1>3, <1>5, <1>6 DEF Kept
<1>8. i = j
  BY <1>3, <1>7
<1> QED BY <1>1, <1>2, <1>8

LEMMA NewestVersion ==
  ASSUME NEW page \in Seq(Entry), NEW v \in Newest(page)
  PROVE  v \in Version
<1>1. PICK i \in DOMAIN page : v = page[i].version
  BY DEF Newest
<1>2. page[i] \in Entry
  BY <1>1
<1> QED BY <1>1, <1>2 DEF Entry

\* A family has one newest version, and so one default.
LEMMA NewestUnique ==
  ASSUME NEW page \in Seq(Entry), NEW v \in Newest(page), NEW w \in Newest(page),
         FamilyPrefix[v] = FamilyPrefix[w]
  PROVE  v = w
<1>1. PICK i \in DOMAIN page : IsNewest(page, i) /\ v = page[i].version
  BY DEF Newest
<1>2. PICK j \in DOMAIN page : IsNewest(page, j) /\ w = page[j].version
  BY DEF Newest
<1>3. DOMAIN page = 1..Len(page) /\ Len(page) \in Nat
  OBVIOUS
<1>4. ~(i < j) /\ ~(j < i)
  BY <1>1, <1>2, <1>3 DEF IsNewest
<1> QED BY <1>1, <1>2, <1>3, <1>4

LEMMA CandidatesInBounds ==
  ASSUME NEW page \in Seq(Entry), NEW day \in Nat, NEW c \in Candidates(page, day)
  PROVE  /\ c \in [prefix : Prefix, rate : Nat, from : Nat]
         /\ c.from >= day - BackdateMaxDays
<1>1. CASE c \in Specific(page, day)
  BY <1>1, SpecificInBounds
<1>2. CASE c \in FamilyDefaults(page, day)
  <2>1. PICK v \in Newest(page) : \E x \in Latest(page, day, SpecificPrefix[v][1]) :
          c = [prefix |-> FamilyPrefix[v], rate |-> x.rate, from |-> day]
    BY <1>2 DEF FamilyDefaults
  <2>2. PICK x \in Latest(page, day, SpecificPrefix[v][1]) :
          c = [prefix |-> FamilyPrefix[v], rate |-> x.rate, from |-> day]
    BY <2>1
  <2>3. x.rate \in Nat
    BY <2>2, SpecificInBounds DEF Latest
  <2>4. v \in Version
    BY <2>1, NewestVersion
  <2>5. FamilyPrefix[v] \in Prefix
    BY <2>4, RatesAssumption
  <2> QED BY <2>2, <2>3, <2>5, RatesAssumption
<1> QED BY <1>1, <1>2 DEF Candidates

LEMMA CandidatesUnique ==
  ASSUME NEW page \in Seq(Entry), NEW day \in Nat,
         NEW c \in Candidates(page, day), NEW d \in Candidates(page, day),
         c.prefix = d.prefix, c.from = d.from
  PROVE  c = d
<1>1. ASSUME NEW x \in FamilyDefaults(page, day)
      PROVE  \E v \in Newest(page) : \E y \in Latest(page, day, SpecificPrefix[v][1]) :
               /\ v \in Version
               /\ x = [prefix |-> FamilyPrefix[v], rate |-> y.rate, from |-> day]
               /\ x.prefix \in FamilyRow
  <2>1. PICK v \in Newest(page) : \E y \in Latest(page, day, SpecificPrefix[v][1]) :
          x = [prefix |-> FamilyPrefix[v], rate |-> y.rate, from |-> day]
    BY DEF FamilyDefaults
  <2>2. v \in Version
    BY <2>1, NewestVersion
  <2> QED BY <2>1, <2>2, RatesAssumption
<1>2. ASSUME NEW x \in Specific(page, day)  PROVE x.prefix \notin FamilyRow
  BY SpecificInBounds
<1>3. CASE c \in Specific(page, day) /\ d \in Specific(page, day)
  BY <1>3, SpecificUnique
<1>4. CASE c \in FamilyDefaults(page, day) /\ d \in FamilyDefaults(page, day)
  <2>1. PICK v \in Newest(page) : \E y \in Latest(page, day, SpecificPrefix[v][1]) :
          c = [prefix |-> FamilyPrefix[v], rate |-> y.rate, from |-> day]
    BY <1>1, <1>4
  <2>2. PICK w \in Newest(page) : \E y \in Latest(page, day, SpecificPrefix[w][1]) :
          d = [prefix |-> FamilyPrefix[w], rate |-> y.rate, from |-> day]
    BY <1>1, <1>4
  <2>3. v = w
    BY <2>1, <2>2, NewestUnique
  <2>4. PICK y \in Latest(page, day, SpecificPrefix[v][1]) : c.rate = y.rate
    BY <2>1
  <2>5. PICK z \in Latest(page, day, SpecificPrefix[v][1]) : d.rate = z.rate
    BY <2>2, <2>3
  <2>6. y = z
    <3>1. /\ y \in Specific(page, day) /\ z \in Specific(page, day)
          /\ y.prefix = z.prefix /\ y.from <= z.from /\ z.from <= y.from
      BY <2>4, <2>5 DEF Latest
    <3>2. y.from \in Nat /\ z.from \in Nat
      BY <3>1, SpecificInBounds
    <3> QED BY <3>1, <3>2, SpecificUnique
  <2> QED BY <2>1, <2>2, <2>3, <2>4, <2>5, <2>6
<1> QED BY <1>1, <1>2, <1>3, <1>4 DEF Candidates

-----------------------------------------------------------------------------
(* What a backfill adds. *)

\* The row of a candidate has the table's shape and is dated before every row
\* its prefix already has; a prefix has one candidate at most.
LEMMA CandidateOf ==
  ASSUME NEW table, NEW usage, NEW c \in BackfillCandidates(table, usage)
  PROVE  \E r \in FirstRows(table) : \E e \in First(Triggers(table, usage, r.prefix)) :
           c = Candidate(table, usage, r, e.day)
BY DEF BackfillCandidates

LEMMA CandidateRow ==
  ASSUME NEW table \in SUBSET RowSet, NEW day \in Nat,
         NEW usage \in SUBSET [model : Model, day : 1..day],
         NEW c \in BackfillCandidates(table, usage)
  PROVE  /\ c.row \in RowSet
         /\ \A s \in table : s.prefix = c.row.prefix => c.row.from < s.from
<1>1a. PICK r \in FirstRows(table) : \E e \in First(Triggers(table, usage, r.prefix)) :
        c = Candidate(table, usage, r, e.day)
  BY CandidateOf
<1>1. PICK e \in First(Triggers(table, usage, r.prefix)) :
        r \in FirstRows(table) /\ c = Candidate(table, usage, r, e.day)
  BY <1>1a
<1>2. c.row = [prefix |-> r.prefix, from |-> e.day, rate |-> r.rate, src |-> "backfill"]
  BY <1>1 DEF Candidate, Backdated
<1>3. r \in table /\ r \in RowSet /\ r \in Earliest(table, r.prefix)
  BY <1>1 DEF FirstRows
<1>4. e \in usage /\ e.day \in Nat /\ e.day < r.from
  BY <1>1, <1>3 DEF First, Triggers, Before
<1>5. \A s \in table : s.from \in Nat /\ (s.prefix = r.prefix => r.from <= s.from)
  BY <1>3 DEF Earliest, RowSet
<1> QED BY <1>2, <1>3, <1>4, <1>5 DEF RowSet

LEMMA CandidateUnique ==
  ASSUME NEW table \in SUBSET RowSet, UniqueKey(table), NEW day \in Nat,
         NEW usage \in SUBSET [model : Model, day : 1..day],
         NEW c \in BackfillCandidates(table, usage),
         NEW d \in BackfillCandidates(table, usage), c.row.prefix = d.row.prefix
  PROVE  c = d
<1>1a. PICK r \in FirstRows(table) : \E e \in First(Triggers(table, usage, r.prefix)) :
        c = Candidate(table, usage, r, e.day)
  BY CandidateOf
<1>1. PICK e \in First(Triggers(table, usage, r.prefix)) :
        r \in FirstRows(table) /\ c = Candidate(table, usage, r, e.day)
  BY <1>1a
<1>2a. PICK q \in FirstRows(table) : \E x \in First(Triggers(table, usage, q.prefix)) :
        d = Candidate(table, usage, q, x.day)
  BY CandidateOf
<1>2. PICK x \in First(Triggers(table, usage, q.prefix)) :
        q \in FirstRows(table) /\ d = Candidate(table, usage, q, x.day)
  BY <1>2a
<1>3. r.prefix = q.prefix
  BY <1>1, <1>2 DEF Candidate, Backdated
<1>4. r.from <= q.from /\ q.from <= r.from /\ r.from \in Nat /\ q.from \in Nat
  BY <1>1, <1>2, <1>3 DEF FirstRows, Earliest, RowSet
<1>5. r = q
  BY <1>1, <1>2, <1>3, <1>4 DEF UniqueKey, FirstRows
<1>6. e.day <= x.day /\ x.day <= e.day /\ e.day \in Nat /\ x.day \in Nat
  BY <1>1, <1>2, <1>5 DEF First, Triggers, Before
<1> QED BY <1>1, <1>2, <1>5, <1>6

\* The rows an apply inserts belong to candidates.
LEMMA AppliedRows ==
  ASSUME NEW table, NEW usage, NEW named, NEW new \in Applied(table, usage, named),
         NEW n \in new
  PROVE  \E c \in BackfillCandidates(table, usage) : n = c.row
<1> DEFINE cands == {o.cand : o \in {x \in Offers(table, usage) : x.cand.prefix \in named}}
<1>1. new = {c.row : c \in cands}
  BY DEF Applied
<1>2. PICK o \in Offers(table, usage) : n = o.cand.row
  BY <1>1
<1>3. o.cand \in Closeable(table, usage)
  BY <1>2 DEF Offers
<1> QED BY <1>2, <1>3 DEF Closeable

\* Every event an apply re-prices was an estimate and is priced by a row of
\* its own model afterwards.
LEMMA AppliedReprices ==
  ASSUME NEW table, NEW usage, NEW named, NEW new \in Applied(table, usage, named),
         NEW e \in usage, Resolved(table, e) # Resolved(table \cup new, e)
  PROVE  Estimated(table, e) /\ OwnPriced(table \cup new, e)
<1> DEFINE cands == {o.cand : o \in {x \in Offers(table, usage) : x.cand.prefix \in named}}
<1>1. /\ new = {c.row : c \in cands}
      /\ Repriced(table, usage, cands) = Impact(cands)
      /\ \A x \in Impact(cands) : OwnPriced(With(table, cands), x)
  BY DEF Applied
<1>2. With(table, cands) = table \cup new
  BY <1>1 DEF With
<1>3. e \in Impact(cands)
  BY <1>1, <1>2 DEF Repriced
<1>4. PICK c \in cands : e \in c.impact
  BY <1>3 DEF Impact
<1>5. c \in Closeable(table, usage)
  BY <1>4 DEF Offers
<1> QED BY <1>1, <1>2, <1>3, <1>4, <1>5 DEF Closeable

-----------------------------------------------------------------------------
(* The invariant. *)

\* A row only matters to the events of its day and later.
LEMMA LaterRowsIrrelevant ==
  ASSUME NEW table, NEW more, NEW e, table \subseteq more,
         \A r \in more \ table : ~(r.from <= e.day)
  PROVE  Resolved(table, e) = Resolved(more, e)
<1>1. Usable(table, e) = Usable(more, e)
  BY DEF Usable
<1> QED BY <1>1 DEF Resolved

LEMMA InsertKeepsKeys ==
  ASSUME NEW table, NEW new, UniqueKey(table), UniqueKey(new)
  PROVE  UniqueKey(Insert(table, new))
BY DEF UniqueKey, Insert

LEMMA InitInv == Init => IndInv
<1> SUFFICES ASSUME Init PROVE IndInv
  OBVIOUS
<1>1. TypeOK
  BY PricingAssumption DEF Init, TypeOK, RowSet, Seed
<1>2. UniqueKey(rows)
  BY PricingAssumption DEF Init, UniqueKey
<1>3. MintingOK
  BY DEF Init, MintingOK, At, Idle, Command
<1> QED BY <1>1, <1>2, <1>3 DEF IndInv

\* What a refresh plans stays inside the bounds whatever the page says.
LEMMA PlannedOK ==
  ASSUME NEW page \in Seq(Entry), NEW day \in Nat, NEW table
  PROVE  LET new == {Row(c) : c \in Planned(table, page, day)}
         IN  /\ new \subseteq RowSet
             /\ UniqueKey(new)
             /\ \A r \in new : r.from >= day - BackdateMaxDays
<1> DEFINE new == {Row(c) : c \in Planned(table, page, day)}
<1>1. Planned(table, page, day) \subseteq Candidates(page, day)
  BY DEF Planned
<1>2. \A c \in Candidates(page, day) :
        c.prefix \in Prefix /\ c.rate \in Nat /\ c.from \in Nat
          /\ c.from >= day - BackdateMaxDays
  BY CandidatesInBounds
<1>3. new \subseteq RowSet /\ \A r \in new : r.from >= day - BackdateMaxDays
  BY <1>1, <1>2 DEF Row, RowSet
<1>4. UniqueKey(new)
  BY <1>1, CandidatesUnique DEF UniqueKey, Row
<1> QED BY <1>3, <1>4

\* Every step keeps the invariant.
LEMMA StepInv == IndInv /\ [Next]_vars => IndInv'
<1> SUFFICES ASSUME IndInv, [Next]_vars PROVE IndInv'
  OBVIOUS
<1> USE DEF IndInv, TypeOK, UniqueKey, MintingOK, At, Goto, Idle, Command
<1>1. CASE Midnight
  BY <1>1, PricingAssumption DEF Midnight
<1>2. ASSUME NEW m \in Model, NEW day \in 1..today, Capture(m, day) PROVE IndInv'
  BY <1>2 DEF Capture
<1>3. ASSUME NEW e \in events, Delete(e) PROVE IndInv'
  BY <1>3 DEF Delete
<1>4. ASSUME NEW p \in Refresher, NEW page \in Page[today], RefreshPlan(p, page)
      PROVE  IndInv'
  <2>1. page \in Seq(Entry) /\ today \in Nat
    BY PricingAssumption
  <2> DEFINE new == {Row(c) : c \in Planned(rows, page, today)}
  <2>2. /\ new \subseteq RowSet
        /\ UniqueKey(new)
        /\ \A r \in new : r.from >= today - BackdateMaxDays
    BY <2>1, PlannedOK
  <2> DEFINE v == [at |-> "minting", day |-> today, page |-> page, seen |-> rows,
                   warned |-> Warned(rows, page, today), new |-> new]
  <2>3. Goto(p, v) /\ v.at = "minting" /\ v.day = today /\ v.new = new
    BY <1>4 DEF RefreshPlan
  <2> HIDE DEF v
  <2> HIDE DEF new
  <2> QED BY <1>4, <2>2, <2>3 DEF RefreshPlan
<1>5. ASSUME NEW p \in Refresher, RefreshApply(p) PROVE IndInv'
  <2>1. rows' \subseteq RowSet
    BY <1>5 DEF RefreshApply, Insert
  <2>2. UniqueKey(rows')
    BY <1>5, InsertKeepsKeys DEF RefreshApply
  <2> QED BY <1>5, <2>1, <2>2 DEF RefreshApply
<1>6. ASSUME NEW p \in Backfiller, Plan(p) PROVE IndInv'
  BY <1>6 DEF Plan, PlanStart, PlanCompute, PlanCheck, PlanWrite
<1>7. ASSUME NEW p \in Backfiller, NEW named, BackfillApply(p, named) PROVE IndInv'
  <2>1. PICK new \in Applied(rows, events, named) : rows' = rows \cup new
    BY <1>7 DEF BackfillApply
  <2>2. /\ events \in SUBSET [model : Model, day : 1..today]
        /\ today \in Nat /\ rows \in SUBSET RowSet
    BY PricingAssumption
  <2>3. ASSUME NEW n \in new
        PROVE  n \in RowSet /\ \A s \in rows : s.prefix = n.prefix => n.from < s.from
    BY <2>2, AppliedRows, CandidateRow
  <2>4. ASSUME NEW n \in new, NEW k \in new, n.prefix = k.prefix  PROVE  n = k
    <3>1. PICK c \in BackfillCandidates(rows, events) : n = c.row
      BY AppliedRows
    <3>2. PICK d \in BackfillCandidates(rows, events) : k = d.row
      BY AppliedRows
    <3> QED BY <2>2, <2>4, <3>1, <3>2, CandidateUnique
  <2>5. \A s \in rows : s.from \in Nat
    BY DEF RowSet
  <2>6. UniqueKey(rows')
    BY <2>1, <2>3, <2>4, <2>5
  <2>7. rows' \subseteq RowSet
    BY <2>1, <2>3
  <2> QED BY <1>7, <2>6, <2>7 DEF BackfillApply
<1>8. ASSUME NEW p \in Backfiller, ClearSummary(p) PROVE IndInv'
  BY <1>8 DEF ClearSummary
<1>9. ASSUME NEW p \in Command, Kill(p) PROVE IndInv'
  BY <1>9 DEF Kill
<1>10. CASE UNCHANGED vars
  BY <1>10 DEF vars
<1> QED BY <1>1, <1>2, <1>3, <1>4, <1>5, <1>6, <1>7, <1>8, <1>9, <1>10
        DEF Next, Refresh, Backfill

\* The pricing table keeps one rate for a prefix and a date, and what a refresh
\* is about to write is inside the backdate bound, whatever overlaps.
THEOREM PricingInductive == Spec => []IndInv
<1>1. Init => IndInv
  BY InitInv
<1>2. IndInv /\ [Next]_vars => IndInv'
  BY StepInv
<1> QED BY <1>1, <1>2, PTL DEF Spec

\* One step re-prices recorded usage only from an estimate to the model's own
\* rate, or by a refresh within the backdate bound.
LEMMA StepStands ==
  ASSUME IndInv, [Next]_vars
  PROVE  /\ rows \subseteq rows'
         /\ \A e \in events \cap events' : Resolved(rows, e) # Resolved(rows', e) =>
              \/ Estimated(rows, e) /\ OwnPriced(rows', e)
              \/ \E p \in Refresher : At(p, "minting") /\ e.day >= cmd[p].day - BackdateMaxDays
<1> DEFINE Stands ==
       /\ rows \subseteq rows'
       /\ \A e \in events \cap events' : Resolved(rows, e) # Resolved(rows', e) =>
            \/ Estimated(rows, e) /\ OwnPriced(rows', e)
            \/ \E p \in Refresher : At(p, "minting") /\ e.day >= cmd[p].day - BackdateMaxDays
<1>1. ASSUME rows' = rows PROVE Stands
  BY <1>1
<1>2. ASSUME NEW p \in Refresher, RefreshApply(p) PROVE Stands
  <2>1. rows \subseteq rows' /\ rows' \ rows \subseteq cmd[p].new /\ At(p, "minting")
    BY <1>2 DEF RefreshApply, Insert
  <2>2. /\ cmd[p].new \subseteq RowSet /\ cmd[p].day \in Nat
        /\ \A r \in cmd[p].new : r.from >= cmd[p].day - BackdateMaxDays
    BY <2>1 DEF IndInv, MintingOK, TypeOK
  <2>3. ASSUME NEW e \in events, ~(e.day >= cmd[p].day - BackdateMaxDays)
        PROVE  Resolved(rows, e) = Resolved(rows', e)
    <3>1. e.day \in Nat
      BY DEF IndInv, TypeOK
    <3>2. \A r \in rows' \ rows : ~(r.from <= e.day)
      <4>1. \A r \in cmd[p].new : r.from \in Nat
        BY <2>2 DEF RowSet
      <4> QED BY <2>1, <2>2, <2>3, <3>1, <4>1, RatesAssumption
    <3> QED BY <2>1, <3>2, LaterRowsIrrelevant
  <2> QED BY <2>1, <2>3
<1>3. ASSUME NEW p \in Backfiller, NEW named, BackfillApply(p, named) PROVE Stands
  <2>1. PICK new \in Applied(rows, events, named) : rows' = rows \cup new
    BY <1>3 DEF BackfillApply
  <2> QED BY <2>1, AppliedReprices
<1>4. ASSUME Next, rows' # rows
      PROVE  \/ \E p \in Refresher : RefreshApply(p)
             \/ \E p \in Backfiller : \E named : BackfillApply(p, named)
  BY <1>4 DEF Next, Midnight, Capture, Delete, Refresh, RefreshPlan, Plan, PlanStart,
       PlanCompute, PlanCheck, PlanWrite, Backfill, ClearSummary, Kill
<1>5. ASSUME UNCHANGED vars PROVE rows' = rows
  BY <1>5 DEF vars
<1> QED BY <1>1, <1>2, <1>3, <1>4, <1>5

\* Recorded prices stand: rows are never changed or removed, and an event is
\* re-priced only from an estimate to its model's own rate, or by a refresh at
\* most the backdate bound after it.
THEOREM PricesStand == Spec => PastPricesStand
<1>1. IndInv /\ [Next]_vars =>
        [/\ rows \subseteq rows'
         /\ \A e \in events \cap events' : Resolved(rows, e) # Resolved(rows', e) =>
              \/ Estimated(rows, e) /\ OwnPriced(rows', e)
              \/ \E p \in Refresher : At(p, "minting") /\ e.day >= cmd[p].day - BackdateMaxDays]_vars
  BY StepStands
<1> QED BY <1>1, PricingInductive, PTL DEF Spec, PastPricesStand

-----------------------------------------------------------------------------
(* The banner. *)

\* A plan depends on the rows and on the events before the horizon only.
LEMMA PlanDependsOnFingerprint ==
  ASSUME NEW table, NEW usage
  PROVE  Offered(table, usage) = Offered(table, BeforeHorizon(table, usage))
<1> DEFINE seen == BeforeHorizon(table, usage)
<1>1. ASSUME NEW r \in FirstRows(table)
      PROVE  Before(table, usage, r.prefix) = Before(table, seen, r.prefix)
  <2>1. r \in Earliest(table, r.prefix)
    BY DEF FirstRows
  <2> QED BY <2>1 DEF Before, BeforeHorizon
<1>2. ASSUME NEW r \in FirstRows(table)
      PROVE  Triggers(table, usage, r.prefix) = Triggers(table, seen, r.prefix)
  BY <1>1 DEF Triggers
<1>3. ASSUME NEW r \in FirstRows(table), NEW day
      PROVE  Candidate(table, usage, r, day) = Candidate(table, seen, r, day)
  BY <1>1 DEF Candidate
<1>4. BackfillCandidates(table, usage) = BackfillCandidates(table, seen)
  <2>1. ASSUME NEW c
        PROVE  (\E r \in FirstRows(table) : \E e \in First(Triggers(table, usage, r.prefix)) :
                   c = Candidate(table, usage, r, e.day))
               <=> (\E r \in FirstRows(table) : \E e \in First(Triggers(table, seen, r.prefix)) :
                   c = Candidate(table, seen, r, e.day))
    BY <1>2, <1>3
  <2> QED BY <2>1 DEF BackfillCandidates
<1>5. Closeable(table, usage) = Closeable(table, seen)
  BY <1>4 DEF Closeable
<1>6. Offers(table, usage) = Offers(table, seen)
  BY <1>5 DEF Offers
<1> QED BY <1>6 DEF Offered

\* What the summary's fingerprint stands for.
PlanOf(fp) == Offered(fp.rows, fp.events)

\* A plan in flight was taken over tables that have only grown since, and if
\* nothing was deleted and the fingerprint is the same again it is the plan of
\* that fingerprint; so is every plan that passed the check, and the summary.
SummaryInv ==
  /\ \A p \in Backfiller : At(p, "planning") \/ At(p, "planned") =>
       /\ cmd[p].fp.rows \subseteq rows
       /\ cmd[p].gone \subseteq gone
       /\ gone = cmd[p].gone => cmd[p].fp.events \subseteq events
  /\ \A p \in Backfiller : At(p, "planned") =>
       (gone = cmd[p].gone /\ cmd[p].fp = Fingerprint(rows, events)
          => cmd[p].offered = PlanOf(cmd[p].fp))
  /\ \A p \in Backfiller : At(p, "writing") /\ cmd[p].missed = {}
         => cmd[p].offered = PlanOf(cmd[p].fp)
  /\ cache = NoSummary \/ (cache.missed = {} => cache.offered = PlanOf(cache.fp))

LEMMA SummaryInit == Init => SummaryInv
BY DEF Init, SummaryInv, At, Idle, Command

\* A step that leaves a command alone keeps what SummaryInv says of it.
LEMMA SummaryKept ==
  ASSUME IndInv, SummaryInv, rows \subseteq rows', gone \subseteq gone',
         gone' = gone => events \subseteq events',
         NEW p \in Backfiller, cmd'[p] = cmd[p]
  PROVE  /\ At(p, "planning")' \/ At(p, "planned")' =>
              /\ cmd'[p].fp.rows \subseteq rows'
              /\ cmd'[p].gone \subseteq gone'
              /\ gone' = cmd'[p].gone => cmd'[p].fp.events \subseteq events'
         /\ At(p, "planned")' =>
              (gone' = cmd'[p].gone /\ cmd'[p].fp = Fingerprint(rows', events')
                 => cmd'[p].offered = PlanOf(cmd'[p].fp))
         /\ At(p, "writing")' /\ cmd'[p].missed = {} => cmd'[p].offered = PlanOf(cmd'[p].fp)
<1>1. CASE At(p, "planning") \/ At(p, "planned")
  <2>1. /\ cmd[p].fp.rows \subseteq rows
        /\ cmd[p].gone \subseteq gone
        /\ gone = cmd[p].gone => cmd[p].fp.events \subseteq events
    BY <1>1 DEF SummaryInv
  <2>2. /\ cmd'[p].fp.rows \subseteq rows'
        /\ cmd'[p].gone \subseteq gone'
        /\ gone' = cmd'[p].gone => cmd'[p].fp.events \subseteq events'
    BY <2>1
  <2>3. ASSUME At(p, "planned"), gone' = cmd'[p].gone,
               cmd'[p].fp = Fingerprint(rows', events')
        PROVE  cmd'[p].offered = PlanOf(cmd'[p].fp)
    <3>1. rows' = rows /\ gone' = gone /\ events \subseteq events'
      BY <2>1, <2>3 DEF Fingerprint
    <3>2. cmd[p].fp.events = BeforeHorizon(rows, events')
      BY <2>3, <3>1 DEF Fingerprint
    <3>3. cmd[p].fp.events \subseteq events
      BY <2>1, <2>3, <3>1
    <3>4. BeforeHorizon(rows, events) = BeforeHorizon(rows, events')
      BY <3>1, <3>2, <3>3 DEF BeforeHorizon
    <3>5. cmd[p].fp = Fingerprint(rows, events)
      BY <2>3, <3>1, <3>4 DEF Fingerprint
    <3>6. cmd[p].offered = PlanOf(cmd[p].fp)
      BY <2>3, <3>1, <3>5 DEF SummaryInv
    <3> QED BY <3>6
  <2> QED BY <1>1, <2>2, <2>3 DEF At
<1>2. CASE ~(At(p, "planning") \/ At(p, "planned"))
  BY <1>2 DEF SummaryInv, At
<1> QED BY <1>1, <1>2

\* A step that leaves every command and the summary alone keeps the invariant.
LEMMA SummaryQuiet ==
  ASSUME IndInv, SummaryInv, rows \subseteq rows', gone \subseteq gone',
         gone' = gone => events \subseteq events',
         \A p \in Backfiller : cmd'[p] = cmd[p] \/ cmd'[p] = Idle \/ cmd'[p] = [at |-> "applied"],
         cache' = cache \/ cache' = NoSummary
  PROVE  SummaryInv'
<1>1. ASSUME NEW p \in Backfiller, cmd'[p] = cmd[p]
      PROVE  /\ At(p, "planning")' \/ At(p, "planned")' =>
                  /\ cmd'[p].fp.rows \subseteq rows'
                  /\ cmd'[p].gone \subseteq gone'
                  /\ gone' = cmd'[p].gone => cmd'[p].fp.events \subseteq events'
             /\ At(p, "planned")' =>
                  (gone' = cmd'[p].gone /\ cmd'[p].fp = Fingerprint(rows', events')
                     => cmd'[p].offered = PlanOf(cmd'[p].fp))
             /\ At(p, "writing")' /\ cmd'[p].missed = {} => cmd'[p].offered = PlanOf(cmd'[p].fp)
  BY <1>1, SummaryKept
<1>2. ASSUME NEW p \in Backfiller, cmd'[p] = Idle \/ cmd'[p] = [at |-> "applied"]
      PROVE  ~At(p, "planning")' /\ ~At(p, "planned")' /\ ~At(p, "writing")'
  BY <1>2 DEF At, Idle
<1>3. cache' = NoSummary \/ (cache'.missed = {} => cache'.offered = PlanOf(cache'.fp))
  BY DEF SummaryInv
<1> QED BY <1>1, <1>2, <1>3 DEF SummaryInv

LEMMA SummaryStep == IndInv /\ SummaryInv /\ [Next]_vars => SummaryInv'
<1> SUFFICES ASSUME IndInv, SummaryInv, [Next]_vars PROVE SummaryInv'
  OBVIOUS
<1>1. rows \subseteq rows'
  BY StepStands
<1>2. ASSUME NEW p \in Backfiller, PlanStart(p) PROVE SummaryInv'
  <2>1. /\ cmd'[p] = [at |-> "planning", fp |-> Fingerprint(rows, events), gone |-> gone]
        /\ \A q \in Backfiller : q # p => cmd'[q] = cmd[q]
        /\ rows' = rows /\ events' = events /\ gone' = gone /\ cache' = cache
    BY <1>2 DEF PlanStart, Goto, IndInv, TypeOK, Command
  <2>2. cmd'[p].fp.rows = rows /\ cmd'[p].fp.events \subseteq events /\ cmd'[p].gone = gone
    BY <2>1 DEF Fingerprint, BeforeHorizon
  <2>3. ~At(p, "planned")' /\ ~At(p, "writing")'
    BY <2>1 DEF At
  <2> QED BY <2>1, <2>2, <2>3 DEF SummaryInv, At
<1>3. ASSUME NEW p \in Backfiller, PlanCompute(p) PROVE SummaryInv'
  <2>1. /\ cmd'[p] = [at |-> "planned", fp |-> cmd[p].fp, gone |-> cmd[p].gone,
                      offered |-> Offered(rows, events)]
        /\ \A q \in Backfiller : q # p => cmd'[q] = cmd[q]
        /\ rows' = rows /\ events' = events /\ gone' = gone /\ cache' = cache
        /\ At(p, "planning")
    BY <1>3 DEF PlanCompute, Goto, IndInv, TypeOK, Command
  <2>2. cmd[p].fp = Fingerprint(rows, events) => cmd'[p].offered = PlanOf(cmd'[p].fp)
    BY <2>1, PlanDependsOnFingerprint DEF Fingerprint, PlanOf
  <2>3. ~At(p, "writing")' /\ ~At(p, "planning")'
    BY <2>1 DEF At
  <2> QED BY <2>1, <2>2, <2>3 DEF SummaryInv, At
<1>4. ASSUME NEW p \in Backfiller, PlanCheck(p) PROVE SummaryInv'
  <2>1. /\ \A q \in Backfiller : q # p => cmd'[q] = cmd[q]
        /\ rows' = rows /\ events' = events /\ gone' = gone /\ cache' = cache
        /\ At(p, "planned")
        /\ cmd'[p] = IF Fingerprint(rows, events) = cmd[p].fp
                     THEN [at |-> "writing", fp |-> cmd[p].fp, offered |-> cmd[p].offered,
                           missed |-> gone \ cmd[p].gone]
                     ELSE Idle
    BY <1>4 DEF PlanCheck, Goto, IndInv, TypeOK, Command
  <2>2. ~At(p, "planning")' /\ ~At(p, "planned")'
    BY <2>1 DEF At, Idle
  <2>3. At(p, "writing")' => Fingerprint(rows, events) = cmd[p].fp
    BY <2>1 DEF At, Idle
  <2>4. At(p, "writing")' /\ cmd'[p].missed = {} => cmd'[p].offered = PlanOf(cmd'[p].fp)
    <3> SUFFICES ASSUME At(p, "writing")', cmd'[p].missed = {}
                 PROVE  cmd'[p].offered = PlanOf(cmd'[p].fp)
      OBVIOUS
    <3>1. cmd'[p] = [at |-> "writing", fp |-> cmd[p].fp, offered |-> cmd[p].offered,
                     missed |-> gone \ cmd[p].gone]
      BY <2>1, <2>3
    <3>2. gone \subseteq cmd[p].gone
      BY <3>1
    <3>3. gone = cmd[p].gone
      BY <2>1, <3>2 DEF SummaryInv
    <3>4. cmd'[p].offered = cmd[p].offered /\ cmd'[p].fp = cmd[p].fp
      BY <3>1
    <3> QED BY <2>1, <2>3, <3>3, <3>4 DEF SummaryInv
  <2> QED BY <2>1, <2>2, <2>4 DEF SummaryInv, At
<1>5. ASSUME NEW p \in Backfiller, PlanWrite(p) PROVE SummaryInv'
  <2>1. /\ \A q \in Backfiller : q # p => cmd'[q] = cmd[q]
        /\ rows' = rows /\ events' = events /\ gone' = gone
        /\ cache' = [offered |-> cmd[p].offered, fp |-> cmd[p].fp, missed |-> cmd[p].missed]
        /\ At(p, "writing") /\ cmd'[p] = Idle
    BY <1>5 DEF PlanWrite, Goto, IndInv, TypeOK, Command
  <2>2. cache'.missed = {} => cache'.offered = PlanOf(cache'.fp)
    BY <2>1 DEF SummaryInv
  <2>3. ~At(p, "planning")' /\ ~At(p, "planned")' /\ ~At(p, "writing")'
    BY <2>1 DEF At, Idle
  <2> QED BY <2>1, <2>2, <2>3 DEF SummaryInv, At
<1>6. ASSUME \/ Midnight
             \/ \E m \in Model, day \in 1..today : Capture(m, day)
             \/ \E e \in events : Delete(e)
             \/ UNCHANGED vars
      PROVE  SummaryInv'
  <2>1. gone \subseteq gone' /\ (gone' = gone => events \subseteq events')
    BY <1>6 DEF Midnight, Capture, Delete, vars, IndInv, TypeOK
  <2>2. cmd' = cmd /\ cache' = cache
    BY <1>6 DEF Midnight, Capture, Delete, vars
  <2> QED BY <1>1, <2>1, <2>2, SummaryQuiet
<1>7. ASSUME \/ \E p \in Refresher : Refresh(p)
             \/ \E p \in Backfiller : Backfill(p)
             \/ \E p \in Command : Kill(p)
      PROVE  SummaryInv'
  <2>1. gone' = gone /\ events' = events
    BY <1>7 DEF Refresh, RefreshPlan, RefreshApply, Backfill, BackfillApply, ClearSummary, Kill
  <2>2. cache' = cache \/ cache' = NoSummary
    BY <1>7 DEF Refresh, RefreshPlan, RefreshApply, Backfill, BackfillApply, ClearSummary, Kill
  <2>3. \A q \in Backfiller : cmd'[q] = cmd[q] \/ cmd'[q] = Idle \/ cmd'[q] = [at |-> "applied"]
    BY <1>7, PricingAssumption DEF Refresh, RefreshPlan, RefreshApply, Backfill, BackfillApply,
          ClearSummary, Kill, Goto, IndInv, TypeOK, Command
  <2> QED BY <1>1, <2>1, <2>2, <2>3, SummaryQuiet
<1> QED BY <1>2, <1>3, <1>4, <1>5, <1>6, <1>7 DEF Next, Plan

\* The banner only ever shows the plan a run would compute now, unless usage
\* was deleted while that plan was being computed.
THEOREM BannerIsTruthful == Spec => []BannerTruthful
<1>1. Init => IndInv /\ SummaryInv
  BY InitInv, SummaryInit
<1>2. IndInv /\ SummaryInv /\ [Next]_vars => (IndInv /\ SummaryInv)'
  BY StepInv, SummaryStep
<1>3. SummaryInv => BannerTruthful
  <2> SUFFICES ASSUME SummaryInv, BannerShown, cache.missed = {}
               PROVE  cache.offered = Offered(rows, events)
    BY DEF BannerTruthful
  <2>1. cache # NoSummary
    BY DEF BannerShown, NoSummary
  <2>2. cache.offered = PlanOf(cache.fp) /\ cache.fp = Fingerprint(rows, events)
    BY <2>1 DEF SummaryInv, BannerShown
  <2> QED BY <2>2, PlanDependsOnFingerprint DEF PlanOf, Fingerprint
<1> QED BY <1>1, <1>2, <1>3, PTL DEF Spec

-----------------------------------------------------------------------------
(* Numbers: a set of naturals has a least element, a bounded one a largest. *)

LEMMA LessThanIsWellFounded ==
  \E R : IsWellFoundedOn(R, Nat) /\ \A m, k \in Nat : m < k => <<m, k>> \in R
<1>1. \A m, k \in Nat : m < k => <<m, k>> \in OpToRel(<, Nat)
  BY DEF OpToRel
<1> QED BY <1>1, NatLessThanWellFounded

LEMMA LeastNat ==
  ASSUME NEW T, T \subseteq Nat, T # {}
  PROVE  \E n \in T : \A m \in T : n <= m
<1>1. PICK R : IsWellFoundedOn(R, Nat) /\ \A m, k \in Nat : m < k => <<m, k>> \in R
  BY LessThanIsWellFounded
<1>2. IsWellFoundedOn(R, Nat)
  BY <1>1
<1>3. \E n \in T : \A m \in T : ~ (<<m, n>> \in R)
  BY <1>2, WFMin
<1>4. PICK n \in T : \A m \in T : ~ (<<m, n>> \in R)
  BY <1>3
<1>5. \A m \in T : ~(m < n)
  BY <1>1, <1>4
<1>6. \A m \in T : m \in Nat /\ n \in Nat
  OBVIOUS
<1>7. \A m \in T : n <= m
  BY <1>5, <1>6
<1> QED BY <1>7

LEMMA LargestNat ==
  ASSUME NEW T, T \subseteq Nat, T # {}, NEW b \in Nat, \A n \in T : n <= b
  PROVE  \E n \in T : \A m \in T : m <= n
<1> DEFINE S == {b - n : n \in T}
<1>1. \A n \in T : n \in Nat /\ b - n \in Nat
  OBVIOUS
<1>2. S \subseteq Nat /\ S # {}
  BY <1>1
<1>3. PICK k \in S : \A m \in S : k <= m
  <2> HIDE DEF S
  <2> QED BY <1>2, LeastNat
<1>4. PICK n \in T : k = b - n
  OBVIOUS
<1>5. \A m \in T : b - n <= b - m
  BY <1>3, <1>4
<1>6. \A m \in T : m <= n
  BY <1>1, <1>5
<1> QED BY <1>6

-----------------------------------------------------------------------------
(* The bundle of a candidate grows from the candidate alone. *)

\* f is the growth of a bundle up to step n.
GrowsTo(table, close, c, f, n) ==
  f = [i \in 0..n |-> IF i = 0 THEN {c} ELSE Grow(table, close, f[i - 1])]

LEMMA GrowthExists ==
  ASSUME NEW table, NEW close, NEW c
  PROVE  \A n \in Nat : \E f : GrowsTo(table, close, c, f, n)
<1> DEFINE T == {n \in Nat : ~ \E f : GrowsTo(table, close, c, f, n)}
<1>1. SUFFICES ASSUME T # {} PROVE FALSE
  OBVIOUS
<1>2. PICK n \in T : \A m \in T : n <= m
  <2>1. T \subseteq Nat
    OBVIOUS
  <2> HIDE DEF T
  <2> QED BY <1>1, <2>1, LeastNat
<1>3. n \in Nat /\ ~ \E f : GrowsTo(table, close, c, f, n)
  OBVIOUS
<1>4. CASE n = 0
  <2> DEFINE f == [i \in 0..0 |-> {c}]
  <2>1. f = [i \in 0..0 |-> IF i = 0 THEN {c} ELSE Grow(table, close, f[i - 1])]
    OBVIOUS
  <2> QED BY <1>3, <1>4, <2>1 DEF GrowsTo
<1>5. CASE n # 0
  <2>1. n - 1 \in Nat /\ n - 1 \notin T
    BY <1>2, <1>3, <1>5
  <2>2. PICK f : GrowsTo(table, close, c, f, n - 1)
    BY <2>1
  <2>3. f = [i \in 0..(n - 1) |-> IF i = 0 THEN {c} ELSE Grow(table, close, f[i - 1])]
    BY <2>2 DEF GrowsTo
  <2> DEFINE g == [i \in 0..n |-> IF i = n THEN Grow(table, close, f[n - 1]) ELSE f[i]]
  <2>4. ASSUME NEW i \in 0..n PROVE g[i] = IF i = 0 THEN {c} ELSE Grow(table, close, g[i - 1])
    <3>1. CASE i = 0
      BY <1>3, <1>5, <2>1, <2>3, <3>1
    <3>2. CASE i # 0 /\ i # n
      <4>1. i \in 0..(n - 1) /\ i - 1 \in 0..n /\ i - 1 # n
        BY <1>3, <3>2
      <4>2. g[i] = f[i] /\ g[i - 1] = f[i - 1]
        BY <3>2, <4>1
      <4> QED BY <2>3, <3>2, <4>1, <4>2
    <3>3. CASE i = n
      <4>1. n - 1 \in 0..n /\ n - 1 # n
        BY <1>3, <2>1
      <4> QED BY <1>5, <3>3, <4>1
    <3> QED BY <3>1, <3>2, <3>3
  <2>5. g = [i \in 0..n |-> IF i = 0 THEN {c} ELSE Grow(table, close, g[i - 1])]
    <3>1. g = [i \in 0..n |-> g[i]]
      OBVIOUS
    <3> HIDE DEF g
    <3> QED BY <2>4, <3>1
  <2> QED BY <1>3, <2>5 DEF GrowsTo
<1> QED BY <1>4, <1>5

LEMMA GrowthUnique ==
  ASSUME NEW table, NEW close, NEW c, NEW n \in Nat, NEW m \in Nat, NEW f, NEW g,
         GrowsTo(table, close, c, f, n), GrowsTo(table, close, c, g, m), NEW i \in Nat, i <= n, i <= m
  PROVE  f[i] = g[i]
<1> DEFINE T == {k \in Nat : k <= n /\ k <= m /\ f[k] # g[k]}
<1>1. SUFFICES ASSUME T # {} PROVE FALSE
  OBVIOUS
<1>2. PICK k \in T : \A l \in T : k <= l
  <2>1. T \subseteq Nat
    OBVIOUS
  <2> HIDE DEF T
  <2> QED BY <1>1, <2>1, LeastNat
<1>3. k \in Nat /\ k <= n /\ k <= m /\ f[k] # g[k]
  OBVIOUS
<1>4. /\ f = [j \in 0..n |-> IF j = 0 THEN {c} ELSE Grow(table, close, f[j - 1])]
      /\ g = [j \in 0..m |-> IF j = 0 THEN {c} ELSE Grow(table, close, g[j - 1])]
  BY DEF GrowsTo
<1>5. k \in 0..n /\ k \in 0..m
  BY <1>3
<1>6. k # 0
  BY <1>3, <1>4, <1>5
<1>7. k - 1 \in Nat /\ k - 1 \notin T
  BY <1>2, <1>3, <1>6
<1>8. f[k - 1] = g[k - 1]
  BY <1>3, <1>7
<1> QED BY <1>3, <1>4, <1>5, <1>6, <1>8

\* g is the growth of the bundle of c, step by step.
Growth(table, close, c, g) ==
  g[0] = {c} /\ \A n \in Nat : g[n + 1] = Grow(table, close, g[n])

\* Where the growth ends is the bundle (_close_bundles).
LEMMA BundleGrows ==
  ASSUME NEW table, NEW close, NEW c
  PROVE  \E g : /\ Growth(table, close, c, g)
                /\ Cardinality(close) \in Nat => Bundle(table, close, c) = g[Cardinality(close)]
<1> DEFINE path(n) == CHOOSE f : GrowsTo(table, close, c, f, n)
           h == [n \in Nat |-> path(n)[n]]
<1>1. \A n \in Nat : GrowsTo(table, close, c, path(n), n)
  BY GrowthExists
<1>2. ASSUME NEW n \in Nat PROVE h[n] = IF n = 0 THEN {c} ELSE Grow(table, close, h[n - 1])
  <2>1. path(n) = [i \in 0..n |-> IF i = 0 THEN {c} ELSE Grow(table, close, path(n)[i - 1])]
    BY <1>1 DEF GrowsTo
  <2>2. h[n] = IF n = 0 THEN {c} ELSE Grow(table, close, path(n)[n - 1])
    <3>1. h[n] = path(n)[n] /\ n \in 0..n
      OBVIOUS
    <3>2. ASSUME NEW f, f = [i \in 0..n |-> IF i = 0 THEN {c} ELSE Grow(table, close, f[i - 1])]
          PROVE  f[n] = IF n = 0 THEN {c} ELSE Grow(table, close, f[n - 1])
      BY <3>1, <3>2
    <3> HIDE DEF path
    <3> QED BY <2>1, <3>1, <3>2
  <2>3. CASE n # 0
    <3>1. n - 1 \in Nat /\ n - 1 <= n
      BY <2>3
    <3>2. path(n)[n - 1] = path(n - 1)[n - 1]
      <4> HIDE DEF path
      <4> QED BY <1>1, <3>1, GrowthUnique
    <3>3. h[n - 1] = path(n - 1)[n - 1]
      BY <3>1
    <3> QED BY <2>2, <2>3, <3>2, <3>3
  <2> QED BY <2>2, <2>3
<1>3. h = [n \in Nat |-> IF n = 0 THEN {c} ELSE Grow(table, close, h[n - 1])]
  <2>1. h = [n \in Nat |-> h[n]]
    OBVIOUS
  <2> HIDE DEF h
  <2> QED BY <1>2, <2>1
<1> DEFINE g == CHOOSE grown : grown = [n \in Nat |-> IF n = 0 THEN {c} ELSE Grow(table, close, grown[n - 1])]
<1>4. g = [n \in Nat |-> IF n = 0 THEN {c} ELSE Grow(table, close, g[n - 1])]
  <2> HIDE DEF h
  <2> QED BY <1>3
<1>5. Bundle(table, close, c) = g[Cardinality(close)]
  BY DEF Bundle
<1> HIDE DEF g
<1>6. g[0] = {c} /\ \A n \in Nat : g[n + 1] = Grow(table, close, g[n])
  <2>1. g[0] = {c}
    BY <1>4
  <2>2. ASSUME NEW n \in Nat PROVE g[n + 1] = Grow(table, close, g[n])
    <3>1. n + 1 \in Nat /\ n + 1 # 0 /\ (n + 1) - 1 = n
      OBVIOUS
    <3> QED BY <1>4, <3>1
  <2> QED BY <2>1, <2>2
<1> QED BY <1>5, <1>6 DEF Growth

-----------------------------------------------------------------------------
(* The table and the usage are finite at all times. *)

LEMMA FiniteImage ==
  ASSUME NEW S, IsFiniteSet(S), NEW f
  PROVE  IsFiniteSet({f[x] : x \in S})
<1> DEFINE T == {f[x] : x \in S}
           g == [x \in S |-> f[x]]
<1>1. g \in Surjection(S, T)
  BY DEF Surjection
<1>2. IsFiniteSet(T)
  <2> HIDE DEF T, g
  <2> QED BY <1>1, FS_Surjection
<1> QED BY <1>2

LEMMA FiniteCandidates ==
  ASSUME NEW page \in Seq(Entry), NEW day \in Nat
  PROVE  IsFiniteSet(Candidates(page, day))
<1>1. IsFiniteSet(DOMAIN page)
  <2>1. DOMAIN page = 1..Len(page) /\ Len(page) \in Nat
    OBVIOUS
  <2> QED BY <2>1, FS_Interval
<1>2. IsFiniteSet(Specific(page, day))
  <2> DEFINE minted == [i \in Kept(page, day) |->
                {[prefix |-> p, rate |-> page[i].rate, from |-> MintedFrom(page[i], day)] :
                   p \in Items(SpecificPrefix[page[i].version])}]
  <2>1. IsFiniteSet(Kept(page, day))
    <3>1. Kept(page, day) \subseteq DOMAIN page
      BY DEF Kept
    <3> QED BY <1>1, <3>1, FS_Subset
  <2>2. ASSUME NEW i \in Kept(page, day) PROVE IsFiniteSet(minted[i])
    <3> DEFINE seq == SpecificPrefix[page[i].version]
               row == [p \in Items(seq) |->
                         [prefix |-> p, rate |-> page[i].rate, from |-> MintedFrom(page[i], day)]]
    <3>1. page[i].version \in Version
      <4>1. i \in DOMAIN page
        BY DEF Kept
      <4>2. page[i] \in Entry
        BY <4>1
      <4> QED BY <4>2 DEF Entry
    <3>2. seq \in Seq(Prefix \ FamilyRow)
      BY <3>1, RatesAssumption
    <3>3. IsFiniteSet(Items(seq))
      <4>1. IsFiniteSet(DOMAIN seq)
        <5> HIDE DEF seq
        <5>1. DOMAIN seq = 1..Len(seq) /\ Len(seq) \in Nat
          BY <3>2
        <5> QED BY <5>1, FS_Interval
      <4> HIDE DEF seq
      <4> QED BY <4>1, FiniteImage DEF Items
    <3>4. IsFiniteSet({row[p] : p \in Items(seq)})
      <4> HIDE DEF row, seq
      <4> QED BY <3>3, FiniteImage
    <3> QED BY <3>4
  <2>3. IsFiniteSet(UNION {minted[i] : i \in Kept(page, day)})
    <3>1. IsFiniteSet({minted[i] : i \in Kept(page, day)})
      <4> HIDE DEF minted
      <4> QED BY <2>1, FiniteImage
    <3> HIDE DEF minted
    <3> QED BY <2>2, <3>1, FS_UNION
  <2>4. {minted[i] : i \in Kept(page, day)} =
        {{[prefix |-> p, rate |-> page[i].rate, from |-> MintedFrom(page[i], day)] :
             p \in Items(SpecificPrefix[page[i].version])} : i \in Kept(page, day)}
    OBVIOUS
  <2>5. Specific(page, day) = UNION {minted[i] : i \in Kept(page, day)}
    <3> HIDE DEF minted
    <3> QED BY <2>4 DEF Specific
  <2> HIDE DEF minted
  <2> QED BY <2>3, <2>5
<1>3. IsFiniteSet(FamilyDefaults(page, day))
  <2> DEFINE default == [v \in Newest(page) |->
                {[prefix |-> FamilyPrefix[v], rate |-> c.rate, from |-> day] :
                   c \in Latest(page, day, SpecificPrefix[v][1])}]
  <2>1. IsFiniteSet(Newest(page))
    <3> DEFINE K == {j \in DOMAIN page : IsNewest(page, j)}
               version == [i \in K |-> page[i].version]
    <3>1. IsFiniteSet(K)
      BY <1>1, FS_Subset
    <3>2. IsFiniteSet({version[i] : i \in K})
      <4> HIDE DEF K, version
      <4> QED BY <3>1, FiniteImage
    <3> QED BY <3>2 DEF Newest
  <2>2. ASSUME NEW v \in Newest(page) PROVE IsFiniteSet(default[v])
    <3> DEFINE L == Latest(page, day, SpecificPrefix[v][1])
               row == [c \in L |-> [prefix |-> FamilyPrefix[v], rate |-> c.rate, from |-> day]]
    <3>1. IsFiniteSet(L)
      <4>1. L \subseteq Specific(page, day)
        BY DEF Latest
      <4> HIDE DEF L
      <4> QED BY <1>2, <4>1, FS_Subset
    <3>2. IsFiniteSet({row[c] : c \in L})
      <4> HIDE DEF L, row
      <4> QED BY <3>1, FiniteImage
    <3> QED BY <3>2
  <2>3. IsFiniteSet(UNION {default[v] : v \in Newest(page)})
    <3>1. IsFiniteSet({default[v] : v \in Newest(page)})
      <4> HIDE DEF default
      <4> QED BY <2>1, FiniteImage
    <3> HIDE DEF default
    <3> QED BY <2>2, <3>1, FS_UNION
  <2>4. \A v \in Newest(page) :
          default[v] = {[prefix |-> FamilyPrefix[v], rate |-> c.rate, from |-> day] :
                          c \in Latest(page, day, SpecificPrefix[v][1])}
    OBVIOUS
  <2>5. FamilyDefaults(page, day) = UNION {default[v] : v \in Newest(page)}
    <3> HIDE DEF default
    <3> QED BY <2>4 DEF FamilyDefaults
  <2> QED BY <2>3, <2>5
<1> QED BY <1>2, <1>3, FS_Union DEF Candidates

LEMMA FiniteCloseable ==
  ASSUME NEW table, IsFiniteSet(table), NEW usage, IsFiniteSet(usage)
  PROVE  IsFiniteSet(Closeable(table, usage))
<1> DEFINE owed == [r \in FirstRows(table) |->
              {Candidate(table, usage, r, e.day) : e \in First(Triggers(table, usage, r.prefix))}]
<1>1. IsFiniteSet(FirstRows(table))
  <2>1. FirstRows(table) \subseteq table
    BY DEF FirstRows
  <2> QED BY <2>1, FS_Subset
<1>2. ASSUME NEW r \in FirstRows(table) PROVE IsFiniteSet(owed[r])
  <2> DEFINE F == First(Triggers(table, usage, r.prefix))
             cand == [e \in F |-> Candidate(table, usage, r, e.day)]
  <2>1. IsFiniteSet(F)
    <3>1. F \subseteq usage
      BY DEF First, Triggers, Before
    <3> HIDE DEF F
    <3> QED BY <3>1, FS_Subset
  <2>2. IsFiniteSet({cand[e] : e \in F})
    <3> HIDE DEF F, cand
    <3> QED BY <2>1, FiniteImage
  <2> QED BY <2>2
<1>3. IsFiniteSet(UNION {owed[r] : r \in FirstRows(table)})
  <2>1. IsFiniteSet({owed[r] : r \in FirstRows(table)})
    <3> HIDE DEF owed
    <3> QED BY <1>1, FiniteImage
  <2> HIDE DEF owed
  <2> QED BY <1>2, <2>1, FS_UNION
<1>4. ASSUME NEW c \in Closeable(table, usage) PROVE c \in UNION {owed[r] : r \in FirstRows(table)}
  <2>1. c \in BackfillCandidates(table, usage)
    BY DEF Closeable
  <2>2. PICK r \in FirstRows(table) : \E e \in First(Triggers(table, usage, r.prefix)) :
          c = Candidate(table, usage, r, e.day)
    BY <2>1, CandidateOf
  <2>3. c \in owed[r]
    BY <2>2
  <2> QED BY <2>2, <2>3
<1> QED BY <1>3, <1>4, FS_Subset

\* What a refresh in flight holds is finite as well.
Finite ==
  /\ IsFiniteSet(rows) /\ IsFiniteSet(events)
  /\ \A p \in Refresher : At(p, "minting") => IsFiniteSet(cmd[p].new)

LEMMA FiniteStep == IndInv /\ Finite /\ [Next]_vars => Finite'
<1> SUFFICES ASSUME IndInv, Finite, [Next]_vars PROVE Finite'
  OBVIOUS
<1>0. DOMAIN cmd = Command /\ today \in Nat
  BY PricingAssumption DEF IndInv, TypeOK
<1>1. ASSUME NEW p \in Command, NEW v, Goto(p, v), v.at = "minting" => IsFiniteSet(v.new)
      PROVE  \A q \in Refresher : (At(q, "minting") => IsFiniteSet(cmd[q].new))'
  BY <1>0, <1>1 DEF Goto, At, Finite, Command
<1>2. ASSUME UNCHANGED cmd PROVE \A q \in Refresher : (At(q, "minting") => IsFiniteSet(cmd[q].new))'
  BY <1>2 DEF At, Finite
<1>3. CASE UNCHANGED vars \/ Midnight
  BY <1>2, <1>3 DEF vars, Midnight, Finite
<1>4. ASSUME NEW m \in Model, NEW day \in 1..today, Capture(m, day) PROVE Finite'
  BY <1>2, <1>4, FS_AddElement DEF Capture, Finite
<1>5. ASSUME NEW e \in events, Delete(e) PROVE Finite'
  BY <1>2, <1>5, FS_RemoveElement DEF Delete, Finite
<1>6. ASSUME NEW p \in Refresher, NEW page \in Page[today], RefreshPlan(p, page) PROVE Finite'
  <2> DEFINE new == {Row(c) : c \in Planned(rows, page, today)}
             row == [c \in Planned(rows, page, today) |-> Row(c)]
  <2>1. page \in Seq(Entry)
    BY PricingAssumption DEF IndInv, TypeOK
  <2>2. IsFiniteSet(Planned(rows, page, today))
    BY <1>0, <2>1, FiniteCandidates, FS_Subset DEF Planned
  <2>3. IsFiniteSet({row[c] : c \in Planned(rows, page, today)})
    <3> HIDE DEF row
    <3> QED BY <2>2, FiniteImage
  <2>4. IsFiniteSet(new)
    BY <2>3
  <2>5. (\E v : Goto(p, v) /\ v.new = new) /\ UNCHANGED <<rows, events>>
    BY <1>6 DEF RefreshPlan
  <2> HIDE DEF new
  <2> QED BY <1>1, <2>4, <2>5 DEF Finite, Command
<1>7. ASSUME NEW p \in Refresher, RefreshApply(p) PROVE Finite'
  <2>1. IsFiniteSet(cmd[p].new) /\ rows' = Insert(rows, cmd[p].new) /\ UNCHANGED events
    BY <1>7 DEF RefreshApply, Finite
  <2>2. rows' \subseteq rows \cup cmd[p].new
    BY <2>1 DEF Insert
  <2>3. IsFiniteSet(rows')
    BY <2>1, <2>2, FS_Union, FS_Subset DEF Finite
  <2>4. Goto(p, Idle)
    BY <1>7 DEF RefreshApply
  <2> QED BY <1>1, <2>1, <2>3, <2>4 DEF Finite, Command, Idle
<1>8. ASSUME NEW p \in Command, NEW v, Goto(p, v), v.at # "minting", UNCHANGED <<rows, events>> PROVE Finite'
  BY <1>1, <1>8 DEF Finite
<1>9. ASSUME NEW p \in Backfiller, Plan(p) PROVE Finite'
  <2>1. \E v : Goto(p, v) /\ v.at # "minting"
    <3>1. CASE PlanStart(p)
      BY <3>1 DEF PlanStart
    <3>2. CASE PlanCompute(p)
      BY <3>2 DEF PlanCompute
    <3>3. CASE PlanCheck(p)
      BY <3>3 DEF PlanCheck, Idle
    <3>4. CASE PlanWrite(p)
      BY <3>4 DEF PlanWrite, Idle
    <3> QED BY <1>9, <3>1, <3>2, <3>3, <3>4 DEF Plan
  <2>2. UNCHANGED <<rows, events>>
    BY <1>9 DEF Plan, PlanStart, PlanCompute, PlanCheck, PlanWrite
  <2> QED BY <1>8, <2>1, <2>2 DEF Command
<1>10. ASSUME NEW p \in Backfiller, Backfill(p) PROVE Finite'
  <2>1. CASE ClearSummary(p)
    <3>1. Goto(p, Idle) /\ UNCHANGED <<rows, events>> /\ Idle.at # "minting"
      BY <2>1 DEF ClearSummary, Idle
    <3> QED BY <1>8, <3>1 DEF Command
  <2>2. ASSUME NEW named, BackfillApply(p, named) PROVE Finite'
    <3>1. PICK new \in Applied(rows, events, named) : rows' = rows \cup new
      BY <2>2 DEF BackfillApply
    <3> DEFINE cands == {o.cand : o \in {x \in Offers(rows, events) : x.cand.prefix \in named}}
               row == [c \in cands |-> c.row]
    <3>2. IsFiniteSet(cands)
      <4>1. cands \subseteq Closeable(rows, events)
        BY DEF Offers
      <4>2. IsFiniteSet(Closeable(rows, events))
        BY FiniteCloseable DEF Finite
      <4> HIDE DEF cands
      <4> QED BY <4>1, <4>2, FS_Subset
    <3>3. IsFiniteSet({row[c] : c \in cands})
      <4> HIDE DEF cands, row
      <4> QED BY <3>2, FiniteImage
    <3>4. new = {row[c] : c \in cands}
      BY <3>1 DEF Applied
    <3>5. IsFiniteSet(rows')
      <4> HIDE DEF cands, row
      <4> QED BY <3>1, <3>3, <3>4, FS_Union DEF Finite
    <3>6. Goto(p, [at |-> "applied"]) /\ UNCHANGED events
      BY <2>2 DEF BackfillApply
    <3> QED BY <1>1, <3>5, <3>6 DEF Finite, Command
  <2> QED BY <1>10, <2>1, <2>2 DEF Backfill
<1>11. ASSUME NEW p \in Command, Kill(p) PROVE Finite'
  <2>1. Goto(p, Idle) /\ UNCHANGED <<rows, events>> /\ Idle.at # "minting"
    BY <1>11 DEF Kill, Idle
  <2> QED BY <1>8, <2>1
<1> QED BY <1>3, <1>4, <1>5, <1>6, <1>7, <1>9, <1>10, <1>11 DEF Next, Refresh

LEMMA FiniteInit == Init => Finite
<1> SUFFICES ASSUME Init PROVE Finite
  OBVIOUS
<1>1. \A p \in Refresher : ~At(p, "minting")
  BY DEF Init, At, Idle, Command
<1> QED BY <1>1, PricingAssumption, FS_EmptySet DEF Init, Finite

LEMMA AlwaysFinite == Spec => [](IndInv /\ Finite)
BY InitInv, StepInv, FiniteInit, FiniteStep, PTL DEF Spec

-----------------------------------------------------------------------------
(* What a bundle holds. *)

LEMMA GrowKeeps ==
  ASSUME NEW table, NEW close, NEW S, S \subseteq close
  PROVE  S \subseteq Grow(table, close, S) /\ Grow(table, close, S) \subseteq close
BY DEF Grow, Owners

\* A bundle only grows, inside the closeable candidates.
LEMMA GrowthMonotone ==
  ASSUME NEW table, NEW close, NEW c \in close, NEW g, Growth(table, close, c, g),
         NEW n \in Nat, NEW m \in Nat, n <= m
  PROVE  c \in g[m] /\ g[n] \subseteq g[m] /\ g[m] \subseteq close
<1>1. \A k \in Nat : c \in g[k] /\ g[k] \subseteq close
  <2> DEFINE T == {k \in Nat : ~(c \in g[k] /\ g[k] \subseteq close)}
  <2>1. SUFFICES ASSUME T # {} PROVE FALSE
    OBVIOUS
  <2>2. PICK k \in T : \A l \in T : k <= l
    <3>1. T \subseteq Nat
      OBVIOUS
    <3> HIDE DEF T
    <3> QED BY <2>1, <3>1, LeastNat
  <2>3. k # 0
    BY <2>2 DEF Growth
  <2>4. k - 1 \in Nat /\ k - 1 \notin T /\ (k - 1) + 1 = k
    BY <2>2, <2>3
  <2>5. c \in g[k - 1] /\ g[k - 1] \subseteq close
    BY <2>4
  <2>6. g[k] = Grow(table, close, g[k - 1])
    BY <2>4 DEF Growth
  <2>7. c \in g[k] /\ g[k] \subseteq close
    BY <2>5, <2>6, GrowKeeps
  <2> QED BY <2>2, <2>7
<1>2. g[n] \subseteq g[m]
  <2> DEFINE T == {k \in Nat : n <= k /\ ~(g[n] \subseteq g[k])}
  <2>1. SUFFICES ASSUME T # {} PROVE FALSE
    OBVIOUS
  <2>2. PICK k \in T : \A l \in T : k <= l
    <3>1. T \subseteq Nat
      OBVIOUS
    <3> HIDE DEF T
    <3> QED BY <2>1, <3>1, LeastNat
  <2>3. k # n /\ n <= k /\ k \in Nat
    BY <2>2
  <2>4. k - 1 \in Nat /\ n <= k - 1 /\ k - 1 \notin T /\ (k - 1) + 1 = k
    BY <2>2, <2>3
  <2>5. g[n] \subseteq g[k - 1]
    BY <2>4
  <2>6. g[k] = Grow(table, close, g[k - 1])
    BY <2>4 DEF Growth
  <2>7. g[k - 1] \subseteq g[k]
    BY <1>1, <2>4, <2>6, GrowKeeps
  <2> QED BY <2>2, <2>5, <2>7
<1> QED BY <1>1, <1>2

LEMMA BundleIn ==
  ASSUME NEW table, NEW close, IsFiniteSet(close), NEW c \in close
  PROVE  c \in Bundle(table, close, c) /\ Bundle(table, close, c) \subseteq close
<1>1. Cardinality(close) \in Nat
  BY FS_CardinalityType
<1>2. PICK g : Growth(table, close, c, g) /\ Bundle(table, close, c) = g[Cardinality(close)]
  BY <1>1, BundleGrows
<1>3. \A m \in Nat : c \in g[m] /\ g[m] \subseteq close
  <2> SUFFICES ASSUME NEW m \in Nat PROVE c \in g[m] /\ g[m] \subseteq close
    OBVIOUS
  <2>1. 0 \in Nat /\ 0 <= m
    OBVIOUS
  <2> QED BY <1>2, <2>1, GrowthMonotone
<1> QED BY <1>1, <1>2, <1>3

-----------------------------------------------------------------------------
(* The warning and the offers. *)

LEMMA CandidatePrefix ==
  ASSUME NEW table, NEW usage, NEW c \in BackfillCandidates(table, usage)
  PROVE  /\ c.row.prefix = c.prefix
         /\ \E r \in FirstRows(table) : r \in table /\ r.prefix = c.prefix
<1>1. PICK r \in FirstRows(table) : \E e \in First(Triggers(table, usage, r.prefix)) :
        c = Candidate(table, usage, r, e.day)
  BY CandidateOf
<1> QED BY <1>1 DEF Candidate, Backdated, FirstRows

\* A model without a row of its own is never re-priced by what is offered: the
\* bundle of an offer closes every event it touches, and no row it adds is of
\* a prefix that was not in the table before.
LEMMA OffersSpareUnpriced ==
  ASSUME NEW table, IsFiniteSet(table), NEW usage, IsFiniteSet(usage),
         NEW c \in Offered(table, usage), NEW e \in c.impact
  PROVE  \E r \in table : IsOwn(e.model, r.prefix)
<1> DEFINE close == Closeable(table, usage)
           bundle == Bundle(table, close, c)
<1>1. c \in close /\ Unclosable(table, close, bundle) = {}
  <2>1. PICK o \in Offers(table, usage) : c = o.cand
    BY DEF Offered
  <2>2. PICK d \in close : o = [cand |-> d, bundle |-> Bundle(table, close, d)]
    BY <2>1 DEF Offers
  <2>3. Unclosable(table, close, o.bundle) = {}
    BY <2>1 DEF Offers
  <2>4. c = d /\ o.bundle = bundle
    BY <2>1, <2>2
  <2> HIDE DEF close, bundle
  <2> QED BY <2>2, <2>3, <2>4
<1>2. c \in bundle /\ bundle \subseteq close
  <2>1. IsFiniteSet(close)
    BY FiniteCloseable
  <2> HIDE DEF close
  <2> QED BY <1>1, <2>1, BundleIn
<1>3. \A d \in close : d.row.prefix = d.prefix /\ \E r \in table : r.prefix = d.prefix
  BY CandidatePrefix DEF Closeable
<1> HIDE DEF close, bundle
<1>4. SUFFICES ASSUME \A r \in table : ~IsOwn(e.model, r.prefix) PROVE FALSE
  OBVIOUS
<1>5. \A d \in close : ~IsOwn(e.model, d.prefix)
  BY <1>3, <1>4
<1>6. \A r \in With(table, bundle) : ~IsOwn(e.model, r.prefix)
  BY <1>2, <1>3, <1>4 DEF With
<1>7. ~OwnPriced(With(table, bundle), e)
  <2>1. Resolved(With(table, bundle), e) \subseteq With(table, bundle)
    BY DEF Resolved, Usable
  <2> QED BY <1>6, <2>1 DEF OwnPriced
<1>8. e \in Open(table, bundle)
  BY <1>2, <1>7 DEF Open, Impact
<1>9. Owners(close, bundle, e) = {}
  BY <1>5 DEF Owners
<1> QED BY <1>1, <1>8, <1>9 DEF Unclosable

\* The warning and the backfill line never speak of the same usage.
THEOREM WarningAndOfferDisjoint == Spec => []WarnedOrOffered
<1>1. Finite => WarnedOrOffered
  <2> SUFFICES ASSUME Finite, NEW m \in WithoutOwnPrice(rows, events),
                      NEW c \in Offered(rows, events), NEW e \in c.impact, e.model = m
               PROVE  FALSE
    BY DEF WarnedOrOffered
  <2>1. \E r \in rows : IsOwn(e.model, r.prefix)
    BY OffersSpareUnpriced DEF Finite
  <2> QED BY <2>1 DEF WithoutOwnPrice
<1> QED BY <1>1, AlwaysFinite, PTL

-----------------------------------------------------------------------------
(* How an event is priced: the resolved row is the greatest usable one. *)

LEMMA LargestOfFinite ==
  ASSUME NEW T, T \subseteq Nat, T # {}, IsFiniteSet(T)
  PROVE  \E n \in T : \A m \in T : m <= n
<1> DEFINE Topped(U) == \E n \in U : \A m \in U : m <= n
           K == {k \in Nat : \E U \in SUBSET T : U # {} /\ Cardinality(U) = k /\ ~Topped(U)}
<1>1. SUFFICES ASSUME ~Topped(T) PROVE FALSE
  OBVIOUS
<1>2. K # {}
  <2>1. Cardinality(T) \in Nat
    BY FS_CardinalityType
  <2>2. T \in SUBSET T /\ T # {} /\ Cardinality(T) = Cardinality(T) /\ ~Topped(T)
    BY <1>1
  <2> HIDE DEF Topped
  <2>3. Cardinality(T) \in K
    BY <2>1, <2>2
  <2> QED BY <2>3
<1>3. PICK k \in K : \A l \in K : k <= l
  <2>1. K \subseteq Nat
    OBVIOUS
  <2> HIDE DEF K
  <2> QED BY <1>2, <2>1, LeastNat
<1>4. PICK U \in SUBSET T : U # {} /\ Cardinality(U) = k /\ ~Topped(U)
  OBVIOUS
<1>5. PICK x \in U : TRUE
  BY <1>4
<1>6. /\ k \in Nat
      /\ IsFiniteSet(U) /\ IsFiniteSet(U \ {x}) /\ Cardinality(U \ {x}) = k - 1
      /\ Cardinality(U \ {x}) \in Nat
  <2>1. IsFiniteSet(U)
    BY FS_Subset
  <2>2. IsFiniteSet(U \ {x}) /\ Cardinality(U \ {x}) = k - 1
    BY <1>4, <2>1, FS_RemoveElement
  <2> QED BY <2>1, <2>2, FS_CardinalityType
<1>7. CASE U \ {x} = {}
  <2>1. U = {x} /\ x \in Nat
    BY <1>7
  <2> QED BY <1>4, <2>1
<1>8. CASE U \ {x} # {}
  <2>1. k - 1 \in Nat /\ k - 1 \notin K
    BY <1>3, <1>6
  <2>2. Topped(U \ {x})
    <3> HIDE DEF Topped
    <3> QED BY <1>6, <1>8, <2>1
  <2>3. PICK y \in U \ {x} : \A m \in U \ {x} : m <= y
    BY <2>2
  <2>4. x \in Nat /\ y \in Nat /\ \A m \in U : m \in Nat
    OBVIOUS
  <2>5. CASE x <= y
    <3>1. \A m \in U : m <= y
      BY <2>3, <2>5
    <3> QED BY <1>4, <3>1
  <2>6. CASE y <= x
    <3>1. \A m \in U : m <= x
      BY <2>3, <2>4, <2>6
    <3> QED BY <1>4, <3>1
  <2> QED BY <2>4, <2>5, <2>6
<1> QED BY <1>7, <1>8

\* An event with a usable row is priced ...
LEMMA ResolvedExists ==
  ASSUME NEW table \in SUBSET RowSet, IsFiniteSet(table), NEW e, e.model \in Model, e.day \in Nat,
         Usable(table, e) # {}
  PROVE  Resolved(table, e) # {}
<1> DEFINE U == Usable(table, e)
           len == [r \in U |-> Length[r.prefix]]
           L == {len[r] : r \in U}
<1>1. \A r \in U : /\ r \in table /\ r.prefix \in Matches[e.model] /\ r.from \in Nat /\ r.from <= e.day
                   /\ r.prefix \in Prefix /\ Length[r.prefix] \in Nat
  BY RatesAssumption DEF Usable, RowSet
<1>2. PICK n \in L : \A m \in L : m <= n
  <2>1. IsFiniteSet(U)
    <3>1. U \subseteq table
      BY <1>1
    <3> HIDE DEF U
    <3> QED BY <3>1, FS_Subset
  <2>2. IsFiniteSet(L)
    <3> HIDE DEF U, len
    <3> QED BY <2>1, FiniteImage
  <2>3. L \subseteq Nat /\ L # {}
    BY <1>1
  <2> HIDE DEF L
  <2> QED BY <2>2, <2>3, LargestOfFinite
<1> DEFINE F == {r.from : r \in {x \in U : Length[x.prefix] = n}}
<1>3. PICK f \in F : \A m \in F : m <= f
  <2>1. F # {}
    BY <1>2
  <2>2. F \subseteq Nat /\ \A m \in F : m <= e.day
    BY <1>1
  <2> HIDE DEF F
  <2> QED BY <2>1, <2>2, LargestNat
<1>4. PICK r \in U : Length[r.prefix] = n /\ r.from = f
  BY <1>3
<1>5. ASSUME NEW s \in U
      PROVE  \/ Length[s.prefix] < Length[r.prefix]
             \/ s.prefix = r.prefix /\ s.from <= r.from
  <2>1. Length[s.prefix] \in L
    OBVIOUS
  <2>2. Length[s.prefix] <= n
    BY <1>2, <2>1
  <2>3. CASE Length[s.prefix] = n
    <3>1. s.from <= f
      BY <1>3, <2>3
    <3>2. s.prefix = r.prefix
      BY <1>1, <1>4, <2>3, RatesAssumption
    <3> QED BY <1>4, <3>1, <3>2
  <2>4. Length[s.prefix] \in Nat /\ Length[r.prefix] \in Nat
    BY <1>1
  <2>5. CASE Length[s.prefix] # n
    <3>1. n = Length[r.prefix]
      BY <1>4
    <3>2. Length[s.prefix] < Length[r.prefix]
      <4> HIDE DEF U, L, F
      <4> QED BY <2>2, <2>4, <2>5, <3>1
    <3> QED BY <3>2
  <2> QED BY <2>3, <2>5
<1> QED BY <1>4, <1>5 DEF Resolved

\* ... by one row.
LEMMA ResolvedOne ==
  ASSUME NEW table \in SUBSET RowSet, UniqueKey(table), NEW e,
         NEW r \in Resolved(table, e), NEW s \in Resolved(table, e)
  PROVE  r = s
<1>1. r \in table /\ s \in table /\ r \in Usable(table, e) /\ s \in Usable(table, e)
  BY DEF Resolved, Usable
<1>2. /\ r.prefix \in Prefix /\ s.prefix \in Prefix /\ r.from \in Nat /\ s.from \in Nat
      /\ Length[r.prefix] \in Nat /\ Length[s.prefix] \in Nat
  BY <1>1, RatesAssumption DEF RowSet
<1>3. r.prefix = s.prefix /\ r.from <= s.from /\ s.from <= r.from
  BY <1>1, <1>2 DEF Resolved
<1> QED BY <1>1, <1>2, <1>3 DEF UniqueKey

\* Fewer rows do not take the price from a row that stays.
LEMMA ResolvedStays ==
  ASSUME NEW table, NEW more, table \subseteq more, NEW e, NEW r \in Resolved(more, e), r \in table
  PROVE  r \in Resolved(table, e)
BY DEF Resolved, Usable

-----------------------------------------------------------------------------
(* What a set of closeable candidates re-prices. *)

\* A table and usage as the program keeps them.
Recorded(table, usage) ==
  /\ table \in SUBSET RowSet /\ IsFiniteSet(table) /\ UniqueKey(table)
  /\ IsFiniteSet(usage)
  /\ \E day \in Nat : usage \in SUBSET [model : Model, day : 1..day]

LEMMA CloseableOf ==
  ASSUME NEW table, NEW usage, NEW c \in Closeable(table, usage)
  PROVE  \E r \in FirstRows(table) : \E e \in First(Triggers(table, usage, r.prefix)) :
           c = Candidate(table, usage, r, e.day)
BY CandidateOf DEF Closeable

LEMMA CloseableReprices ==
  ASSUME NEW table, NEW usage, NEW c \in Closeable(table, usage)
  PROVE  c.impact = {x \in Before(table, usage, c.prefix) :
                      Resolved(table \cup {c.row}, x) # Resolved(table, x)}
<1>1. PICK r \in FirstRows(table) : \E e \in First(Triggers(table, usage, r.prefix)) :
        c = Candidate(table, usage, r, e.day)
  BY CloseableOf
<1> QED BY <1>1 DEF Candidate

\* The row of a closeable candidate is new, and the oldest of its prefix.
LEMMA CloseableRow ==
  ASSUME NEW table, NEW usage, Recorded(table, usage), NEW c \in Closeable(table, usage)
  PROVE  /\ c.row \in RowSet /\ c.row \notin table
         /\ c.row.prefix = c.prefix /\ c.prefix \notin FamilyRow
         /\ \A s \in table : s.prefix = c.prefix => c.row.from < s.from
<1>1. c \in BackfillCandidates(table, usage)
  BY DEF Closeable
<1>2. PICK day \in Nat : usage \in SUBSET [model : Model, day : 1..day]
  BY DEF Recorded
<1>3. table \in SUBSET RowSet
  BY DEF Recorded
<1>4. c.row \in RowSet /\ \A s \in table : s.prefix = c.row.prefix => c.row.from < s.from
  BY <1>1, <1>2, <1>3, CandidateRow
<1>5. c.row.prefix = c.prefix /\ c.prefix \notin FamilyRow
  <2>1. PICK r \in FirstRows(table) : \E e \in First(Triggers(table, usage, r.prefix)) :
          c = Candidate(table, usage, r, e.day)
    BY CloseableOf
  <2> QED BY <2>1 DEF Candidate, Backdated, FirstRows
<1>6. c.row \notin table
  <2>1. c.row.from \in Nat
    BY <1>4 DEF RowSet
  <2> QED BY <1>4, <2>1
<1> QED BY <1>4, <1>5, <1>6

\* What it re-prices, it prices.
LEMMA CloseableImpact ==
  ASSUME NEW table, NEW usage, NEW c \in Closeable(table, usage), NEW e \in c.impact
  PROVE  e \in usage /\ Resolved(table \cup {c.row}, e) = {c.row}
<1>1. e \in usage
  <2>1. c.impact = {x \in Before(table, usage, c.prefix) :
                      Resolved(table \cup {c.row}, x) # Resolved(table, x)}
    BY CloseableReprices
  <2> QED BY <2>1 DEF Before
<1> QED BY <1>1 DEF Closeable

LEMMA CloseableKeys ==
  ASSUME NEW table, NEW usage, Recorded(table, usage),
         NEW c \in Closeable(table, usage), NEW d \in Closeable(table, usage), c.prefix = d.prefix
  PROVE  c = d
<1>1. c \in BackfillCandidates(table, usage) /\ d \in BackfillCandidates(table, usage)
  BY DEF Closeable
<1>2. PICK day \in Nat : usage \in SUBSET [model : Model, day : 1..day]
  BY DEF Recorded
<1>3. c.row.prefix = d.row.prefix
  BY CloseableRow
<1> QED BY <1>1, <1>2, <1>3, CandidateUnique DEF Recorded

LEMMA WithRecorded ==
  ASSUME NEW table, NEW usage, Recorded(table, usage), NEW S, S \subseteq Closeable(table, usage)
  PROVE  /\ With(table, S) \in SUBSET RowSet /\ IsFiniteSet(With(table, S))
         /\ UniqueKey(With(table, S))
<1>1. \A c \in S : c.row \in RowSet /\ c.row.prefix = c.prefix
                   /\ \A s \in table : s.prefix = c.prefix => c.row.from < s.from
  BY CloseableRow
<1>2. With(table, S) \in SUBSET RowSet
  BY <1>1 DEF With, Recorded
<1>3. IsFiniteSet(With(table, S))
  <2> DEFINE row == [c \in S |-> c.row]
  <2>1. IsFiniteSet(S)
    BY FiniteCloseable, FS_Subset DEF Recorded
  <2>2. IsFiniteSet({row[c] : c \in S})
    <3> HIDE DEF row
    <3> QED BY <2>1, FiniteImage
  <2>3. {row[c] : c \in S} = {c.row : c \in S}
    OBVIOUS
  <2> HIDE DEF row
  <2> QED BY <2>2, <2>3, FS_Union DEF With, Recorded
<1>4. ASSUME NEW r \in With(table, S), NEW s \in With(table, S), r.prefix = s.prefix, r.from = s.from
      PROVE  r = s
  <2>1. r.from \in Nat
    BY <1>2 DEF RowSet
  <2>2. CASE r \in table /\ s \in table
    BY <1>4, <2>2 DEF Recorded, UniqueKey
  <2>3. ASSUME NEW c \in S, s = c.row, r \in table PROVE FALSE
    BY <1>1, <1>4, <2>1, <2>3
  <2>4. ASSUME NEW c \in S, r = c.row, s \in table PROVE FALSE
    BY <1>1, <1>4, <2>1, <2>4
  <2>5. ASSUME NEW c \in S, NEW d \in S, r = c.row, s = d.row PROVE r = s
    <3>1. c.prefix = d.prefix
      BY <1>1, <1>4, <2>5
    <3> QED BY <2>5, <3>1, CloseableKeys
  <2> QED BY <2>2, <2>3, <2>4, <2>5 DEF With
<1> QED BY <1>2, <1>3, <1>4 DEF UniqueKey

\* A candidate whose row prices an event, whatever other rows are there, has
\* the event among those it re-prices.
LEMMA PricedIsImpact ==
  ASSUME NEW table, NEW usage, Recorded(table, usage), NEW c \in Closeable(table, usage),
         NEW more, table \subseteq more, NEW e \in usage, c.row \in Resolved(more, e)
  PROVE  e \in c.impact
<1>1. /\ c.row \in RowSet /\ c.row \notin table /\ c.row.prefix = c.prefix
      /\ \A s \in table : s.prefix = c.prefix => c.row.from < s.from
  BY CloseableRow
<1>2. c.row \in Resolved(table \cup {c.row}, e)
  <2>1. table \cup {c.row} \subseteq more
    BY DEF Resolved, Usable
  <2> QED BY <2>1, ResolvedStays
<1>3. Resolved(table \cup {c.row}, e) # Resolved(table, e)
  BY <1>1, <1>2 DEF Resolved, Usable
<1>4. ASSUME NEW r \in Earliest(table, c.prefix) PROVE e.day < r.from
  <2>1. r \in table /\ r.prefix = c.prefix /\ c.row.from < r.from
    BY <1>1 DEF Earliest
  <2>2. r.from \in Nat /\ c.row.from \in Nat /\ e.day \in Nat
    BY <1>1, <2>1 DEF Recorded, RowSet
  <2>3. r.prefix \in Matches[e.model]
    BY <1>1, <1>2, <2>1 DEF Resolved, Usable
  <2>4. r \notin Usable(table \cup {c.row}, e)
    <3>1. Length[c.prefix] \in Nat
      BY <1>1, RatesAssumption DEF RowSet
    <3>2. ~(r.from <= c.row.from) /\ ~(Length[r.prefix] < Length[c.row.prefix])
      BY <1>1, <2>1, <2>2, <3>1
    <3> QED BY <1>2, <3>2 DEF Resolved
  <2>5. ~(r.from <= e.day)
    BY <2>1, <2>3, <2>4 DEF Usable
  <2> QED BY <2>2, <2>5
<1>5. e \in Before(table, usage, c.prefix)
  BY <1>4 DEF Before
<1> QED BY <1>3, <1>5, CloseableReprices

\* Together the candidates price every event one of them re-prices.
LEMMA ImpactPriced ==
  ASSUME NEW table, NEW usage, Recorded(table, usage),
         NEW S, S \subseteq Closeable(table, usage), NEW e \in Impact(S)
  PROVE  \E c \in S : e \in c.impact /\ Resolved(With(table, S), e) = {c.row}
<1>1. PICK d \in S : e \in d.impact
  BY DEF Impact
<1>2. /\ d.row \in RowSet /\ d.row \notin table /\ e \in usage
      /\ Resolved(table \cup {d.row}, e) = {d.row}
  <2>1. d \in Closeable(table, usage)
    BY <1>1
  <2> QED BY <1>1, <2>1, CloseableRow, CloseableImpact
<1>3. e.model \in Model /\ e.day \in Nat
  BY <1>2 DEF Recorded
<1>4. table \cup {d.row} \subseteq With(table, S) /\ table \subseteq With(table, S)
  BY <1>1 DEF With
<1>5. d.row \in Usable(With(table, S), e)
  BY <1>2, <1>4 DEF Resolved, Usable
<1>6. PICK r \in Resolved(With(table, S), e) : TRUE
  BY <1>3, <1>5, WithRecorded, ResolvedExists
<1>7. r \notin table
  <2>1. SUFFICES ASSUME r \in table PROVE FALSE
    OBVIOUS
  <2>2. r \in Resolved(table \cup {d.row}, e)
    BY <1>4, <2>1, ResolvedStays
  <2> QED BY <1>2, <2>1, <2>2
<1>8. PICK c \in S : r = c.row
  BY <1>7 DEF Resolved, Usable, With
<1>9. e \in c.impact
  BY <1>2, <1>4, <1>8, PricedIsImpact
<1>10. Resolved(With(table, S), e) = {c.row}
  BY <1>8, WithRecorded, ResolvedOne
<1> QED BY <1>9, <1>10

LEMMA RepricedIsImpact ==
  ASSUME NEW table, NEW usage, Recorded(table, usage), NEW S, S \subseteq Closeable(table, usage)
  PROVE  Repriced(table, usage, S) = Impact(S)
<1>1. table \subseteq With(table, S)
  BY DEF With
<1>2. ASSUME NEW e \in usage, Resolved(With(table, S), e) # Resolved(table, e)
      PROVE  e \in Impact(S)
  <2>1. e.model \in Model /\ e.day \in Nat
    BY DEF Recorded
  <2>2. Usable(With(table, S), e) # {}
    BY <1>1, <1>2 DEF Resolved, Usable
  <2>3. PICK r \in Resolved(With(table, S), e) : TRUE
    BY <2>1, <2>2, WithRecorded, ResolvedExists
  <2>4. r \notin table
    <3>1. SUFFICES ASSUME r \in table PROVE FALSE
      OBVIOUS
    <3>2. r \in Resolved(table, e)
      BY <1>1, <3>1, ResolvedStays
    <3>3. Resolved(table, e) = {r}
      BY <3>2, ResolvedOne DEF Recorded
    <3>4. Resolved(With(table, S), e) = {r}
      BY WithRecorded, ResolvedOne
    <3> QED BY <1>2, <3>3, <3>4
  <2>5. PICK c \in S : r = c.row
    BY <2>4 DEF Resolved, Usable, With
  <2>6. e \in c.impact
    BY <1>1, <2>5, PricedIsImpact
  <2> QED BY <2>6 DEF Impact
<1>3. ASSUME NEW e \in Impact(S)
      PROVE  e \in usage /\ Resolved(With(table, S), e) # Resolved(table, e)
  <2>1. PICK c \in S : e \in c.impact /\ Resolved(With(table, S), e) = {c.row}
    BY ImpactPriced
  <2>2. c.row \notin table /\ e \in usage
    <3>1. c \in Closeable(table, usage)
      BY <2>1
    <3> QED BY <2>1, <3>1, CloseableRow, CloseableImpact
  <2> QED BY <2>1, <2>2 DEF Resolved, Usable
<1> QED BY <1>2, <1>3 DEF Repriced

-----------------------------------------------------------------------------
(* A bundle is finished: growing it once more adds nothing. *)

LEMMA BundleStable ==
  ASSUME NEW table, NEW close, IsFiniteSet(close), NEW c \in close
  PROVE  Grow(table, close, Bundle(table, close, c)) = Bundle(table, close, c)
<1> DEFINE K == Cardinality(close)
<1>1. K \in Nat
  BY FS_CardinalityType
<1>2. PICK g : Growth(table, close, c, g) /\ Bundle(table, close, c) = g[K]
  BY <1>1, BundleGrows
<1> HIDE DEF K
<1>0. \A l, n \in Nat : l <= n => g[l] \subseteq g[n] /\ g[n] \subseteq close
  <2> SUFFICES ASSUME NEW l \in Nat, NEW n \in Nat, l <= n
               PROVE  g[l] \subseteq g[n] /\ g[n] \subseteq close
    OBVIOUS
  <2> QED BY <1>2, GrowthMonotone
<1>3. \A n \in Nat : IsFiniteSet(g[n]) /\ Cardinality(g[n]) \in Nat /\ Cardinality(g[n]) <= K
  <2> SUFFICES ASSUME NEW n \in Nat
               PROVE  IsFiniteSet(g[n]) /\ Cardinality(g[n]) \in Nat /\ Cardinality(g[n]) <= K
    OBVIOUS
  <2>1. g[n] \subseteq close
    <3>1. n <= n
      OBVIOUS
    <3> QED BY <1>0, <3>1
  <2> QED BY <2>1, FS_Subset, FS_CardinalityType DEF K
<1>4. \E n \in Nat : n <= K /\ g[n + 1] = g[n]
  <2> SUFFICES ASSUME \A n \in Nat : n <= K => g[n + 1] # g[n]
               PROVE  FALSE
    OBVIOUS
  <2> DEFINE T == {n \in Nat : n <= K /\ ~(n + 1 <= Cardinality(g[n]))}
  <2>1. K \in T
    BY <1>1, <1>3
  <2>2. PICK n \in T : \A l \in T : n <= l
    <3>1. T \subseteq Nat /\ T # {}
      BY <2>1
    <3> HIDE DEF T
    <3> QED BY <3>1, LeastNat
  <2>3. n # 0
    <3>1. Cardinality(g[0]) = 1
      BY <1>2, FS_Singleton DEF Growth
    <3> QED BY <2>2, <3>1
  <2>4. n - 1 \in Nat /\ n - 1 <= K /\ n - 1 \notin T /\ (n - 1) + 1 = n
    BY <1>1, <2>2, <2>3
  <2>5. n <= Cardinality(g[n - 1])
    BY <2>4
  <2>6. g[n - 1] \subseteq g[n] /\ g[n - 1] # g[n]
    <3> DEFINE l == n - 1
    <3>1. n \in Nat /\ l <= n /\ l \in Nat /\ l + 1 = n
      BY <2>4
    <3>2. n - 1 = l
      OBVIOUS
    <3> HIDE DEF l
    <3>3. g[l] \subseteq g[n]
      BY <1>0, <3>1
    <3>4. g[l + 1] # g[l]
      BY <2>4, <3>1, <3>2
    <3> QED BY <3>1, <3>2, <3>3, <3>4
  <2>7. /\ Cardinality(g[n - 1]) <= Cardinality(g[n])
        /\ Cardinality(g[n - 1]) # Cardinality(g[n])
    <3>1. n \in Nat /\ IsFiniteSet(g[n])
      BY <1>3
    <3> QED BY <2>6, <3>1, FS_Subset
  <2>8. Cardinality(g[n]) \in Nat /\ Cardinality(g[n - 1]) \in Nat /\ n \in Nat
    BY <1>3, <2>4
  <2>9. n + 1 <= Cardinality(g[n])
    BY <2>5, <2>7, <2>8
  <2> QED BY <2>2, <2>9
<1>5. PICK n \in Nat : n <= K /\ g[n + 1] = g[n]
  BY <1>4
<1>6. \A m \in Nat : n <= m => g[m] = g[n]
  <2> DEFINE T == {m \in Nat : n <= m /\ g[m] # g[n]}
  <2>1. SUFFICES ASSUME T # {} PROVE FALSE
    OBVIOUS
  <2>2. PICK m \in T : \A l \in T : m <= l
    <3>1. T \subseteq Nat
      OBVIOUS
    <3> HIDE DEF T
    <3> QED BY <2>1, <3>1, LeastNat
  <2>3. m \in Nat /\ n <= m /\ m # n
    BY <2>2
  <2>4. m - 1 \in Nat /\ n <= m - 1 /\ m - 1 \notin T /\ (m - 1) + 1 = m
    BY <2>2, <2>3
  <2>5. g[m - 1] = g[n]
    BY <2>4
  <2>6. g[m] = Grow(table, close, g[m - 1]) /\ g[n + 1] = Grow(table, close, g[n])
    BY <1>2, <2>4 DEF Growth
  <2> QED BY <1>5, <2>2, <2>5, <2>6
<1>7. g[K + 1] = Grow(table, close, g[K])
  BY <1>1, <1>2 DEF Growth
<1>8. g[K + 1] = g[n] /\ g[K] = g[n]
  <2>1. K + 1 \in Nat /\ n <= K + 1
    BY <1>1, <1>5
  <2> QED BY <1>1, <1>5, <1>6, <2>1
<1> QED BY <1>2, <1>7, <1>8

\* What can be closed is closed.
LEMMA BundleCloses ==
  ASSUME NEW table, NEW close, IsFiniteSet(close), NEW c \in close,
         Unclosable(table, close, Bundle(table, close, c)) = {}
  PROVE  Open(table, Bundle(table, close, c)) = {}
<1> DEFINE B == Bundle(table, close, c)
<1>1. Grow(table, close, B) = B
  BY BundleStable
<1>2. Unclosable(table, close, B) = {}
  OBVIOUS
<1> HIDE DEF B
<1>3. SUFFICES ASSUME NEW e \in Open(table, B) PROVE FALSE
  BY DEF B
<1>4. Owners(close, B, e) # {}
  BY <1>2 DEF Unclosable
<1>5. Owners(close, B, e) \subseteq B
  BY <1>1, <1>2 DEF Grow
<1> QED BY <1>4, <1>5 DEF Owners

-----------------------------------------------------------------------------
(* What the plan offers the apply accepts. *)

LEMMA OfferParts ==
  ASSUME NEW table, NEW usage, NEW o \in Offers(table, usage)
  PROVE  /\ o.cand \in Closeable(table, usage)
         /\ o = [cand |-> o.cand, bundle |-> Bundle(table, Closeable(table, usage), o.cand)]
         /\ o.bundle = Bundle(table, Closeable(table, usage), o.cand)
         /\ Unclosable(table, Closeable(table, usage), o.bundle) = {}
<1> DEFINE close == Closeable(table, usage)
<1>1. PICK c \in close : o = [cand |-> c, bundle |-> Bundle(table, close, c)]
  BY DEF Offers
<1>2. Unclosable(table, close, o.bundle) = {}
  BY DEF Offers
<1> HIDE DEF close
<1>3. o.cand = c /\ o.bundle = Bundle(table, close, c)
  BY <1>1
<1> QED BY <1>1, <1>2, <1>3 DEF close

\* A set of offers that holds the bundles it requires passes every check of
\* --backfill-apply.
LEMMA ClosedOffersApply ==
  ASSUME NEW table, NEW usage, Recorded(table, usage), NEW S, S \subseteq Offers(table, usage),
         \A o \in S : o.bundle \subseteq {x.cand : x \in S}
  PROVE  Applied(table, usage, {c.prefix : c \in {o.cand : o \in S}}) # {}
<1> DEFINE close  == Closeable(table, usage)
           named  == {c.prefix : c \in {o.cand : o \in S}}
           chosen == {o \in Offers(table, usage) : o.cand.prefix \in named}
           cands  == {o.cand : o \in chosen}
           after  == With(table, cands)
           new    == {c.row : c \in cands}
<1>1. \A o \in Offers(table, usage) :
        /\ o.cand \in close
        /\ o = [cand |-> o.cand, bundle |-> Bundle(table, close, o.cand)]
        /\ o.bundle = Bundle(table, close, o.cand)
        /\ Unclosable(table, close, o.bundle) = {}
  BY OfferParts
<1>2. chosen = S
  <2>1. S \subseteq chosen
    OBVIOUS
  <2>2. ASSUME NEW o \in chosen PROVE o \in S
    <3>1. PICK x \in S : o.cand.prefix = x.cand.prefix
      OBVIOUS
    <3>2. o.cand = x.cand
      <4>1. o \in Offers(table, usage) /\ x \in Offers(table, usage)
        OBVIOUS
      <4> HIDE DEF chosen
      <4> QED BY <1>1, <3>1, <4>1, CloseableKeys
    <3>3. o = x
      <4>1. o \in Offers(table, usage) /\ x \in Offers(table, usage)
        OBVIOUS
      <4>2. /\ o = [cand |-> o.cand, bundle |-> Bundle(table, close, o.cand)]
            /\ x = [cand |-> x.cand, bundle |-> Bundle(table, close, x.cand)]
        BY <1>1, <4>1
      <4> HIDE DEF chosen, close
      <4> QED BY <3>2, <4>2
    <3> QED BY <3>3
  <2> QED BY <2>1, <2>2
<1>3. cands \subseteq close
  BY <1>1
<1>4. IsFiniteSet(close)
  BY FiniteCloseable DEF Recorded
<1>5. \A p \in named \ {c.prefix : c \in cands} : AlreadyBackfilled(table, usage, p)
  <2>1. named = {c.prefix : c \in cands}
    BY <1>2
  <2> HIDE DEF named, cands
  <2> QED BY <2>1
<1>6. \A o \in chosen : {c.prefix : c \in o.bundle} \subseteq named
  <2> SUFFICES ASSUME NEW o \in S, NEW c \in o.bundle PROVE c.prefix \in named
    BY <1>2
  <2>1. PICK x \in S : c = x.cand
    OBVIOUS
  <2> QED BY <2>1
<1>7. Repriced(table, usage, cands) = Impact(cands)
  <2> HIDE DEF cands
  <2> QED BY <1>3, RepricedIsImpact DEF close
<1>8. ASSUME NEW e \in Impact(cands)
      PROVE  OwnPriced(after, e) /\ Resolved(after, e) \subseteq new
  <2>1. PICK c \in cands : e \in c.impact /\ Resolved(after, e) = {c.row}
    <3> HIDE DEF cands
    <3> QED BY <1>3, ImpactPriced DEF close
  <2>2. PICK o \in S : c = o.cand
    BY <1>2
  <2> DEFINE B == Bundle(table, close, c)
  <2>3. B \subseteq cands /\ c \in B /\ Open(table, B) = {}
    <3>1. o \in Offers(table, usage) /\ o.bundle \subseteq {x.cand : x \in S}
      OBVIOUS
    <3>2. c \in close /\ o.bundle = B /\ Unclosable(table, close, B) = {}
      BY <1>1, <2>2, <3>1
    <3>3. c \in B
      <4> HIDE DEF close
      <4> QED BY <1>4, <3>2, BundleIn
    <3>4. Open(table, B) = {}
      <4> HIDE DEF close
      <4> QED BY <1>4, <3>2, BundleCloses
    <3> QED BY <1>2, <3>1, <3>2, <3>3, <3>4
  <2> HIDE DEF B, cands
  <2>4. OwnPriced(With(table, B), e)
    BY <2>1, <2>3 DEF Open, Impact
  <2>5. With(table, B) \subseteq after /\ c.row \in With(table, B)
    BY <2>3 DEF With
  <2>6. c.row \in Resolved(With(table, B), e)
    BY <2>1, <2>5, ResolvedStays
  <2>7. \A r \in Resolved(With(table, B), e) : r = c.row
    <3>1. B \subseteq Closeable(table, usage)
      BY <1>3, <2>3 DEF close
    <3> QED BY <2>6, <3>1, WithRecorded, ResolvedOne
  <2>8. IsOwn(e.model, c.row.prefix)
    BY <2>4, <2>7 DEF OwnPriced
  <2> QED BY <2>1, <2>8 DEF OwnPriced
<1>9. Applied(table, usage, named) =
        {n \in {new} :
           /\ \A p \in named \ {c.prefix : c \in cands} : AlreadyBackfilled(table, usage, p)
           /\ \A o \in chosen : {c.prefix : c \in o.bundle} \subseteq named
           /\ Repriced(table, usage, cands) = Impact(cands)
           /\ \A e \in Impact(cands) : OwnPriced(after, e) /\ Resolved(after, e) \subseteq n}
  BY DEF Applied
<1>10. new \in Applied(table, usage, named)
  <2> HIDE DEF named, chosen, cands, after, new
  <2> QED BY <1>5, <1>6, <1>7, <1>8, <1>9
<1> QED BY <1>10

\* A candidate that closes all it touches is its own bundle.
LEMMA BundleOfOne ==
  ASSUME NEW table, NEW close, IsFiniteSet(close), NEW c \in close,
         Grow(table, close, {c}) = {c}
  PROVE  Bundle(table, close, c) = {c}
<1>1. Cardinality(close) \in Nat
  BY FS_CardinalityType
<1>2. PICK g : Growth(table, close, c, g) /\ Bundle(table, close, c) = g[Cardinality(close)]
  BY <1>1, BundleGrows
<1>3. \A n \in Nat : g[n] = {c}
  <2> DEFINE T == {n \in Nat : g[n] # {c}}
  <2>1. SUFFICES ASSUME T # {} PROVE FALSE
    OBVIOUS
  <2>2. PICK n \in T : \A l \in T : n <= l
    <3>1. T \subseteq Nat
      OBVIOUS
    <3> HIDE DEF T
    <3> QED BY <2>1, <3>1, LeastNat
  <2>3. n # 0
    BY <1>2, <2>2 DEF Growth
  <2>4. n - 1 \in Nat /\ n - 1 \notin T /\ (n - 1) + 1 = n
    BY <2>2, <2>3
  <2>5. g[n - 1] = {c} /\ g[n] = Grow(table, close, g[n - 1])
    BY <1>2, <2>4 DEF Growth
  <2> QED BY <2>2, <2>5
<1> QED BY <1>1, <1>2, <1>3

\* Every other member of a bundle was taken in for an event that what was
\* there before leaves at an estimate.
LEMMA BundlePulls ==
  ASSUME NEW table, NEW close, IsFiniteSet(close), NEW c \in close,
         NEW d \in Bundle(table, close, c), d # c
  PROVE  \E S : /\ S \subseteq Bundle(table, close, c)
                /\ \E f \in Open(table, S) : d \in Owners(close, S, f)
<1> DEFINE K == Cardinality(close)
<1>1. K \in Nat
  BY FS_CardinalityType
<1>2. PICK g : Growth(table, close, c, g) /\ Bundle(table, close, c) = g[K]
  BY <1>1, BundleGrows
<1> HIDE DEF K
<1>3. \A l, n \in Nat : l <= n => g[l] \subseteq g[n]
  <2> SUFFICES ASSUME NEW l \in Nat, NEW n \in Nat, l <= n PROVE g[l] \subseteq g[n]
    OBVIOUS
  <2> QED BY <1>2, GrowthMonotone
<1> DEFINE T == {n \in Nat : d \in g[n]}
<1>4. K \in T
  BY <1>1, <1>2
<1>5. PICK n \in T : \A l \in T : n <= l
  <2>1. T \subseteq Nat /\ T # {}
    BY <1>4
  <2> HIDE DEF T
  <2> QED BY <2>1, LeastNat
<1>6. n # 0
  BY <1>2, <1>5 DEF Growth
<1>7. n - 1 \in Nat /\ n - 1 \notin T /\ (n - 1) + 1 = n /\ n <= K
  BY <1>4, <1>5, <1>6
<1> DEFINE S == g[n - 1]
<1>8. S \subseteq Bundle(table, close, c)
  <2>1. n - 1 <= K
    BY <1>1, <1>7
  <2> QED BY <1>1, <1>2, <1>3, <1>7, <2>1
<1>9. d \notin S /\ d \in Grow(table, close, S)
  <2>1. g[(n - 1) + 1] = Grow(table, close, S)
    BY <1>2, <1>7 DEF Growth
  <2> QED BY <1>5, <1>7, <2>1
<1> HIDE DEF S
<1>10. \E f \in Open(table, S) : d \in Owners(close, S, f)
  BY <1>9 DEF Grow
<1> QED BY <1>8, <1>10

\* Where versions have one level of refinement, a candidate an offer requires
\* is offered itself, alone.
LEMMA RequiredAreOffered ==
  ASSUME OneLevelOfVersions, NEW table, NEW usage, Recorded(table, usage),
         NEW o \in Offers(table, usage), NEW d \in o.bundle
  PROVE  \E x \in Offers(table, usage) : x.cand = d
<1> DEFINE close == Closeable(table, usage)
           c == o.cand
           B == Bundle(table, close, c)
<1>1. c \in close /\ o.bundle = B /\ Unclosable(table, close, B) = {} /\ IsFiniteSet(close)
  BY OfferParts, FiniteCloseable DEF Recorded
<1>2. SUFFICES ASSUME d # c PROVE \E x \in Offers(table, usage) : x.cand = d
  OBVIOUS
<1>3. d \in B /\ B \subseteq close /\ Open(table, B) = {}
  <2>1. d \in B
    BY <1>1
  <2> HIDE DEF close, c
  <2> QED BY <1>1, <2>1, BundleIn, BundleCloses
<1>4. PICK S : S \subseteq B /\ \E f \in Open(table, S) : d \in Owners(close, S, f)
  <2>1. d \in Bundle(table, close, c)
    BY <1>3
  <2> HIDE DEF close, c
  <2> QED BY <1>1, <1>2, <2>1, BundlePulls
<1>5. PICK f \in Open(table, S) : d \in Owners(close, S, f)
  BY <1>4
<1>6. close = Closeable(table, usage)
  OBVIOUS
<1> HIDE DEF close, c, B
\* a candidate's row is its prefix's, and it matches what it prices
<1>7. \A x \in close : /\ x.row \in RowSet /\ x.row.prefix = x.prefix /\ x.prefix \notin FamilyRow
                       /\ x.prefix \in Prefix /\ Length[x.prefix] \in Nat
  <2> SUFFICES ASSUME NEW x \in close
               PROVE  /\ x.row \in RowSet /\ x.row.prefix = x.prefix /\ x.prefix \notin FamilyRow
                      /\ x.prefix \in Prefix /\ Length[x.prefix] \in Nat
    OBVIOUS
  <2>1. x.row \in RowSet /\ x.row.prefix = x.prefix /\ x.prefix \notin FamilyRow
    BY <1>6, CloseableRow
  <2> QED BY <2>1, RatesAssumption DEF RowSet
<1>8. ASSUME NEW e \in Impact(B)
      PROVE  /\ e.model \in Model
             /\ \E b \in B : Resolved(With(table, B), e) = {b.row} /\ IsOwn(e.model, b.prefix)
  <2>1. PICK b \in B : e \in b.impact /\ Resolved(With(table, B), e) = {b.row}
    BY <1>3, <1>6, ImpactPriced
  <2>2. e \in usage
    BY <1>3, <1>6, <2>1, CloseableImpact
  <2>3. OwnPriced(With(table, B), e)
    BY <1>3 DEF Open
  <2>4. IsOwn(e.model, b.prefix)
    BY <1>3, <1>7, <2>1, <2>3 DEF OwnPriced
  <2>5. e.model \in Model
    BY <2>2 DEF Recorded
  <2> QED BY <2>1, <2>4, <2>5
\* d closed an event below which another candidate's row is an ancestor
<1>9. PICK a \in S : f \in a.impact /\ Resolved(With(table, S), f) = {a.row}
  <2>1. f \in Impact(S) /\ S \subseteq Closeable(table, usage)
    BY <1>3, <1>4, <1>5, <1>6 DEF Open
  <2> QED BY <2>1, ImpactPriced
<1>10. /\ a \in B /\ a \in close /\ f \in Impact(B)
       /\ a.row \in Usable(With(table, S), f) /\ a.prefix \in Matches[f.model]
  <2>1. a \in B /\ a \in close /\ f \in Impact(B)
    BY <1>3, <1>4, <1>9 DEF Impact
  <2>2. a.row \in Usable(With(table, S), f)
    BY <1>9 DEF Resolved
  <2> QED BY <1>7, <2>1, <2>2 DEF Usable
<1>11. ~IsOwn(f.model, a.prefix) /\ <<f.model, a.prefix>> \in Ancestor
  <2>1. ~IsOwn(f.model, a.prefix)
    BY <1>5, <1>7, <1>9, <1>10 DEF Open, OwnPriced
  <2> QED BY <1>7, <1>10, <2>1 DEF IsOwn, IsEstimated
<1>12. PICK b \in B : Resolved(With(table, B), f) = {b.row} /\ IsOwn(f.model, b.prefix)
  BY <1>8, <1>10
<1>13. With(table, S) \subseteq With(table, B)
  BY <1>4 DEF With
<1>14. Length[a.prefix] < Length[b.prefix]
  <2>1. a.row \in Usable(With(table, B), f)
    BY <1>10, <1>13 DEF Usable
  <2>2. b.row.prefix # a.row.prefix
    BY <1>3, <1>7, <1>10, <1>11, <1>12
  <2>3. \/ Length[a.row.prefix] < Length[b.row.prefix]
        \/ a.row.prefix = b.row.prefix /\ a.row.from <= b.row.from
    BY <1>12, <2>1 DEF Resolved
  <2> QED BY <1>3, <1>7, <1>10, <2>2, <2>3
<1>15. b \notin S
  <2>1. SUFFICES ASSUME b \in S PROVE FALSE
    OBVIOUS
  <2>2. b.row \in With(table, S)
    BY <2>1 DEF With
  <2>3. b.row \in Resolved(With(table, S), f)
    BY <1>12, <1>13, <2>2, ResolvedStays
  <2>4. b.row = a.row
    BY <1>9, <2>3
  <2> QED BY <1>3, <1>7, <1>10, <1>11, <1>12, <2>4
<1>16. IsOwn(f.model, d.prefix) /\ Length[b.prefix] <= Length[d.prefix] /\ d \in close
  BY <1>3, <1>5, <1>12, <1>15 DEF Owners
<1>17. \A m \in Model, q \in Prefix :
         ~(<<m, d.prefix>> \in Ancestor /\ IsOwn(m, q) /\ Length[d.prefix] < Length[q])
  <2>1. Length[a.prefix] < Length[d.prefix]
    BY <1>3, <1>7, <1>10, <1>14, <1>16
  <2>2. f.model \in Model /\ a.prefix \in Prefix /\ d.prefix \in Prefix
    BY <1>7, <1>8, <1>10, <1>16
  <2> QED BY <1>11, <1>16, <2>1, <2>2 DEF OneLevelOfVersions
\* so d is the own price of all it touches
<1>18. ASSUME NEW e \in d.impact
       PROVE  IsOwn(e.model, d.prefix) /\ Resolved(table \cup {d.row}, e) = {d.row}
  <2>1. e \in usage /\ Resolved(table \cup {d.row}, e) = {d.row}
    BY <1>6, <1>16, CloseableImpact
  <2>2. d.row \in Usable(table \cup {d.row}, e)
    BY <2>1 DEF Resolved
  <2>3. d.row \in With(table, B) /\ e \in Impact(B)
    BY <1>3 DEF With, Impact
  <2>4. d.row \in Usable(With(table, B), e) /\ d.prefix \in Matches[e.model]
    BY <1>7, <1>16, <2>2, <2>3 DEF Usable
  <2>5. PICK w \in B : Resolved(With(table, B), e) = {w.row} /\ IsOwn(e.model, w.prefix)
    BY <1>8, <2>3
  <2>6. SUFFICES ASSUME ~IsOwn(e.model, d.prefix) PROVE FALSE
    BY <2>1
  <2>7. <<e.model, d.prefix>> \in Ancestor
    BY <1>7, <1>16, <2>4, <2>6 DEF IsOwn, IsEstimated
  <2>8. \/ Length[d.row.prefix] < Length[w.row.prefix]
        \/ d.row.prefix = w.row.prefix /\ d.row.from <= w.row.from
    BY <2>4, <2>5 DEF Resolved
  <2>9. Length[d.prefix] < Length[w.prefix] /\ w.prefix \in Prefix
    BY <1>3, <1>7, <1>16, <2>5, <2>6, <2>8
  <2> QED BY <1>8, <1>17, <2>3, <2>5, <2>7, <2>9
<1>19. Open(table, {d}) = {}
  <2> SUFFICES ASSUME NEW e \in d.impact PROVE OwnPriced(With(table, {d}), e)
    BY DEF Open, Impact
  <2>1. With(table, {d}) = table \cup {d.row}
    BY DEF With
  <2> QED BY <1>7, <1>16, <1>18, <2>1 DEF OwnPriced
<1>20. Grow(table, close, {d}) = {d} /\ Unclosable(table, close, {d}) = {}
  BY <1>19 DEF Grow, Unclosable
<1>21. Bundle(table, close, d) = {d}
  BY <1>1, <1>16, <1>20, BundleOfOne
<1> DEFINE x == [cand |-> d, bundle |-> Bundle(table, close, d)]
<1>22. x \in Offers(table, usage)
  <2>1. x.bundle = {d}
    BY <1>21
  <2>2. x \in {[cand |-> y, bundle |-> Bundle(table, close, y)] : y \in close}
    BY <1>16
  <2> HIDE DEF x
  <2> QED BY <1>6, <1>20, <2>1, <2>2 DEF Offers
<1> QED BY <1>22

\* What the plan offers the apply accepts.
THEOREM OffersAreAccepted ==
  ASSUME OneLevelOfVersions
  PROVE  Spec => []OfferedIsAccepted
<1>1. IndInv /\ Finite => Recorded(rows, events)
  <2> SUFFICES ASSUME IndInv, Finite PROVE Recorded(rows, events)
    OBVIOUS
  <2>1. events \in SUBSET [model : Model, day : 1..today] /\ today \in Nat
    BY PricingAssumption DEF IndInv, TypeOK
  <2> QED BY <2>1 DEF IndInv, TypeOK, Finite, Recorded
<1>2. Recorded(rows, events) => OfferedIsAccepted
  <2> SUFFICES ASSUME Recorded(rows, events) PROVE OfferedIsAccepted
    OBVIOUS
  <2>1. \A o \in Offers(rows, events) : o.bundle \subseteq {x.cand : x \in Offers(rows, events)}
    <3> SUFFICES ASSUME NEW o \in Offers(rows, events), NEW d \in o.bundle
                 PROVE  \E x \in Offers(rows, events) : x.cand = d
      OBVIOUS
    <3> QED BY RequiredAreOffered
  <2>2. ASSUME NEW S \in SUBSET Offers(rows, events),
               \A o \in S : o.bundle \subseteq {x.cand : x \in S}
        PROVE  Applied(rows, events, {c.prefix : c \in {o.cand : o \in S}}) # {}
    BY <2>2, ClosedOffersApply
  <2> QED BY <2>1, <2>2 DEF OfferedIsAccepted
<1> QED BY <1>1, <1>2, AlwaysFinite, PTL

-----------------------------------------------------------------------------
(* A backfill settles what it was applied for. *)

LEMMA AppliedIs ==
  ASSUME NEW table, NEW usage, NEW named, NEW new \in Applied(table, usage, named)
  PROVE  \E S : /\ S \subseteq Closeable(table, usage)
                /\ new = {c.row : c \in S} /\ table \cup new = With(table, S)
<1> DEFINE S == {o.cand : o \in {x \in Offers(table, usage) : x.cand.prefix \in named}}
<1>1. new = {c.row : c \in S}
  BY DEF Applied
<1>2. S \subseteq Closeable(table, usage)
  BY OfferParts
<1>3. table \cup new = With(table, S)
  BY <1>1 DEF With
<1> QED BY <1>1, <1>2, <1>3

\* The row an apply adds for a prefix is dated at the first event that was
\* estimated, so none of the events before it is owed a backfill.
LEMMA AppliedLeavesNothing ==
  ASSUME NEW table, NEW usage, Recorded(table, usage), NEW named,
         NEW new \in Applied(table, usage, named), NEW n \in new,
         NEW d \in BackfillCandidates(table \cup new, usage), d.prefix = n.prefix
  PROVE  FALSE
<1> DEFINE after == table \cup new
<1>1. PICK S : S \subseteq Closeable(table, usage) /\ new = {c.row : c \in S}
               /\ after = With(table, S)
  BY AppliedIs
<1>2. PICK c \in S : n = c.row
  BY <1>1
<1>3. /\ c \in Closeable(table, usage) /\ n.prefix = c.prefix /\ n \in RowSet /\ n \in after
      /\ \A s \in table : s.prefix = c.prefix => n.from < s.from
  <2>1. c \in Closeable(table, usage)
    BY <1>1, <1>2
  <2> QED BY <1>2, <2>1, CloseableRow
<1>4. after \in SUBSET RowSet /\ UniqueKey(after)
  BY <1>1, WithRecorded
\* the candidate after the apply would start from the row just added ...
<1>5. PICK r \in FirstRows(after) : \E e \in First(Triggers(after, usage, r.prefix)) :
        d = Candidate(after, usage, r, e.day)
  BY CandidateOf
<1>6. PICK e \in First(Triggers(after, usage, r.prefix)) : d = Candidate(after, usage, r, e.day)
  BY <1>5
<1> HIDE DEF after
<1>7. r \in after /\ r \in Earliest(after, r.prefix) /\ r.prefix = c.prefix
  BY <1>3, <1>6 DEF FirstRows, Candidate
<1>8. r.from <= n.from /\ r.from \in Nat /\ n.from \in Nat
  BY <1>3, <1>4, <1>7 DEF Earliest, RowSet
<1>9. r = n
  <2>1. CASE r \in table
    BY <1>3, <1>7, <1>8, <2>1
  <2>2. ASSUME NEW x \in S, r = x.row PROVE r = n
    <3>1. x \in Closeable(table, usage)
      BY <1>1
    <3>2. x.prefix = c.prefix
      BY <1>7, <2>2, <3>1, CloseableRow
    <3>3. x = c
      BY <1>3, <3>1, <3>2, CloseableKeys
    <3> QED BY <1>2, <2>2, <3>3
  <2> QED BY <1>1, <1>7, <2>1, <2>2 DEF after
\* ... which is dated at the first event that triggered it ...
<1>10. PICK q \in FirstRows(table) : \E x \in First(Triggers(table, usage, q.prefix)) :
        c = Candidate(table, usage, q, x.day)
  BY <1>3, CloseableOf
<1>11. PICK f \in First(Triggers(table, usage, q.prefix)) : c = Candidate(table, usage, q, f.day)
  BY <1>10
<1>12. q.prefix = c.prefix /\ n.from = f.day
  BY <1>2, <1>11 DEF Candidate, Backdated
\* ... and an event that triggers it now did so before.
<1>13. e \in usage /\ e.day < n.from /\ IsOwn(e.model, c.prefix) /\ Estimated(after, e)
  BY <1>6, <1>7, <1>9 DEF First, Triggers, Before
<1>14. e.day \in Nat /\ e.model \in Model
  BY <1>13 DEF Recorded
<1>15. e \in Before(table, usage, c.prefix)
  <2>1. ASSUME NEW s \in Earliest(table, c.prefix) PROVE e.day < s.from
    <3>1. s \in table /\ s.prefix = c.prefix /\ s.from \in Nat
      BY DEF Earliest, Recorded, RowSet
    <3>2. n.from < s.from
      BY <1>3, <3>1
    <3> QED BY <1>8, <1>13, <1>14, <3>1, <3>2
  <2> QED BY <1>13, <2>1 DEF Before
<1>16. Estimated(table, e)
  <2>1. CASE Resolved(table, e) = Resolved(after, e)
    BY <1>13, <2>1 DEF Estimated
  <2>2. CASE Resolved(table, e) # Resolved(after, e)
    <3>1. OwnPriced(after, e)
      BY <1>13, <2>2, AppliedReprices DEF after
    <3>2. PICK s \in Resolved(after, e) : IsOwn(e.model, s.prefix)
      BY <3>1 DEF OwnPriced
    <3>3. PICK t \in Resolved(after, e) : IsEstimated(e.model, t.prefix)
      BY <1>13 DEF Estimated
    <3>4. s = t
      BY <1>4, ResolvedOne
    <3> QED BY <3>2, <3>3, <3>4 DEF IsOwn
  <2> QED BY <2>1, <2>2
<1>17. e \in Triggers(table, usage, q.prefix)
  BY <1>12, <1>13, <1>15, <1>16 DEF Triggers
<1>18. f.day <= e.day /\ f.day \in Nat
  BY <1>8, <1>11, <1>12, <1>17 DEF First
<1> QED BY <1>12, <1>13, <1>14, <1>18

\* None of the prefixes an apply adds a row for is a candidate afterwards.
THEOREM BackfillSettles == Spec => AppliedSettles
<1> DEFINE Settles ==
      \A p \in Backfiller : ~At(p, "applied") /\ cmd'[p].at = "applied" =>
        \A r \in rows' \ rows :
          r.prefix \notin {c.prefix : c \in BackfillCandidates(rows', events')}
<1>1. IndInv /\ Finite /\ [Next]_vars => [Settles]_vars
  <2> SUFFICES ASSUME IndInv, Finite, [Next]_vars, NEW p \in Backfiller,
                      ~At(p, "applied"), cmd'[p].at = "applied",
                      NEW r \in rows' \ rows,
                      NEW d \in BackfillCandidates(rows', events'), d.prefix = r.prefix
               PROVE  FALSE
    OBVIOUS
  <2>1. DOMAIN cmd = Command /\ p \in Command
    BY DEF IndInv, TypeOK, Command
  <2>2. ASSUME NEW q \in Command, NEW v, Goto(q, v), v.at # "applied" PROVE FALSE
    BY <2>1, <2>2 DEF Goto, At
  <2>3. cmd' # cmd
    BY DEF At
  <2>4. ~Midnight /\ ~(\E m \in Model, day \in 1..today : Capture(m, day))
        /\ ~(\E e \in events : Delete(e)) /\ ~UNCHANGED vars
    BY <2>3 DEF Midnight, Capture, Delete, vars
  <2>5. ASSUME NEW q \in Refresher PROVE ~Refresh(q)
    <3>1. ~RefreshApply(q)
      BY <2>2 DEF RefreshApply, Idle, Command
    <3>2. ASSUME NEW page, RefreshPlan(q, page) PROVE FALSE
      <4> DEFINE v == [at |-> "minting", day |-> today, page |-> page, seen |-> rows,
                       warned |-> Warned(rows, page, today),
                       new |-> {Row(c) : c \in Planned(rows, page, today)}]
      <4>1. Goto(q, v) /\ v.at # "applied" /\ q \in Command
        BY <3>2 DEF RefreshPlan, Command
      <4> HIDE DEF v
      <4> QED BY <2>2, <4>1
    <3> QED BY <3>1, <3>2 DEF Refresh
  <2>6. ASSUME NEW q \in Backfiller PROVE ~Plan(q) /\ ~ClearSummary(q)
    <3>1. q \in Command
      BY DEF Command
    <3>2. ~PlanStart(q)
      BY <2>2, <3>1 DEF PlanStart
    <3>3. ~PlanCompute(q)
      BY <2>2, <3>1 DEF PlanCompute
    <3>4. ~PlanCheck(q)
      BY <2>2, <3>1 DEF PlanCheck, Idle
    <3>5. ~PlanWrite(q)
      BY <2>2, <3>1 DEF PlanWrite, Idle
    <3>6. ~ClearSummary(q)
      BY <2>2, <3>1 DEF ClearSummary, Idle
    <3> QED BY <3>2, <3>3, <3>4, <3>5, <3>6 DEF Plan
  <2>7. ASSUME NEW q \in Command PROVE ~Kill(q)
    BY <2>2 DEF Kill, Idle
  <2>8. PICK q \in Backfiller : Backfill(q)
    BY <2>4, <2>5, <2>6, <2>7 DEF Next
  <2>9. PICK named : BackfillApply(q, named)
    BY <2>6, <2>8 DEF Backfill
  <2>10. PICK new \in Applied(rows, events, named) : rows' = rows \cup new
    BY <2>9 DEF BackfillApply
  <2>11. events' = events /\ r \in new
    BY <2>9, <2>10 DEF BackfillApply
  <2>12. Recorded(rows, events)
    <3>1. events \in SUBSET [model : Model, day : 1..today] /\ today \in Nat
      BY PricingAssumption DEF IndInv, TypeOK
    <3> QED BY <3>1 DEF IndInv, TypeOK, Finite, Recorded
  <2>13. d \in BackfillCandidates(rows \cup new, events)
    BY <2>10, <2>11
  <2> QED BY <2>11, <2>12, <2>13, AppliedLeavesNothing
<1> QED BY <1>1, AlwaysFinite, PTL DEF Spec, AppliedSettles

-----------------------------------------------------------------------------
(* A family's default follows its newest version. *)

\* A minted row is in effect on the day of the refresh.
LEMMA SpecificInEffect ==
  ASSUME NEW page \in Seq(Entry), NEW day \in Nat, NEW c \in Specific(page, day)
  PROVE  c.from <= day
<1>1. PICK i \in Kept(page, day) : \E p \in Items(SpecificPrefix[page[i].version]) :
        c = [prefix |-> p, rate |-> page[i].rate, from |-> MintedFrom(page[i], day)]
  BY DEF Specific
<1>2. i \in DOMAIN page /\ Mints(page, day, page[i])
  BY DEF Kept
<1>3. page[i].cond \in Condition
  <2>1. page[i] \in Entry
    BY <1>2
  <2> QED BY <2>1 DEF Entry
<1>4. CASE page[i].cond.kind = "starting"
  <2>1. page[i].cond.day <= day
    BY <1>2, <1>4 DEF Mints, InForce
  <2> QED BY <1>1, <1>4, <2>1 DEF MintedFrom
<1>5. CASE page[i].cond.kind # "starting"
  BY <1>1, <1>5 DEF MintedFrom
<1> QED BY <1>4, <1>5

\* The first prefix of a version is its own, and no family's.
LEMMA FirstPrefix ==
  ASSUME NEW v \in Version
  PROVE  /\ SpecificPrefix[v][1] \in Prefix \ FamilyRow
         /\ SpecificPrefix[v][1] \in Items(SpecificPrefix[v])
         /\ FamilyPrefix[v] \in Prefix \cap FamilyRow
<1>1. SpecificPrefix[v] \in Seq(Prefix \ FamilyRow) /\ SpecificPrefix[v] # <<>>
  BY RatesAssumption
<1>2. 1 \in DOMAIN SpecificPrefix[v]
  <2> DEFINE seq == SpecificPrefix[v]
  <2>1. seq \in Seq(Prefix \ FamilyRow) /\ seq # <<>>
    BY <1>1
  <2> HIDE DEF seq
  <2>2. 1 \in DOMAIN seq
    BY <2>1
  <2> QED BY <2>2 DEF seq
<1> QED BY <1>1, <1>2, RatesAssumption DEF Items

\* When a page mints anything for a version, one of it is the latest.
LEMMA LatestExists ==
  ASSUME NEW page \in Seq(Entry), NEW day \in Nat, NEW v \in Version,
         NEW j \in DOMAIN page, page[j].version = v, Mints(page, day, page[j])
  PROVE  Latest(page, day, SpecificPrefix[v][1]) # {}
<1> DEFINE p == SpecificPrefix[v][1]
           M == {i \in DOMAIN page :
                   /\ page[i].version = v /\ Mints(page, day, page[i])
                   /\ MintedFrom(page[i], day) = MintedFrom(page[j], day)}
<1>1. DOMAIN page = 1..Len(page) /\ Len(page) \in Nat
  OBVIOUS
<1>2. PICK i \in M : \A h \in M : i <= h
  <2>1. j \in M
    OBVIOUS
  <2>2. M \subseteq Nat /\ M # {}
    BY <1>1, <2>1
  <2> HIDE DEF M
  <2> QED BY <2>2, LeastNat
<1>3. i \in Kept(page, day)
  <2>1. i \in DOMAIN page /\ Mints(page, day, page[i])
    BY <1>2
  <2>2. ASSUME NEW h \in 1..(i - 1), page[h].version = page[i].version,
               Mints(page, day, page[h]),
               MintedFrom(page[h], day) = MintedFrom(page[i], day)
        PROVE  FALSE
    <3>1. h \in DOMAIN page /\ h < i
      BY <1>1, <2>1
    <3>2. h \in M
      BY <1>2, <2>2, <3>1
    <3> QED BY <1>1, <1>2, <2>1, <3>1, <3>2
  <2> QED BY <2>1, <2>2 DEF Kept
<1>4. [prefix |-> p, rate |-> page[i].rate, from |-> MintedFrom(page[i], day)] \in Specific(page, day)
  <2>1. p \in Items(SpecificPrefix[page[i].version])
    BY <1>2, FirstPrefix
  <2> DEFINE minted(k) == {[prefix |-> q, rate |-> page[k].rate, from |-> MintedFrom(page[k], day)] :
                             q \in Items(SpecificPrefix[page[k].version])}
  <2>2. [prefix |-> p, rate |-> page[i].rate, from |-> MintedFrom(page[i], day)] \in minted(i)
    BY <2>1
  <2>3. minted(i) \in {minted(k) : k \in Kept(page, day)}
    BY <1>3
  <2>4. Specific(page, day) = UNION {minted(k) : k \in Kept(page, day)}
    BY DEF Specific
  <2> HIDE DEF minted
  <2> QED BY <2>2, <2>3, <2>4
<1> DEFINE C == {c \in Specific(page, day) : c.prefix = p}
           F == {c.from : c \in C}
<1>5. PICK f \in F : \A g \in F : g <= f
  <2>1. C # {}
    BY <1>4
  <2>2. F # {}
    BY <2>1
  <2>3. \A c \in Specific(page, day) : c.from \in Nat /\ c.from <= day
    BY SpecificInBounds, SpecificInEffect
  <2>4. F \subseteq Nat /\ \A g \in F : g <= day
    BY <2>3
  <2> HIDE DEF F
  <2> QED BY <2>2, <2>4, LargestNat
<1>6. PICK c \in C : c.from = f
  BY <1>5
<1>7. c \in Latest(page, day, p)
  BY <1>5, <1>6 DEF Latest
<1> QED BY <1>7

\* A newest version of which nothing is minted is one the report warns about.
LEMMA UnmintedIsReported ==
  ASSUME NEW page \in Seq(Entry), NEW day \in Nat, NEW v \in Newest(page),
         \A j \in DOMAIN page : page[j].version = v => ~Mints(page, day, page[j])
  PROVE  \/ v \in StaleIntros(page, day) \cup FutureOnlyNewest(page, day)
         \/ v \in {e.version : e \in Refused(page, day)}
<1> DEFINE E == {e \in Items(page) : e.version = v}
<1>1. \A e \in E : ~Mints(page, day, e) /\ e \in Entry /\ e.cond \in Condition
  <2> SUFFICES ASSUME NEW e \in E
               PROVE  ~Mints(page, day, e) /\ e \in Entry /\ e.cond \in Condition
    OBVIOUS
  <2>1. PICK j \in DOMAIN page : e = page[j]
    BY DEF Items
  <2>2. e \in Entry /\ ~Mints(page, day, e)
    BY <2>1
  <2> QED BY <2>2 DEF Entry
<1>2. CASE \E e \in E : InForce(e.cond, day)
  <2>1. PICK e \in E : InForce(e.cond, day)
    BY <1>2
  <2>2. RowKey(e) \in {RowKey(x) : x \in Refused(page, day)}
    BY <1>1, <2>1 DEF Mints
  <2>3. PICK x \in Refused(page, day) : RowKey(x) = RowKey(e)
    BY <2>2
  <2>4. x.version = v
    BY <2>3 DEF RowKey
  <2> QED BY <2>4
<1>3. CASE \A e \in E : ~InForce(e.cond, day)
  <2>1. v \notin Conditioned(page, day)
    BY <1>3 DEF Conditioned
  <2>2. \A e \in E : e.cond.kind # "none"
    BY <1>1, <1>3, <2>1 DEF Mints
  <2>3. \A e \in E : /\ e.cond.kind \in {"through", "starting"} /\ e.cond.day \in Nat
    BY <1>1, <2>2 DEF Condition
  <2>4. CASE \E e \in E : e.cond.kind = "through"
    <3>1. PICK e \in E : e.cond.kind = "through"
      BY <2>4
    <3>2. e.cond.day < day
      BY <1>3, <2>3, <3>1 DEF InForce
    <3>3. v \notin {x.version : x \in {y \in Items(page) : \/ y.cond.kind = "none"
                                                            \/ InForce(y.cond, day)}}
      BY <1>3, <2>2
    <3>4. v \in {x.version : x \in {y \in Items(page) : y.cond.kind = "through" /\ y.cond.day < day}}
      BY <3>1, <3>2
    <3> QED BY <3>3, <3>4 DEF StaleIntros
  <2>5. CASE \A e \in E : e.cond.kind # "through"
    <3>1. \A e \in E : e.cond.kind = "starting" /\ e.cond.day > day
      BY <1>3, <2>3, <2>5 DEF InForce
    <3> QED BY <3>1 DEF FutureOnlyNewest
  <2> QED BY <2>4, <2>5
<1> QED BY <1>2, <1>3

\* What a page mints with the first prefix of its newest version is that version's.
LEMMA OwnCandidates ==
  ASSUME NEW page \in Seq(Entry), NEW day \in Nat, NEW v \in Version,
         NEW x \in Candidates(page, day), x.prefix = Own(v)
  PROVE  /\ x \in Specific(page, day)
         /\ \E j \in DOMAIN page : page[j].version = v /\ Mints(page, day, page[j])
<1> DEFINE p == Own(v)
<1>1. p \in Prefix \ FamilyRow /\ p \in Items(SpecificPrefix[v])
  BY FirstPrefix DEF Own
<1>2. x \notin FamilyDefaults(page, day)
  <2>1. SUFFICES ASSUME x \in FamilyDefaults(page, day) PROVE FALSE
    OBVIOUS
  <2>2. PICK w \in Newest(page) : \E y \in Latest(page, day, SpecificPrefix[w][1]) :
          x = [prefix |-> FamilyPrefix[w], rate |-> y.rate, from |-> day]
    BY <2>1 DEF FamilyDefaults
  <2>3. w \in Version
    BY <2>2, NewestVersion
  <2> QED BY <1>1, <2>2, <2>3, RatesAssumption
<1>3. x \in Specific(page, day)
  BY <1>2 DEF Candidates
<1>4. PICK i \in Kept(page, day) : \E q \in Items(SpecificPrefix[page[i].version]) :
        x = [prefix |-> q, rate |-> page[i].rate, from |-> MintedFrom(page[i], day)]
  BY <1>3 DEF Specific
<1>5. i \in DOMAIN page /\ Mints(page, day, page[i])
  BY DEF Kept
<1>6. page[i].version \in Version
  <2>1. page[i] \in Entry
    BY <1>5
  <2> QED BY <2>1 DEF Entry
<1>7. page[i].version = v
  <2>1. PICK m \in DOMAIN SpecificPrefix[page[i].version] : p = SpecificPrefix[page[i].version][m]
    BY <1>4 DEF Items
  <2>2. PICK n \in DOMAIN SpecificPrefix[v] : p = SpecificPrefix[v][n]
    BY <1>1 DEF Items
  <2> QED BY <1>6, <2>1, <2>2, RatesAssumption
<1> QED BY <1>3, <1>5, <1>7

\* The family's candidate is the default of its newest version, dated the day of
\* the refresh.
LEMMA FamilyCandidate ==
  ASSUME NEW page \in Seq(Entry), NEW day \in Nat, NEW v \in Newest(page),
         NEW c \in Latest(page, day, Own(v))
  PROVE  LET default == [prefix |-> FamilyPrefix[v], rate |-> c.rate, from |-> day]
         IN  /\ default \in Candidates(page, day)
             /\ \A x \in Candidates(page, day) : x.prefix = FamilyPrefix[v] => x = default
<1> DEFINE default == [prefix |-> FamilyPrefix[v], rate |-> c.rate, from |-> day]
<1>1. FamilyPrefix[v] \in FamilyRow
  BY NewestVersion, FirstPrefix
<1>2. default \in Candidates(page, day)
  BY DEF FamilyDefaults, Candidates, Own
<1>3. ASSUME NEW x \in Candidates(page, day), x.prefix = FamilyPrefix[v] PROVE x = default
  <2>1. x \in FamilyDefaults(page, day)
    BY <1>1, <1>3, SpecificInBounds DEF Candidates
  <2>2. x.from = day
    BY <2>1 DEF FamilyDefaults
  <2> QED BY <1>2, <1>3, <2>2, CandidatesUnique
<1> QED BY <1>2, <1>3

\* The row of the latest date in effect gives the rate.
LEMMA ChargedOne ==
  ASSUME NEW table, NEW p, NEW day \in Nat, NEW r \in table,
         r.prefix = p, r.from <= day, r.from \in Nat,
         \A y \in table : y.prefix = p /\ y.from <= day /\ y # r => y.from \in Nat /\ y.from < r.from
  PROVE  Charged(table, p, day) = {r.rate}
<1> DEFINE X == {x \in table : /\ x.prefix = p /\ x.from <= day
                   /\ \A y \in table : y.prefix = p /\ y.from <= day => y.from <= x.from}
<1>1. r \in X
  OBVIOUS
<1>2. \A x \in X : x = r
  OBVIOUS
<1>3. X = {r}
  BY <1>1, <1>2
<1> HIDE DEF X
<1>4. {x.rate : x \in X} = {r.rate}
  BY <1>3
<1> QED BY <1>4 DEF Charged, X

\* A refresh in flight holds what it planned against the table it saw, and a row
\* that came since is a refresh's, or a backfill's: dated before a row of its
\* prefix that the refresh saw, or that another refresh wrote.
ReportInv ==
  \A p \in Refresher : At(p, "minting") =>
    /\ cmd[p].page \in Seq(Entry)
    /\ cmd[p].seen \subseteq rows
    /\ cmd[p].new = {Row(c) : c \in Planned(cmd[p].seen, cmd[p].page, cmd[p].day)}
    /\ cmd[p].warned = Warned(cmd[p].seen, cmd[p].page, cmd[p].day)
    /\ \A r \in rows \ cmd[p].seen :
         \/ r.src = "page"
         \/ /\ r.prefix \notin FamilyRow
            /\ \E s \in rows : /\ s.prefix = r.prefix /\ r.from < s.from
                               /\ s \in cmd[p].seen \/ s.src = "page"

LEMMA ReportInit == Init => ReportInv
BY DEF Init, ReportInv, At, Idle, Command

LEMMA ReportStep == IndInv /\ ReportInv /\ [Next]_vars => ReportInv'
<1> SUFFICES ASSUME IndInv, ReportInv, [Next]_vars PROVE ReportInv'
  OBVIOUS
<1> DEFINE Holds(table, v) ==
      /\ v.page \in Seq(Entry)
      /\ v.seen \subseteq table
      /\ v.new = {Row(c) : c \in Planned(v.seen, v.page, v.day)}
      /\ v.warned = Warned(v.seen, v.page, v.day)
      /\ \A r \in table \ v.seen :
           \/ r.src = "page"
           \/ /\ r.prefix \notin FamilyRow
              /\ \E s \in table : /\ s.prefix = r.prefix /\ r.from < s.from
                                  /\ s \in v.seen \/ s.src = "page"
<1>0. DOMAIN cmd = Command /\ Refresher \subseteq Command /\ Backfiller \subseteq Command
  BY DEF IndInv, TypeOK, Command
<1>1. \A q \in Refresher : At(q, "minting") => Holds(rows, cmd[q])
  BY DEF ReportInv
<1> HIDE DEF Holds
<1>2. ASSUME NEW p \in Command, NEW v, Goto(p, v), v.at = "minting" => Holds(rows', v),
             \A q \in Refresher : At(q, "minting") => Holds(rows', cmd[q])
      PROVE  ReportInv'
  <2>1. \A q \in Refresher : cmd'[q].at = "minting" => Holds(rows', cmd'[q])
    BY <1>0, <1>2 DEF Goto, At
  <2> QED BY <2>1 DEF ReportInv, At, Holds
<1>3. ASSUME UNCHANGED <<cmd, rows>> PROVE ReportInv'
  BY <1>3 DEF ReportInv, At
<1>4. ASSUME NEW p \in Refresher, NEW page \in Page[today], RefreshPlan(p, page) PROVE ReportInv'
  <2> DEFINE v == [at |-> "minting", day |-> today, page |-> page, seen |-> rows,
                   warned |-> Warned(rows, page, today),
                   new |-> {Row(c) : c \in Planned(rows, page, today)}]
  <2>1. page \in Seq(Entry)
    BY PricingAssumption DEF IndInv, TypeOK
  <2>2. Holds(rows, v)
    BY <2>1 DEF Holds
  <2>3. Goto(p, v) /\ rows' = rows
    BY <1>4 DEF RefreshPlan
  <2> HIDE DEF v
  <2> QED BY <1>0, <1>1, <1>2, <2>2, <2>3
<1>5. ASSUME NEW p \in Refresher, RefreshApply(p) PROVE ReportInv'
  <2>1. At(p, "minting") /\ rows' = Insert(rows, cmd[p].new) /\ Goto(p, Idle)
    BY <1>5 DEF RefreshApply
  <2>2. rows \subseteq rows' /\ \A r \in rows' \ rows : r.src = "page"
    BY <1>1, <2>1 DEF Holds, Insert, Row
  <2>3. \A q \in Refresher : At(q, "minting") => Holds(rows', cmd[q])
    BY <1>1, <2>2 DEF Holds
  <2> QED BY <1>0, <1>2, <2>1, <2>3 DEF Idle
<1>6. ASSUME NEW p \in Command, NEW v, Goto(p, v), v.at # "minting", rows' = rows PROVE ReportInv'
  BY <1>1, <1>2, <1>6
<1>7. ASSUME NEW p \in Backfiller, Plan(p) PROVE ReportInv'
  <2>1. \E v : Goto(p, v) /\ v.at # "minting"
    <3>1. CASE PlanStart(p)
      BY <3>1 DEF PlanStart
    <3>2. CASE PlanCompute(p)
      BY <3>2 DEF PlanCompute
    <3>3. CASE PlanCheck(p)
      BY <3>3 DEF PlanCheck, Idle
    <3>4. CASE PlanWrite(p)
      BY <3>4 DEF PlanWrite, Idle
    <3> QED BY <1>7, <3>1, <3>2, <3>3, <3>4 DEF Plan
  <2>2. rows' = rows
    BY <1>7 DEF Plan, PlanStart, PlanCompute, PlanCheck, PlanWrite
  <2> QED BY <1>0, <1>6, <2>1, <2>2
<1>8. ASSUME NEW p \in Backfiller, NEW named, BackfillApply(p, named) PROVE ReportInv'
  <2>1. PICK new \in Applied(rows, events, named) : rows' = rows \cup new
    BY <1>8 DEF BackfillApply
  <2>2. /\ events \in SUBSET [model : Model, day : 1..today]
        /\ today \in Nat /\ rows \in SUBSET RowSet
    BY PricingAssumption DEF IndInv, TypeOK
  <2>3. ASSUME NEW n \in new
        PROVE  /\ n.prefix \notin FamilyRow /\ n.from \in Nat
               /\ \E s \in rows : s.prefix = n.prefix /\ n.from < s.from
    <3>1. PICK c \in BackfillCandidates(rows, events) : n = c.row
      BY AppliedRows
    <3>2. PICK r \in FirstRows(rows) : r \in rows /\ r.prefix = c.prefix /\ c.row.prefix = c.prefix
      BY CandidatePrefix
    <3>3. n.from < r.from /\ n \in RowSet
      BY <2>2, <3>1, <3>2, CandidateRow
    <3> QED BY <3>1, <3>2, <3>3 DEF FirstRows, RowSet
  <2>4. ASSUME NEW q \in Refresher, At(q, "minting") PROVE Holds(rows', cmd[q])
    <3>1. Holds(rows, cmd[q])
      BY <1>1, <2>4
    <3>2. ASSUME NEW n \in new
          PROVE  \E s \in rows : /\ s.prefix = n.prefix /\ n.from < s.from
                                 /\ s \in cmd[q].seen \/ s.src = "page"
      <4>1. PICK r \in rows : r.prefix = n.prefix /\ n.from < r.from
        BY <2>3
      <4>2. CASE r \in cmd[q].seen \/ r.src = "page"
        BY <4>1, <4>2
      <4>3. CASE ~(r \in cmd[q].seen \/ r.src = "page")
        <5>1. PICK s \in rows : /\ s.prefix = r.prefix /\ r.from < s.from
                                /\ s \in cmd[q].seen \/ s.src = "page"
          BY <3>1, <4>3 DEF Holds
        <5>2. n.from \in Nat /\ r.from \in Nat /\ s.from \in Nat
          BY <2>2, <2>3 DEF RowSet
        <5> QED BY <4>1, <5>1, <5>2
      <4> QED BY <4>2, <4>3
    <3> QED BY <2>1, <2>3, <3>1, <3>2 DEF Holds
  <2>5. Goto(p, [at |-> "applied"])
    BY <1>8 DEF BackfillApply
  <2> QED BY <1>0, <1>2, <2>4, <2>5
<1>9. ASSUME NEW p \in Backfiller, ClearSummary(p) PROVE ReportInv'
  BY <1>0, <1>6, <1>9 DEF ClearSummary, Idle
<1>10. ASSUME NEW p \in Command, Kill(p) PROVE ReportInv'
  BY <1>6, <1>10 DEF Kill, Idle
<1>11. CASE UNCHANGED vars \/ Midnight
  BY <1>3, <1>11 DEF vars, Midnight
<1>12. ASSUME NEW m \in Model, NEW day \in 1..today, Capture(m, day) PROVE ReportInv'
  BY <1>3, <1>12 DEF Capture
<1>13. ASSUME NEW e \in events, Delete(e) PROVE ReportInv'
  BY <1>3, <1>13 DEF Delete
<1> QED BY <1>4, <1>5, <1>7, <1>8, <1>9, <1>10, <1>11, <1>12, <1>13 DEF Next, Refresh, Backfill

\* The newest version of a family when a refresh writes, with what holds then.
Writes(p, v) ==
  /\ IndInv /\ ReportInv /\ UniqueKey(rows') /\ RefreshApply(p)
  /\ p \in Refresher /\ v \in Newest(cmd[p].page)

LEMMA WritesParts ==
  ASSUME NEW p, NEW v, Writes(p, v)
  PROVE  /\ v \in Version /\ cmd[p].page \in Seq(Entry) /\ cmd[p].day \in Nat
         /\ cmd[p].seen \subseteq rows /\ rows \subseteq RowSet
         /\ rows' \subseteq rows \cup cmd[p].new /\ rows \subseteq rows'
         /\ cmd[p].new = {Row(c) : c \in Planned(cmd[p].seen, cmd[p].page, cmd[p].day)}
         /\ cmd[p].new \subseteq RowSet
<1>1. At(p, "minting") /\ p \in Refresher /\ rows' = Insert(rows, cmd[p].new)
  BY DEF Writes, RefreshApply
<1>2. cmd[p].page \in Seq(Entry) /\ v \in Newest(cmd[p].page)
  BY <1>1 DEF Writes, ReportInv
<1>3. today \in Nat
  BY PricingAssumption DEF Writes, IndInv, TypeOK
<1>4. cmd[p].day \in Nat
  BY <1>1, <1>3 DEF Writes, IndInv, MintingOK
<1>5. v \in Version
  BY <1>2, NewestVersion
<1> QED BY <1>1, <1>2, <1>4, <1>5 DEF Writes, ReportInv, IndInv, TypeOK, MintingOK, Insert

\* A newest version of which nothing is minted is warned about, or its increases
\* are on record.
LEMMA NothingMinted ==
  ASSUME NEW p, NEW v, Writes(p, v), Latest(cmd[p].page, cmd[p].day, Own(v)) = {}
  PROVE  v \in cmd[p].warned \/ LongRecorded(p, v)
<1> DEFINE page == cmd[p].page
           day == cmd[p].day
<1>1. page \in Seq(Entry) /\ day \in Nat /\ v \in Version /\ v \in Newest(page)
  BY WritesParts DEF Writes
<1>2. cmd[p].warned = Warned(cmd[p].seen, page, day)
  BY DEF Writes, ReportInv, RefreshApply
<1> HIDE DEF page, day
<1>3. Latest(page, day, SpecificPrefix[v][1]) = {}
  BY DEF page, day, Own
<1>4. \A j \in DOMAIN page : page[j].version = v => ~Mints(page, day, page[j])
  BY <1>1, <1>3, LatestExists
<1>5. \A c \in Candidates(page, day) : c.prefix # Own(v)
  BY <1>1, <1>4, OwnCandidates
<1>6. CASE v \in StaleIntros(page, day) \cup FutureOnlyNewest(page, day)
  BY <1>2, <1>6 DEF Warned
<1>7. CASE v \in {e.version : e \in Refused(page, day)}
  <2>1. PICK e \in Refused(page, day) : e.version = v
    BY <1>7
  <2>2. CASE AlreadyRecorded(cmd[p].seen, e)
    BY <1>5, <2>1, <2>2 DEF LongRecorded, page, day
  <2>3. CASE ~AlreadyRecorded(cmd[p].seen, e)
    BY <1>2, <2>1, <2>3 DEF Warned
  <2> QED BY <2>2, <2>3
<1> QED BY <1>1, <1>4, <1>6, <1>7, UnmintedIsReported

\* The family's default becomes the latest rate of its newest version.
LEMMA DefaultTakes ==
  ASSUME NEW p, NEW v, Writes(p, v), ~Ignored(p, v), ~Overtaken(p, v),
         NEW c \in Latest(cmd[p].page, cmd[p].day, Own(v))
  PROVE  Charged(rows', FamilyPrefix[v], cmd[p].day) = {c.rate}
<1> DEFINE page == cmd[p].page
           day == cmd[p].day
           seen == cmd[p].seen
           default == [prefix |-> FamilyPrefix[v], rate |-> c.rate, from |-> day]
<1>1. /\ v \in Version /\ v \in Newest(page) /\ page \in Seq(Entry) /\ day \in Nat
      /\ seen \subseteq rows /\ rows \subseteq RowSet /\ rows \subseteq rows'
      /\ rows' \subseteq rows \cup cmd[p].new
      /\ cmd[p].new = {Row(x) : x \in Planned(seen, page, day)} /\ cmd[p].new \subseteq RowSet
  BY WritesParts DEF Writes
<1>2. /\ default \in Candidates(page, day)
      /\ \A x \in Candidates(page, day) : x.prefix = FamilyPrefix[v] => x = default
  BY <1>1, FamilyCandidate
<1>3. FamilyPrefix[v] \in FamilyRow
  BY <1>1, FirstPrefix
<1>4. \A y \in rows \ seen : y.prefix # FamilyPrefix[v]
  BY <1>3 DEF Writes, ReportInv, RefreshApply, Overtaken
<1>5. \A y \in rows' : y.from \in Nat
  BY <1>1 DEF RowSet
<1>6. \A y, z \in rows' : y.prefix = z.prefix /\ y.from = z.from => y = z
  BY DEF Writes, UniqueKey
<1>7. CASE default \in Planned(seen, page, day)
  <2>1. Row(default) \in cmd[p].new
    BY <1>1, <1>7
  <2>2. Row(default) \in rows'
    BY <2>1 DEF Ignored, Row
  <2>3. \A y \in rows' : y.prefix = FamilyPrefix[v] /\ y.from <= day /\ y # Row(default)
                            => y.from < day
    BY <1>1, <1>5, <1>6, <2>2 DEF Row
  <2>4. Row(default).prefix = FamilyPrefix[v] /\ Row(default).from = day /\ Row(default).rate = c.rate
    BY DEF Row
  <2> HIDE DEF default, day
  <2>5. Charged(rows', FamilyPrefix[v], day) = {Row(default).rate}
    BY <1>1, <1>5, <2>2, <2>3, <2>4, ChargedOne
  <2> QED BY <2>4, <2>5 DEF day
<1>8. CASE default \notin Planned(seen, page, day)
  <2>1. PICK r \in seen : /\ r.prefix = FamilyPrefix[v] /\ r.from <= day /\ r.rate = c.rate
                          /\ \A s \in seen : s.prefix = FamilyPrefix[v] /\ s.from <= day
                               => s.from <= r.from
    BY <1>2, <1>8 DEF Planned, Unchanged
  <2>2. \A y \in cmd[p].new : y.prefix # FamilyPrefix[v]
    BY <1>1, <1>2, <1>8 DEF Planned, Row
  <2>3. \A y \in rows' : y.prefix = FamilyPrefix[v] /\ y.from <= day => y \in seen
    BY <1>1, <1>4, <2>2
  <2>4. r \in rows' /\ r.from \in Nat
    BY <1>1, <1>5, <2>1
  <2>5. \A y \in rows' : y.prefix = FamilyPrefix[v] /\ y.from <= day /\ y # r
                            => y.from < r.from
    BY <1>5, <1>6, <2>1, <2>3, <2>4
  <2> HIDE DEF day
  <2>6. Charged(rows', FamilyPrefix[v], day) = {r.rate}
    BY <1>1, <1>5, <2>1, <2>4, <2>5, ChargedOne
  <2> QED BY <2>1, <2>6 DEF day
<1> QED BY <1>7, <1>8

\* The newest version itself is charged its latest rate.
LEMMA OwnTakes ==
  ASSUME NEW p, NEW v, Writes(p, v), ~Ignored(p, v), ~Overtaken(p, v), ~Shadowed(p, v),
         NEW c \in Latest(cmd[p].page, cmd[p].day, Own(v))
  PROVE  Charged(rows', Own(v), cmd[p].day) = {c.rate}
<1> DEFINE page == cmd[p].page
           day == cmd[p].day
           seen == cmd[p].seen
<1>1. /\ v \in Version /\ page \in Seq(Entry) /\ day \in Nat
      /\ seen \subseteq rows /\ rows \subseteq RowSet /\ rows \subseteq rows'
      /\ rows' \subseteq rows \cup cmd[p].new
      /\ cmd[p].new = {Row(x) : x \in Planned(seen, page, day)} /\ cmd[p].new \subseteq RowSet
  BY WritesParts
<1>2. c \in Specific(page, day) /\ c \in Candidates(page, day) /\ c.prefix = Own(v)
  BY DEF Latest, Candidates
<1>3. c.from \in Nat /\ c.from <= day
  BY <1>1, <1>2, SpecificInBounds, SpecificInEffect
<1>4. \A y \in rows' : y.from \in Nat
  BY <1>1 DEF RowSet
<1>5. \A y, z \in rows' : y.prefix = z.prefix /\ y.from = z.from => y = z
  BY DEF Writes, UniqueKey
<1>6. \A s \in seen : s.prefix = Own(v) => s.from <= c.from
  <2>1. \A s \in seen : s.prefix = Own(v) => ~(c.from < s.from) /\ s.from \in Nat
    BY <1>1, <1>4 DEF Shadowed
  <2> QED BY <1>3, <2>1
<1>7. ASSUME NEW y \in rows \ seen, y.prefix = Own(v)
      PROVE  \E s \in seen : s.prefix = Own(v) /\ y.from < s.from
  <2>1. y.src # "page"
    BY <1>7 DEF Overtaken
  <2>2. PICK s \in rows : /\ s.prefix = Own(v) /\ y.from < s.from
                          /\ s \in seen \/ s.src = "page"
    BY <1>7, <2>1 DEF Writes, ReportInv, RefreshApply
  <2>3. s \in seen
    BY <2>2 DEF Overtaken
  <2> QED BY <2>2, <2>3
<1>8. ASSUME NEW y \in cmd[p].new, y.prefix = Own(v)
      PROVE  y.from <= c.from /\ (y.from = c.from => y = Row(c) /\ c \in Planned(seen, page, day))
  <2>1. PICK x \in Planned(seen, page, day) : y = Row(x)
    BY <1>1, <1>8
  <2>2. x \in Candidates(page, day) /\ x.prefix = Own(v) /\ x.from = y.from
    BY <1>8, <2>1 DEF Planned, Row
  <2>3. x \in Specific(page, day)
    BY <1>1, <2>2, OwnCandidates
  <2>4. x.from <= c.from
    BY <2>2, <2>3 DEF Latest
  <2>5. x.from = c.from => x = c
    BY <1>1, <1>2, <2>2, CandidatesUnique
  <2> QED BY <2>1, <2>2, <2>4, <2>5
<1>9. CASE c \in Planned(seen, page, day)
  <2>1. Row(c) \in cmd[p].new
    BY <1>1, <1>9
  <2>2. Row(c) \in rows'
    BY <1>2, <2>1 DEF Ignored, Row
  <2>3. ASSUME NEW y \in rows', y.prefix = Own(v), y # Row(c) PROVE y.from < c.from
    <3>1. y.from <= c.from
      <4>1. CASE y \in seen
        BY <1>6, <2>3, <4>1
      <4>2. CASE y \in rows \ seen
        <5>1. PICK s \in seen : s.prefix = Own(v) /\ y.from < s.from
          BY <1>7, <2>3, <4>2
        <5>2. s.from \in Nat /\ y.from \in Nat /\ s.from <= c.from
          BY <1>1, <1>4, <1>6, <5>1
        <5> QED BY <1>3, <5>1, <5>2
      <4>3. CASE y \in cmd[p].new
        BY <1>8, <2>3, <4>3
      <4> QED BY <1>1, <4>1, <4>2, <4>3
    <3>2. y.from # c.from
      BY <1>2, <1>5, <2>2, <2>3 DEF Row
    <3> QED BY <1>3, <1>4, <3>1, <3>2
  <2>4. Row(c).prefix = Own(v) /\ Row(c).from = c.from /\ Row(c).rate = c.rate
    BY <1>2 DEF Row
  <2> HIDE DEF day
  <2>5. Charged(rows', Own(v), day) = {Row(c).rate}
    BY <1>1, <1>3, <1>4, <2>2, <2>3, <2>4, ChargedOne
  <2> QED BY <2>4, <2>5 DEF day
<1>10. CASE c \notin Planned(seen, page, day)
  <2>1. Unchanged(seen, c)
    BY <1>2, <1>10 DEF Planned
  <2>2. PICK r \in seen : /\ r.prefix = Own(v) /\ r.from <= c.from /\ r.rate = c.rate
                          /\ \A s \in seen : s.prefix = Own(v) /\ s.from <= c.from
                               => s.from <= r.from
    BY <1>2, <2>1 DEF Unchanged
  <2>3. r \in rows' /\ r.from \in Nat /\ r.from <= day
    BY <1>1, <1>3, <1>4, <2>2
  <2>4. ASSUME NEW y \in rows', y.prefix = Own(v), y # r PROVE y.from < r.from
    <3>1. CASE y \in seen
      BY <1>4, <1>5, <1>6, <2>2, <2>3, <2>4, <3>1
    <3>2. CASE y \in rows \ seen
      <4>1. PICK s \in seen : s.prefix = Own(v) /\ y.from < s.from
        BY <1>7, <2>4, <3>2
      <4>2. s.from <= r.from /\ s.from \in Nat /\ y.from \in Nat
        BY <1>1, <1>4, <1>6, <2>2, <4>1
      <4> QED BY <2>3, <4>1, <4>2
    <3>3. CASE y \in cmd[p].new
      <4>1. y.from <= c.from /\ y.from # c.from
        BY <1>8, <1>10, <2>4, <3>3
      <4>2. ~(y.from < c.from)
        BY <2>1, <2>4, <3>3 DEF Shadowed
      <4> QED BY <1>3, <1>4, <4>1, <4>2
    <3> QED BY <1>1, <3>1, <3>2, <3>3
  <2> HIDE DEF day
  <2>5. Charged(rows', Own(v), day) = {r.rate}
    BY <1>1, <1>4, <2>2, <2>3, <2>4, ChargedOne
  <2> QED BY <2>2, <2>5 DEF day
<1> QED BY <1>9, <1>10

\* No family keeps an old default in silence, whatever pages are read, however many
\* refreshes, backfills and captures overlap, and whatever earlier ones recorded.
THEOREM DefaultsFollowNewest == Spec => FamilyFollowsNewest
<1> DEFINE Follows ==
      \A p \in Refresher : RefreshApply(p) =>
        \A v \in Newest(cmd[p].page) :
          \/ Charged(rows', FamilyPrefix[v], cmd[p].day) = Charged(rows', Own(v), cmd[p].day)
          \/ v \in cmd[p].warned \/ Ignored(p, v)
          \/ Overtaken(p, v)
          \/ LongRecorded(p, v) \/ Shadowed(p, v)
<1>1. IndInv /\ ReportInv /\ [Next]_vars => [Follows]_vars
  <2> SUFFICES ASSUME IndInv, ReportInv, [Next]_vars,
                      NEW p \in Refresher, RefreshApply(p), NEW v \in Newest(cmd[p].page),
                      ~Ignored(p, v), ~Overtaken(p, v), ~Shadowed(p, v),
                      v \notin cmd[p].warned, ~LongRecorded(p, v)
               PROVE  Charged(rows', FamilyPrefix[v], cmd[p].day) = Charged(rows', Own(v), cmd[p].day)
    OBVIOUS
  <2>1. Writes(p, v)
    BY StepInv DEF Writes, IndInv
  <2>2. PICK c \in Latest(cmd[p].page, cmd[p].day, Own(v)) : TRUE
    BY <2>1, NothingMinted
  <2> QED BY <2>1, <2>2, DefaultTakes, OwnTakes
<1>2. Spec => [](IndInv /\ ReportInv)
  BY InitInv, StepInv, ReportInit, ReportStep, PTL DEF Spec
<1> QED BY <1>1, <1>2, PTL DEF Spec, FamilyFollowsNewest

=============================================================================
