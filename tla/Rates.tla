------------------------------- MODULE Rates -------------------------------
(***************************************************************************)
(* How a usage event finds its price, what a pricing page mints, and what  *)
(* a backfill may add.  Pure operators over a set of pricing rows and a    *)
(* set of events, used by Pricing.                                         *)
(*                                                                         *)
(* Time is counted in days: rows are dated at UTC midnight, so a row is in *)
(* effect for an event exactly when its day is not after the event's.  A   *)
(* name is reduced to what the code asks of it: which prefixes match it,   *)
(* how long they are, and which of them are only its nearest ancestor.  A  *)
(* rate stands for the five prices of a row.                               *)
(***************************************************************************)
EXTENDS Integers, FiniteSets, Sequences

CONSTANTS
  Model,           \* model names
  Prefix,          \* model_prefix values of pricing rows
  Matches,         \* the prefixes a model name starts with
  Length,          \* the length of a prefix
  FamilyRow,       \* the prefixes that are bare family prefixes
  Ancestor,        \* <<m, p>>: m is an unlisted point release of p's version
  Version,         \* the versions a page can list
  SpecificPrefix,  \* the prefixes minted for a version, in order
  FamilyPrefix,    \* the family prefix of a version
  BackdateMaxDays  \* oldest age of a `starting` row that is still minted

ASSUME RatesAssumption ==
  /\ Matches \in [Model -> SUBSET Prefix]
  /\ Length \in [Prefix -> Nat]
  /\ \A m \in Model : \A p, q \in Matches[m] : Length[p] = Length[q] => p = q
  /\ SpecificPrefix \in [Version -> Seq(Prefix \ FamilyRow) \ {<<>>}]
  /\ \A v, w \in Version :
       \A i \in DOMAIN SpecificPrefix[v], j \in DOMAIN SpecificPrefix[w] :
         SpecificPrefix[v][i] = SpecificPrefix[w][j] => v = w /\ i = j
  /\ FamilyPrefix \in [Version -> Prefix \cap FamilyRow]
  /\ BackdateMaxDays \in Nat

Seed == 0          \* effective_from of the seed rows, "undated"

Condition == {[kind |-> "none"]} \cup [kind : {"through", "starting"}, day : Nat]

Entry == [version : Version, cond : Condition, rate : Nat]

(***************************************************************************)
(* Resolution of an event.  The sets below hold one row at most, none when *)
(* the event is unpriced.                                                  *)
(***************************************************************************)

Usable(rows, e) == {r \in rows : r.prefix \in Matches[e.model] /\ r.from <= e.day}

Resolved(rows, e) ==
  {r \in Usable(rows, e) : \A s \in Usable(rows, e) :
      \/ Length[s.prefix] < Length[r.prefix]
      \/ s.prefix = r.prefix /\ s.from <= r.from}

IsEstimated(m, p) == p \in FamilyRow \/ <<m, p>> \in Ancestor

IsOwn(m, p) == p \in Matches[m] /\ ~IsEstimated(m, p)

Estimated(rows, e) == \E r \in Resolved(rows, e) : IsEstimated(e.model, r.prefix)

OwnPriced(rows, e) == \E r \in Resolved(rows, e) : IsOwn(e.model, r.prefix)

\* Mutant of WithoutOwnPrice: a row that starts after the events is none.
WithoutOwnPriceYet(rows, events) ==
  {m \in {e.model : e \in events} :
     \A r \in rows, e \in events : e.model = m /\ IsOwn(m, r.prefix) => e.day < r.from}

\* The models the warning lists: used, and without an own row at any date.
WithoutOwnPrice(rows, events) ==
  {m \in {e.model : e \in events} : \A r \in rows : ~IsOwn(m, r.prefix)}

(***************************************************************************)
(* What a page mints.  A page is a sequence of entries [version, cond,     *)
(* rate], the newest version of a family first.                            *)
(***************************************************************************)

InForce(cond, today) ==
  \/ cond.kind = "through"  /\ cond.day >= today
  \/ cond.kind = "starting" /\ cond.day <= today

Items(seq) == {seq[i] : i \in DOMAIN seq}

\* Mutant of Refused: increases are minted however old.
RefusedNever(page, today) == {}

\* filter_backdated_starting: in-force increases too old to be trusted
Refused(page, today) ==
  {e \in Items(page) : /\ e.cond.kind = "starting"
                         /\ e.cond.day < today - BackdateMaxDays}

Conditioned(page, today) ==
  {e.version : e \in {x \in Items(page) : InForce(x.cond, today)}}

RowKey(e) == <<e.version, e.cond>>

Mints(page, today, e) ==
  IF InForce(e.cond, today)
  THEN RowKey(e) \notin {RowKey(x) : x \in Refused(page, today)}
  ELSE e.cond.kind = "none" /\ e.version \notin Conditioned(page, today)

MintedFrom(e, today) == IF e.cond.kind = "starting" THEN e.cond.day ELSE today

\* of two entries for one version and date the first listed is kept
Kept(page, today) ==
  {j \in DOMAIN page :
     /\ Mints(page, today, page[j])
     /\ \A h \in 1..(j - 1) :
          ~ /\ page[h].version = page[j].version
            /\ Mints(page, today, page[h])
            /\ MintedFrom(page[h], today) = MintedFrom(page[j], today)}

Specific(page, today) ==
  UNION {{[prefix |-> p, rate |-> page[i].rate, from |-> MintedFrom(page[i], today)] :
             p \in Items(SpecificPrefix[page[i].version])} : i \in Kept(page, today)}

IsNewest(page, i) ==
  \A h \in 1..(i - 1) : FamilyPrefix[page[h].version] # FamilyPrefix[page[i].version]

Newest(page) == {page[i].version : i \in {j \in DOMAIN page : IsNewest(page, j)}}

\* the latest of the newest version's own rows gives the family its default
Latest(page, today, p) ==
  {c \in Specific(page, today) : c.prefix = p /\
     \A y \in Specific(page, today) : y.prefix = p => y.from <= c.from}

\* Mutant of FamilyDefaults: the version listed last gives the default.
FamilyDefaultsLastListed(page, today) ==
  UNION {{[prefix |-> FamilyPrefix[page[i].version], rate |-> c.rate, from |-> today] :
             c \in Latest(page, today, SpecificPrefix[page[i].version][1])} :
           i \in {j \in DOMAIN page : \A h \in DOMAIN page :
                     h > j => FamilyPrefix[page[h].version] # FamilyPrefix[page[j].version]}}

FamilyDefaults(page, today) ==
  UNION {{[prefix |-> FamilyPrefix[v], rate |-> c.rate, from |-> today] :
             c \in Latest(page, today, SpecificPrefix[v][1])} : v \in Newest(page)}

Candidates(page, today) == FamilyDefaults(page, today) \cup Specific(page, today)

\* plan: what is already charged at the candidate's date is not minted again
Unchanged(rows, c) ==
  \E r \in rows : /\ r.prefix = c.prefix /\ r.from <= c.from
                  /\ r.from # Seed /\ r.rate = c.rate
                  /\ \A s \in rows :
                       s.prefix = c.prefix /\ s.from <= c.from => s.from <= r.from

Planned(rows, page, today) == {c \in Candidates(page, today) : ~Unchanged(rows, c)}

\* a refused increase that was minted when it arrived, at the rate it has now
AlreadyRecorded(rows, e) ==
  \A p \in Items(SpecificPrefix[e.version]) :
    \E r \in rows : r.prefix = p /\ r.from = e.cond.day /\ r.rate = e.rate

\* The versions the report warns about: only an expired introductory rate, ...
StaleIntros(page, today) ==
  {e.version : e \in {x \in Items(page) : x.cond.kind = "through" /\ x.cond.day < today}}
    \ {e.version : e \in {x \in Items(page) : \/ x.cond.kind = "none"
                                               \/ InForce(x.cond, today)}}

\* ... for a family's newest version, only increases still to come, ...
FutureOnlyNewest(page, today) ==
  {v \in Newest(page) : \A e \in Items(page) :
     e.version = v => e.cond.kind = "starting" /\ e.cond.day > today}

\* ... or an increase that is refused and not on record.
Warned(rows, page, today) ==
  StaleIntros(page, today) \cup FutureOnlyNewest(page, today)
    \cup {e.version : e \in {x \in Refused(page, today) : ~AlreadyRecorded(rows, x)}}

(***************************************************************************)
(* The backfill plan: for a prefix first priced after events that were     *)
(* estimated, a copy of its earliest row dated back to the first of them.  *)
(***************************************************************************)

Earliest(rows, p) ==
  {r \in rows : r.prefix = p /\ \A s \in rows : s.prefix = p => r.from <= s.from}

Before(rows, events, p) == {e \in events : \A r \in Earliest(rows, p) : e.day < r.from}

Triggers(rows, events, p) ==
  {e \in Before(rows, events, p) : IsOwn(e.model, p) /\ Estimated(rows, e)}

\* Mutant of First: dated back to the last estimated event.
Last(triggers) == {e \in triggers : \A x \in triggers : x.day <= e.day}

First(triggers) == {e \in triggers : \A x \in triggers : e.day <= x.day}

\* the row a backfill would add for r, the earliest row of its prefix
Backdated(r, day) ==
  [prefix |-> r.prefix, from |-> day, rate |-> r.rate, src |-> "backfill"]

Candidate(rows, events, r, day) ==
  [prefix |-> r.prefix, row |-> Backdated(r, day),
   impact |-> {e \in Before(rows, events, r.prefix) :
                 Resolved(rows \cup {Backdated(r, day)}, e) # Resolved(rows, e)}]

FirstRows(rows) ==
  {r \in rows : r.prefix \notin FamilyRow /\ r.from > Seed /\ r \in Earliest(rows, r.prefix)}

BackfillCandidates(rows, events) ==
  {c \in UNION {{Candidate(rows, events, r, e.day) :
                   e \in First(Triggers(rows, events, r.prefix))} : r \in FirstRows(rows)} :
     c.impact # {}}

\* the candidates that touch estimates only, and become their price
Closeable(rows, events) ==
  {c \in BackfillCandidates(rows, events) :
     \A e \in c.impact : /\ Estimated(rows, e)
                         /\ Resolved(rows \cup {c.row}, e) = {c.row}}

With(rows, cands) == rows \cup {c.row : c \in cands}

Impact(cands) == UNION {c.impact : c \in cands}

\* the events that a set of candidates would leave at an estimate
Open(rows, cands) == {e \in Impact(cands) : ~OwnPriced(With(rows, cands), e)}

\* the candidate that can close e: the longest own prefix not yet chosen
Owners(close, cands, e) ==
  LET own == {c \in close \ cands : IsOwn(e.model, c.prefix)}
  IN  {c \in own : \A d \in own : Length[d.prefix] <= Length[c.prefix]}

Unclosable(rows, close, cands) ==
  {e \in Open(rows, cands) : Owners(close, cands, e) = {}}

Grow(rows, close, cands) ==
  IF Unclosable(rows, close, cands) # {} THEN cands
  ELSE cands \cup UNION {Owners(close, cands, e) : e \in Open(rows, cands)}

\* Mutant of Bundle: what the row alone would leave open is not closed.
BundleAlone(rows, close, c) == {c}

\* _close_bundles: grow until nothing is missing
Bundle(rows, close, c) ==
  LET grown[n \in Nat] == IF n = 0 THEN {c} ELSE Grow(rows, close, grown[n - 1])
  IN  grown[Cardinality(close)]

\* what the plan offers: each candidate with the bundle it requires
Offers(rows, events) ==
  LET close == Closeable(rows, events)
  IN  {o \in {[cand |-> c, bundle |-> Bundle(rows, close, c)] : c \in close} :
         Unclosable(rows, close, o.bundle) = {}}

Offered(rows, events) == {o.cand : o \in Offers(rows, events)}

Repriced(rows, events, cands) ==
  {e \in events : Resolved(With(rows, cands), e) # Resolved(rows, e)}

\* applied before: no longer a candidate, and with a row to show for it
AlreadyBackfilled(rows, events, p) ==
  /\ p \notin {c.prefix : c \in BackfillCandidates(rows, events)}
  /\ \E r \in rows : r.prefix = p /\ r.src = "backfill"

\* The rows backfill_apply inserts for a set of prefixes: one set, or none
\* when it refuses.
Applied(rows, events, named) ==
  LET chosen == {o \in Offers(rows, events) : o.cand.prefix \in named}
      cands  == {o.cand : o \in chosen}
      after  == With(rows, cands)
  IN  {new \in {{c.row : c \in cands}} :
         /\ \A p \in named \ {c.prefix : c \in cands} : AlreadyBackfilled(rows, events, p)
         /\ \A o \in chosen : {c.prefix : c \in o.bundle} \subseteq named
         /\ Repriced(rows, events, cands) = Impact(cands)
         /\ \A e \in Impact(cands) : OwnPriced(after, e) /\ Resolved(after, e) \subseteq new}

(***************************************************************************)
(* The fingerprint of everything a plan depends on: all rows, and the      *)
(* events before the horizon, the latest first row of a prefix.            *)
(***************************************************************************)

BeforeHorizon(rows, events) == {e \in events : \E r \in FirstRows(rows) : e.day < r.from}

Fingerprint(rows, events) == [rows |-> rows, events |-> BeforeHorizon(rows, events)]

=============================================================================
