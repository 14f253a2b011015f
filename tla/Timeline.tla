------------------------------ MODULE Timeline ------------------------------
(***************************************************************************)
(* The dashboard's timeline (scripts/dashboard.py): a rolling window up to *)
(* now is cut into the hours, days or months of the LOCAL clock, and each  *)
(* event row is added to the bucket its time falls in.  A pure algorithm;  *)
(* what makes it hard is a clock that is put forward or back inside the    *)
(* window.                                                                 *)
(*                                                                         *)
(* Times are half-hours since an epoch.  A zone puts its clock forward or  *)
(* back once, at instant `at`.                                             *)
(***************************************************************************)
EXTENDS Integers, FiniteSetsExt

CONSTANTS
    ClockChange,    \* instants of the change
    Shift,          \* by how many half-hours (negative: put back), two hours
                    \* at most: _next_bucket allows a day 26 hours
    ChartTime,      \* instants at which a chart is asked for
    PeriodDays,     \* days of each rolling window
    MonthDays       \* bound: days of a month

Hour == 2
Day == 24 * Hour

Grain == {"hour", "day", "month"}
Period == {"day", "week", "month", "year"}

ASSUME TimelineAssumption ==
    /\ ClockChange \subseteq Nat /\ ChartTime \subseteq Nat
    /\ Shift \subseteq -(2 * Hour) .. 2 * Hour /\ 0 \notin Shift
    /\ PeriodDays \in [Period -> Nat \ {0}] /\ MonthDays \in Nat \ {0}
    /\ \A now \in ChartTime, p \in Period : now > PeriodDays[p] * Day

Zone == [at : ClockChange, shift : Shift]

-----------------------------------------------------------------------------
(***************************************************************************)
(* Local time as Python's datetime has it.                                 *)
(***************************************************************************)

Local(z, t) == IF t < z.at THEN t ELSE t + z.shift

\* The second of two instants with one local time has fold = 1.
Fold(z, t) == IF z.at <= t /\ t < z.at - z.shift THEN 1 ELSE 0

\* timestamp() of a local time: of two instants the one the fold says; in the
\* gap of a clock put forward, the offset before the change is applied.
Instant(z, l, fold) ==
    LET candidates == {l, l - z.shift}
        meant == {t \in candidates : Local(z, t) = l}
    IN  IF meant = {} THEN Max(candidates)
        ELSE IF fold = 0 THEN Min(meant) ELSE Max(meant)

Width(g) == CASE g = "hour" -> Hour [] g = "day" -> Day [] OTHER -> MonthDays * Day

\* The local time cut down to its hour, day or month.
Floor(l, g) == l - (l % Width(g))

\* The local time is cut down; the fold is kept.
BucketStart(z, t, g) ==
    Instant(z, Floor(Local(z, t), g), Fold(z, t))

\* Mutant of NextBucket: a day has 24 hours.
NextBucketPlain(z, k, g) ==
    IF g = "month" THEN Instant(z, Floor(Local(z, k), g) + Width(g), 0)
    ELSE BucketStart(z, k + Width(g), g)

\* An hour on, 26 hours on, or the first day of the next month.
NextBucket(z, k, g) ==
    CASE g = "hour" -> BucketStart(z, k + Hour, g)
      [] g = "day" -> BucketStart(z, k + Day + 2 * Hour, g)
      [] OTHER -> Instant(z, Floor(Local(z, k), g) + Width(g), 0)

-----------------------------------------------------------------------------
(***************************************************************************)
(* _timeline.                                                              *)
(***************************************************************************)

TimelineGrain == [day |-> "hour", week |-> "day", month |-> "day", year |-> "month"]
GrainAllowed == [day |-> {"hour", "day"}, week |-> {"hour", "day"},
                 month |-> {"hour", "day"}, year |-> {"day", "month"}]

ResolveGrain(p, requested) ==
    IF requested \in GrainAllowed[p] THEN requested ELSE TimelineGrain[p]

Since(p, now) == now - PeriodDays[p] * Day

\* The keys the loop has visited after so many rounds; it stops past the
\* bucket of now.
Visited(z, p, now, g) ==
    LET end == BucketStart(z, now, g)
        round == [keys \in SUBSET Int |->
                    IF Max(keys) > end THEN keys ELSE keys \cup {NextBucket(z, Max(keys), g)}]
        keysAfter[n \in Nat] ==
            IF n = 0 THEN {BucketStart(z, Since(p, now), g)} ELSE round[keysAfter[n - 1]]
    IN  keysAfter[(now - Since(p, now)) \div Width(g) + 4]

Buckets(z, p, now, g) == {k \in Visited(z, p, now, g) : k <= BucketStart(z, now, g)}

-----------------------------------------------------------------------------
(***************************************************************************)
(* Properties, of every zone, chart time, period and requested grain.      *)
(***************************************************************************)

WholeHours(z) == z.shift % Hour = 0

\* Does the clock go back over a midnight, so that one day has two of them?
RepeatsMidnight(z) ==
    \E midnight \in {d * Day : d \in 0 .. (z.at \div Day) + 1} :
        z.at + z.shift <= midnight /\ midnight < z.at

Charts ==
    {[zone |-> z, period |-> p, now |-> now, grain |-> ResolveGrain(p, requested)] :
        z \in Zone, p \in Period, now \in ChartTime, requested \in Grain}

\* The loop over the buckets of a window ends, however the clock changes within
\* it (_next_bucket: "+26h clears the boundary even on a DST-shortened day"), as
\* long as hours are changed by whole hours: a clock put back by half an hour
\* sends the loop to the hour it comes from.
ChartEnds ==
    \A c \in Charts :
        WholeHours(c.zone) \/ c.grain # "hour" =>
            Max(Visited(c.zone, c.period, c.now, c.grain)) > BucketStart(c.zone, c.now, c.grain)

\* Every event of the window is in the chart: its bucket is among those the loop
\* has made ("One point per bucket across the WHOLE window"), unless that day
\* has two midnights or the clock is changed off the hour.
EveryRowCharted ==
    \A c \in Charts :
        (IF c.grain = "hour" THEN WholeHours(c.zone) /\ c.zone.at % Hour = 0
                             ELSE ~RepeatsMidnight(c.zone)) =>
            LET buckets == Buckets(c.zone, c.period, c.now, c.grain)
            IN  \A t \in Since(c.period, c.now) .. c.now :
                    BucketStart(c.zone, t, c.grain) \in buckets
=============================================================================
