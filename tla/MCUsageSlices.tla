--------------------------- MODULE MCUsageSlices ---------------------------
(***************************************************************************)
(* Instances of UsageSlices and Timeline for TLC: from the transcript to   *)
(* the event rows, from the event rows to the chart.                       *)
(***************************************************************************)
EXTENDS UsageSlices, Timeline, TLC

\* Message ids and groups are interchangeable.
Symmetry == Permutations(MessageId) \cup Permutations(Group)

\* The clock changes by an hour or a half within an hour of midnight, and the
\* chart is drawn from just after the change to two days later.
MCClockChange == {190, 191, 192, 193, 194}
MCShift == {-2, -1, 1, 2}
MCChartTime == {192, 193, 195, 216, 240, 241, 290}
MCPeriodDays == [day |-> 1, week |-> 2, month |-> 2, year |-> 3]

\* The chart depends on no variable: its properties are checked in the initial
\* state.  The loop over the buckets of every chart ends, with a bucket for every
\* event of the window.
EveryChartWhole == SlicesInit => ChartEnds /\ EveryRowCharted
=============================================================================
