----------------------------- MODULE MCPricing -----------------------------
EXTENDS Pricing

\* A dated snapshot of version 5 and the point release 5-2: the prefix of 5-2
\* matches the snapshot's date as well, so both prefixes are its own.
MCMatches == [snap |-> {"fam", "v5", "v52"}, m52 |-> {"fam", "v5", "v52"}]
MCLength == [fam |-> 1, v5 |-> 2, v52 |-> 3]
MCAncestor == {<<"m52", "v5">>}
MCSpecific == [five |-> <<"v5">>, fiveTwo |-> <<"v52">>]
MCFamily == [five |-> "fam", fiveTwo |-> "fam"]

Listed(v, cond, rate) == [version |-> v, cond |-> cond, rate |-> rate]
None == [kind |-> "none"]
Through(d) == [kind |-> "through", day |-> d]
Starting(d) == [kind |-> "starting", day |-> d]

\* Version 5 with an increase of 5-2 still to come, with 5-2, with an increase of 5-2
\* that is listed late, and with an introductory rate that has lapsed: a second refresh
\* of the second day finds another rate, and the third day refuses the increase.
Announced == <<Listed("fiveTwo", Starting(2), 2), Listed("five", None, 1)>>
Launch == <<Listed("fiveTwo", None, 2), Listed("five", None, 1)>>
LateIncrease == <<Listed("fiveTwo", Starting(1), 1), Listed("five", None, 1)>>
Lapsed == <<Listed("fiveTwo", Through(2), 2), Listed("five", None, 1)>>
MCPage == <<{Announced}, {Launch, LateIncrease}, {LateIncrease, Lapsed}>>

MCSeed == {[prefix |-> "fam", from |-> 0, rate |-> 3, src |-> "seed"]}

ASSUME MCNamingAssumption == OneLevelOfVersions
=============================================================================
