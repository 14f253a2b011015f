------------------------- MODULE SchemaLadderProofs -------------------------
(***************************************************************************)
(* Proofs about SchemaLadder, for any number of connections, faults and    *)
(* kills, and any stamp the file may start with.                           *)
(***************************************************************************)
EXTENDS SchemaLadder, TLAPS

\* What the hops add, where the proofs look into it.
LEMMA HopFacts ==
    /\ Columns(2) = {"issue_key", "task_size", "note"}
    /\ Columns(3) = {"mirror_path", "mirror_last_at"}
    /\ Columns(4) = {"cache_w_1h", "cache_w_1h_usd"}
    /\ Columns(5) = {"name"}
    /\ Columns(6) = {"api_calls", "ctx_tokens"}
    /\ Columns(7) = {"owner_id"}
    /\ Columns(8) = {}
    /\ Table(2) = {"pricing"} /\ Table(3) = {"audit_log"} /\ Table(4) = {}
    /\ Table(5) = {} /\ Table(6) = {} /\ Table(7) = {"users"} /\ Table(8) = {}
BY DEF Columns, Table

LEMMA StageFacts ==
    \A k \in Hop :
        /\ After(k, "alter") = IF k = 3 THEN "script" ELSE "check"
        /\ After(k, "check") = IF k = 2 THEN "script" ELSE "stamp"
        /\ After(k, "script") = IF k = 2 THEN "seed" ELSE IF k = 3 THEN "check" ELSE "alter"
        /\ After(k, "seed") = "stamp"
BY DEF After

\* A hop on top of the hops below it.
LEMMA ClaimedNext ==
    ASSUME NEW k \in 2 .. 8, NEW S, Claimed(k - 1) \subseteq S, Promised(k) \subseteq S
    PROVE  Claimed(k) \subseteq S
<1>1. \A j \in 2 .. k : j = k \/ j \in 2 .. (k - 1)
  OBVIOUS
<1> QED BY <1>1 DEF Claimed

LEMMA ClaimedBase == Claimed(1) = {} /\ Claimed(0) = {}
BY DEF Claimed

LEMMA ClaimedBelow ==
    ASSUME NEW j \in 0 .. 8, NEW k \in 0 .. 8, j <= k
    PROVE  Claimed(j) \subseteq Claimed(k)
<1>1. 2 .. j \subseteq 2 .. k
  OBVIOUS
<1> QED BY <1>1 DEF Claimed

LEMMA PromisedIsClaimed ==
    ASSUME NEW k \in 2 .. 8
    PROVE  Promised(k) \subseteq Claimed(k) /\ Promised(k) \subseteq Part
BY DEF Claimed, Part, SchemaVersion

\* The post-condition of a hop, and so the fast path, checks part of the promise.
LEMMA RequiredIsPromised ==
    /\ \A k \in Hop : Required(k) \subseteq Promised(k)
    /\ Full \subseteq Claimed(7)
<1>1. \A k \in Hop : Required(k) \subseteq Promised(k)
  BY DEF Required, Promised
<1> QED BY <1>1 DEF Full, Claimed, Hop

\* Once checked, a hop other than the second is done.
LEMMA CheckedHop ==
    ASSUME NEW k \in Hop, k # 2
    PROVE  Promised(k) = Required(k)
BY DEF Hop, Promised, Required

LEMMA ColumnsType ==
    ASSUME NEW k \in Hop
    PROVE  Columns(k) \subseteq Part /\ Table(k) \subseteq Part
BY PromisedIsClaimed DEF Hop, Promised

\* The pricing table is in place before hop 4 alters it.
LEMMA PricingClaimed ==
    /\ "pricing" \in Claimed(3) /\ "cache_w_1h_usd" \in Part /\ "seed" \in Part /\ "fold" \in Part
    /\ \A k \in Hop : "cache_w_1h_usd" \in Columns(k) => k = 4
<1>1. "pricing" \in Promised(2) /\ "seed" \in Promised(2) /\ "fold" \in Promised(8)
  BY HopFacts DEF Promised
<1>2. "cache_w_1h_usd" \in Promised(4)
  BY HopFacts DEF Promised
<1>3. "pricing" \in Claimed(3)
  BY <1>1 DEF Claimed
<1>4. Promised(2) \subseteq Part /\ Promised(4) \subseteq Part /\ Promised(8) \subseteq Part
  BY PromisedIsClaimed
<1>5. ASSUME NEW k \in Hop, "cache_w_1h_usd" \in Columns(k) PROVE k = 4
  <2>1. k = 2 \/ k = 3 \/ k = 4 \/ k = 5 \/ k = 6 \/ k = 7
    BY DEF Hop
  <2> QED BY <1>5, <2>1, HopFacts
<1> QED BY <1>1, <1>2, <1>3, <1>4, <1>5

-----------------------------------------------------------------------------
LEMMA InitEstablishes == Init => IndInv
<1> SUFFICES ASSUME Init PROVE IndInv
  OBVIOUS
<1>1. \A v \in Version : Claimed(v) \subseteq Part
  BY ClaimedBelow DEF Version, SchemaVersion, Part
<1>2. shape \in SUBSET Part
  <2>1. PICK v \in Version : shape \in ShapeOf(v)
    BY DEF Init
  <2> QED BY <1>1, <2>1, PricingClaimed DEF ShapeOf
<1>3. TypeOK
  BY <1>2 DEF Init, TypeOK, PC, Hop
<1>4. StampImpliesShape
  BY DEF Init, StampImpliesShape
<1>5. \A c \in Conn : pc[c] = "closed"
  BY DEF Init
<1>6. \A c \in Conn : Climbed(c) /\ Landed(c)
  BY <1>5 DEF Climbed, Landed, Stage
<1>7. ReadyIsFull
  BY <1>5 DEF ReadyIsFull
<1> QED BY <1>3, <1>4, <1>6, <1>7 DEF IndInv

\* A step that leaves the connections other than c alone, and takes no column
\* or table away.
Alone(c) ==
    /\ shape \subseteq shape'
    /\ \A d \in Conn \ {c} :
           pc'[d] = pc[d] /\ hop'[d] = hop[d] /\ todo'[d] = todo[d] /\ trouble'[d] = trouble[d]

LEMMA StepAlone ==
    ASSUME TypeOK, NEW c \in Conn, Step(c) \/ Kill(c)
    PROVE  Alone(c)
<1> USE DEF TypeOK, Alone, Goto, Close, Continue, StartHop
<1>1. CASE Open(c) \/ FastPath(c) \/ Climb(c) \/ Altered(c) \/ Check(c) \/ CheckFails(c)
  BY <1>1 DEF Open, FastPath, Climb, Altered, Check, CheckFails
<1>2. CASE \E x \in todo[c] : Alter(c, x) \/ AlterFails(c, x)
  BY <1>2 DEF Alter, AlterFails
<1>3. CASE Script(c) \/ Seed(c) \/ Stamp(c) \/ Fold(c)
  BY <1>3 DEF Script, Seed, Stamp, Fold
<1>4. CASE FoldFails(c) \/ Raise(c) \/ Done(c) \/ Kill(c)
  BY <1>4 DEF FoldFails, Raise, Done, Kill
<1> QED BY <1>1, <1>2, <1>3, <1>4 DEF Step

\* What the other connections have seen stays true.
LEMMA OthersKept ==
    ASSUME NEW c \in Conn, Alone(c), NEW d \in Conn \ {c}, Climbed(d), Landed(d)
    PROVE  Climbed(d)' /\ Landed(d)'
<1>1. pc'[d] = pc[d] /\ hop'[d] = hop[d] /\ todo'[d] = todo[d] /\ trouble'[d] = trouble[d]
  BY DEF Alone
<1>2. shape \subseteq shape'
  BY DEF Alone
<1>3. Climbed(d)'
  BY <1>1, <1>2 DEF Climbed, Claimed
<1>4. Landed(d)'
  BY <1>1, <1>2 DEF Landed
<1> QED BY <1>3, <1>4

LEMMA TypeStep ==
    ASSUME TypeOK, NEW c \in Conn, Step(c) \/ Kill(c)
    PROVE  TypeOK'
<1> USE DEF TypeOK, PC, Stage, Goto
<1>h. 2 \in Hop
  BY DEF Hop
<1>1. CASE Open(c) \/ FastPath(c) \/ CheckFails(c)
  BY <1>1 DEF Open, FastPath, CheckFails, bounds
<1>2. CASE FoldFails(c)
  BY <1>2 DEF FoldFails, Fault
<1>12. CASE Raise(c) \/ Done(c) \/ Kill(c)
  <2>1. Close(c) /\ UNCHANGED <<version, shape>> /\ faults' \in Nat /\ kills' \in Nat
    BY <1>12 DEF Raise, Done, Kill, Fault, bounds
  <2>2. /\ pc' \in [Conn -> PC] /\ hop' \in [Conn -> Hop] /\ todo' \in [Conn -> SUBSET Part]
        /\ trouble' \in [Conn -> BOOLEAN] /\ honest' = honest
    BY <1>h, <2>1 DEF Close
  <2> QED BY <2>1, <2>2
<1>3. ASSUME NEW p \in PC PROVE [pc EXCEPT ![c] = p] \in [Conn -> PC]
  BY <1>3
<1>4. After(hop[c], "alter") \in PC /\ After(hop[c], "check") \in PC
          /\ After(hop[c], "script") \in PC /\ After(hop[c], "seed") \in PC
  BY StageFacts
<1>5. ASSUME NEW k \in Hop, StartHop(c, k)
      PROVE  pc' \in [Conn -> PC] /\ hop' \in [Conn -> Hop] /\ todo' \in [Conn -> SUBSET Part]
  BY <1>5, ColumnsType DEF StartHop
<1>6. CASE Climb(c)
  BY <1>5, <1>6, <1>h DEF Climb, bounds
<1>7. ASSUME NEW x \in todo[c], Alter(c, x) \/ AlterFails(c, x) PROVE TypeOK'
  <2>1. x \in Part /\ todo' \in [Conn -> SUBSET Part]
    BY <1>7 DEF Alter, AlterFails
  <2>2. shape' = shape \/ shape' = shape \cup {x}
    BY <1>7 DEF Alter, AlterFails
  <2>4. shape' \in SUBSET Part
    BY <2>1, <2>2
  <2>5. trouble' \in [Conn -> BOOLEAN]
    BY <1>7 DEF Alter, AlterFails
  <2>6. faults' \in Nat
    BY <1>7 DEF Alter, AlterFails, Fault, bounds
  <2>3. UNCHANGED <<version, pc, hop, honest, kills>>
    BY <1>7 DEF Alter, AlterFails, Fault, bounds
  <2> QED BY <2>1, <2>3, <2>4, <2>5, <2>6
<1>8. ASSUME Continue(c), pc[c] \in {"alter", "check", "script", "seed"}
      PROVE  pc' \in [Conn -> PC] /\ hop' = hop /\ todo' = todo /\ trouble' = trouble /\ honest' = honest
  <2>1. After(hop[c], pc[c]) \in PC
    BY <1>8, <1>4
  <2> QED BY <1>8, <1>3, <2>1 DEF Continue
<1>9. CASE Altered(c) \/ Check(c) \/ Script(c) \/ Seed(c)
  <2>1. Continue(c) /\ pc[c] \in {"alter", "check", "script", "seed"}
    BY <1>9 DEF Altered, Check, Script, Seed
  <2>2. pc' \in [Conn -> PC] /\ hop' = hop /\ todo' = todo /\ trouble' = trouble /\ honest' = honest
    BY <1>8, <2>1
  <2>3. shape' \in SUBSET Part
    BY <1>9, ColumnsType, PricingClaimed DEF Altered, Check, Script, Seed
  <2>4. version' = version /\ faults' = faults /\ kills' = kills
    BY <1>9 DEF Altered, Check, Script, Seed, bounds
  <2> QED BY <2>2, <2>3, <2>4
<1>10. CASE Stamp(c)
  <2>1. hop[c] \in Version /\ (hop[c] < 7 => hop[c] + 1 \in Hop)
    BY DEF Version, SchemaVersion, Hop
  <2> QED BY <1>5, <1>10, <2>1 DEF Stamp, bounds
<1>11. CASE Fold(c)
  BY <1>11, PricingClaimed DEF Fold, bounds, Version, SchemaVersion
<1> QED BY <1>1, <1>2, <1>6, <1>7, <1>9, <1>10, <1>11, <1>12 DEF Step

-----------------------------------------------------------------------------
\* A stamp is honest: the hops below are climbed, and the hop itself landed.
LEMMA HonestStep ==
    ASSUME IndInv, NEW c \in Conn, Step(c) \/ Kill(c), version' # version
    PROVE  Claimed(version') \subseteq shape'
<1> USE DEF IndInv
<1>1. CASE Stamp(c)
  <2>1. hop[c] \in 2 .. 8 /\ Claimed(hop[c] - 1) \subseteq shape /\ Promised(hop[c]) \subseteq shape
    BY <1>1 DEF Stamp, TypeOK, Hop, Climbed, Landed, Stage
  <2>2. Claimed(hop[c]) \subseteq shape
    BY <2>1, ClaimedNext
  <2> QED BY <1>1, <2>2 DEF Stamp
<1>2. CASE Fold(c)
  <2>1. shape' = shape \cup {"fold"} /\ version' = 8
    BY <1>2 DEF Fold, SchemaVersion
  <2>2. Claimed(7) \subseteq shape'
    BY <1>2, <2>1 DEF Fold, Climbed
  <2>3. Promised(8) \subseteq shape'
    BY <2>1, HopFacts DEF Promised
  <2>4. Claimed(8) \subseteq shape'
    BY <2>2, <2>3, ClaimedNext
  <2> QED BY <2>1, <2>4
<1> QED BY <1>1, <1>2 DEF Step, Open, FastPath, Climb, Alter, AlterFails, Altered, Script, Seed,
            Check, CheckFails, FoldFails, Raise, Done, Kill

-----------------------------------------------------------------------------
(***************************************************************************)
(* The connection that acts: what it has seen, action by action.           *)
(***************************************************************************)
\* Outside the hops there is nothing to show.
LEMMA Idle ==
    ASSUME NEW c \in Conn, pc'[c] \in {"closed", "fast", "ready"}
    PROVE  Climbed(c)' /\ Landed(c)'
BY DEF Climbed, Landed, Stage

\* A hop begins with nothing of its own in place, as long as those below are.
LEMMA StartStep ==
    ASSUME TypeOK, NEW c \in Conn, NEW k \in Hop, StartHop(c, k),
           Claimed(k - 1) \subseteq shape'
    PROVE  Climbed(c)' /\ Landed(c)'
<1>1. /\ hop'[c] = k /\ todo'[c] = Columns(k)
      /\ pc'[c] = IF k = 7 THEN "script" ELSE "alter"
  BY DEF StartHop, Goto, TypeOK
<1>2. Climbed(c)'
  BY <1>1 DEF Climbed
<1>3. Landed(c)'
  BY <1>1, HopFacts DEF Landed
<1> QED BY <1>2, <1>3

LEMMA AlterStep ==
    ASSUME IndInv, NEW c \in Conn, NEW x \in todo[c], Alter(c, x) \/ AlterFails(c, x)
    PROVE  Climbed(c)' /\ Landed(c)'
<1> USE DEF TypeOK, IndInv
<1>1. /\ pc[c] = "alter" /\ pc'[c] = "alter" /\ hop'[c] = hop[c] /\ todo'[c] = todo[c] \ {x}
      /\ shape \subseteq shape'
  BY DEF Alter, AlterFails
<1>2. Claimed(hop[c] - 1) \subseteq shape /\ todo[c] \subseteq Columns(hop[c])
  BY <1>1 DEF Climbed, Landed, Stage
<1>3. Climbed(c)'
  BY <1>1, <1>2 DEF Climbed
<1>4. ~trouble'[c] => x \in shape' /\ ~trouble[c]
  <2>1. CASE AlterFails(c, x)
    BY <2>1 DEF AlterFails
  <2>2. CASE Alter(c, x)
    <3>1. Addable(x)
      <4>1. x = "cache_w_1h_usd" => hop[c] = 4
        BY <1>2, PricingClaimed
      <4> QED BY <1>2, <4>1, PricingClaimed DEF Addable
    <3> QED BY <2>2, <3>1 DEF Alter
  <2> QED BY <2>1, <2>2
<1>5. ~trouble[c] => Columns(hop[c]) \ todo[c] \subseteq shape
  BY <1>1 DEF Landed
<1>6. hop[c] = 7 => Table(7) \subseteq shape
  BY <1>1 DEF Landed
<1>7. ~trouble'[c] => Columns(hop[c]) \ (todo[c] \ {x}) \subseteq shape'
  BY <1>1, <1>4, <1>5
<1>8. Landed(c)'
  BY <1>1, <1>2, <1>6, <1>7 DEF Landed
<1> QED BY <1>3, <1>8

LEMMA AlteredStep ==
    ASSUME IndInv, NEW c \in Conn, Altered(c)
    PROVE  Climbed(c)' /\ Landed(c)'
<1> USE DEF TypeOK, IndInv
<1>1. /\ pc[c] = "alter" /\ pc'[c] = IF hop[c] = 3 THEN "script" ELSE "check"
      /\ hop'[c] = hop[c] /\ todo'[c] = {} /\ todo[c] = {} /\ trouble'[c] = trouble[c] /\ shape' = shape
  BY StageFacts DEF Altered, Continue, Goto
<1>2. /\ ~trouble[c] => Columns(hop[c]) \subseteq shape
      /\ hop[c] = 7 => Table(7) \subseteq shape
      /\ Claimed(hop[c] - 1) \subseteq shape
  BY <1>1 DEF Landed, Climbed, Stage
<1>3. hop[c] \in {3, 4, 5, 6} => hop[c] = 3 \/ Table(hop[c]) = {}
  BY HopFacts
<1>4. hop[c] = 2 \/ hop[c] \in {3, 4, 5, 6} \/ hop[c] = 7
  BY DEF Hop
<1>5. Climbed(c)'
  BY <1>1, <1>2 DEF Climbed
<1>6. Landed(c)'
  BY <1>1, <1>2, <1>3, <1>4 DEF Landed
<1> QED BY <1>5, <1>6

LEMMA ScriptStep ==
    ASSUME IndInv, NEW c \in Conn, Script(c)
    PROVE  Climbed(c)' /\ Landed(c)'
<1> USE DEF TypeOK, IndInv
<1>1. /\ pc[c] = "script"
      /\ pc'[c] = IF hop[c] = 2 THEN "seed" ELSE IF hop[c] = 3 THEN "check" ELSE "alter"
      /\ hop'[c] = hop[c] /\ todo'[c] = todo[c] /\ trouble'[c] = trouble[c]
      /\ shape \subseteq shape' /\ Table(hop[c]) \subseteq shape'
  BY StageFacts DEF Script, Continue, Goto
<1>2. /\ hop[c] \in {2, 3, 7} /\ Claimed(hop[c] - 1) \subseteq shape
      /\ hop[c] = 2 => Columns(2) \subseteq shape
      /\ hop[c] = 3 => todo[c] = {} /\ (~trouble[c] => Columns(3) \subseteq shape)
      /\ hop[c] = 7 => todo[c] = Columns(7)
  BY <1>1 DEF Landed, Climbed, Stage
<1>3. Climbed(c)'
  BY <1>1, <1>2 DEF Climbed
<1>4. CASE hop[c] = 2
  <2>1. pc'[c] = "seed" /\ hop'[c] = 2 /\ "pricing" \in shape' /\ Columns(2) \subseteq shape'
    BY <1>1, <1>2, <1>4, HopFacts
  <2> QED BY <1>3, <2>1 DEF Landed
<1>5. CASE hop[c] = 3
  <2>1. /\ pc'[c] = "check" /\ hop'[c] = 3 /\ todo'[c] = {} /\ Table(3) \subseteq shape'
        /\ ~trouble'[c] => Columns(3) \subseteq shape'
    BY <1>1, <1>2, <1>5
  <2> QED BY <1>3, <2>1 DEF Landed
<1>6. CASE hop[c] = 7
  <2>1. pc'[c] = "alter" /\ hop'[c] = 7 /\ todo'[c] = Columns(7) /\ Table(7) \subseteq shape'
    BY <1>1, <1>2, <1>6
  <2> QED BY <1>3, <2>1 DEF Landed
<1> QED BY <1>2, <1>3, <1>4, <1>5, <1>6

LEMMA SeedStep ==
    ASSUME IndInv, NEW c \in Conn, Seed(c)
    PROVE  Climbed(c)' /\ Landed(c)'
<1> USE DEF TypeOK, IndInv
<1>1. /\ pc[c] = "seed" /\ pc'[c] = "stamp" /\ hop'[c] = hop[c] /\ shape' = shape \cup {"seed"}
  BY StageFacts DEF Seed, Continue, Goto
<1>2. hop[c] = 2 /\ "pricing" \in shape /\ Columns(2) \subseteq shape /\ Claimed(hop[c] - 1) \subseteq shape
  BY <1>1 DEF Landed, Climbed, Stage
<1>3. Promised(2) \subseteq shape'
  BY <1>1, <1>2, HopFacts DEF Promised
<1> QED BY <1>1, <1>2, <1>3 DEF Climbed, Landed

LEMMA CheckStep ==
    ASSUME IndInv, NEW c \in Conn, Check(c)
    PROVE  Climbed(c)' /\ Landed(c)'
<1> USE DEF TypeOK, IndInv
<1>1. /\ pc[c] = "check" /\ pc'[c] = IF hop[c] = 2 THEN "script" ELSE "stamp"
      /\ hop'[c] = hop[c] /\ todo'[c] = todo[c] /\ shape' = shape
      /\ Required(hop[c]) \subseteq shape
  BY StageFacts DEF Check, Holds, Continue, Goto
<1>2. todo[c] = {} /\ Claimed(hop[c] - 1) \subseteq shape
  BY <1>1 DEF Landed, Climbed, Stage
<1>3. hop[c] = 2 => Columns(2) \subseteq shape
  BY <1>1 DEF Required
<1>4. hop[c] # 2 => Promised(hop[c]) \subseteq shape
  BY <1>1, CheckedHop
<1>5. Climbed(c)'
  BY <1>1, <1>2 DEF Climbed
<1>6. Landed(c)'
  BY <1>1, <1>2, <1>3, <1>4 DEF Landed
<1> QED BY <1>5, <1>6

LEMMA StampStep ==
    ASSUME IndInv, NEW c \in Conn, Stamp(c)
    PROVE  Climbed(c)' /\ Landed(c)'
<1> USE DEF TypeOK, IndInv
<1>1. pc[c] = "stamp" /\ shape' = shape
  BY DEF Stamp
<1>2. hop[c] \in 2 .. 8 /\ Claimed(hop[c] - 1) \subseteq shape /\ Promised(hop[c]) \subseteq shape
  BY <1>1 DEF Climbed, Landed, Stage, Hop
<1>3. Claimed(hop[c]) \subseteq shape
  BY <1>2, ClaimedNext
<1>4. CASE hop[c] < 7
  <2>1. hop[c] + 1 \in Hop /\ (hop[c] + 1) - 1 = hop[c] /\ StartHop(c, hop[c] + 1)
    BY <1>4 DEF Hop, Stamp
  <2> QED BY <1>1, <1>3, <2>1, StartStep
<1>5. CASE ~(hop[c] < 7)
  <2>1. hop[c] = 7 /\ pc'[c] = "fold"
    BY <1>5 DEF Hop, Stamp, Goto
  <2> QED BY <1>1, <1>3, <2>1 DEF Climbed, Landed, Stage
<1> QED BY <1>4, <1>5

LEMMA ActingStep ==
    ASSUME IndInv, NEW c \in Conn, Step(c) \/ Kill(c)
    PROVE  Climbed(c)' /\ Landed(c)'
<1>1. CASE Climb(c)
  <2>1. 2 \in Hop /\ 2 - 1 = 1 /\ StartHop(c, 2) /\ Claimed(1) \subseteq shape'
    BY <1>1, ClaimedBase DEF Hop, Climb
  <2> QED BY <2>1, StartStep DEF IndInv
<1>2. CASE \/ Open(c) \/ FastPath(c) \/ CheckFails(c) \/ Fold(c) \/ FoldFails(c)
           \/ Raise(c) \/ Done(c) \/ Kill(c)
  <2>1. pc'[c] \in {"closed", "fast", "ready"}
    BY <1>2 DEF Open, FastPath, CheckFails, Fold, FoldFails, Raise, Done, Kill,
                Goto, Close, IndInv, TypeOK
  <2> QED BY <2>1, Idle
<1>3. CASE \E x \in todo[c] : Alter(c, x) \/ AlterFails(c, x)
  BY <1>3, AlterStep
<1>4. CASE Altered(c) \/ Script(c) \/ Seed(c) \/ Check(c) \/ Stamp(c)
  BY <1>4, AlteredStep, ScriptStep, SeedStep, CheckStep, StampStep
<1> QED BY <1>1, <1>2, <1>3, <1>4 DEF Step

\* A process that had no trouble never gives a hop up, so it is ready only on
\* the fast path or after the fold.
LEMMA ReadyStep ==
    ASSUME IndInv, NEW c \in Conn, Step(c) \/ Kill(c), pc'[c] = "ready"
    PROVE  trouble'[c] \/ Full \subseteq shape'
<1> USE DEF IndInv, TypeOK
<1>1. CASE FastPath(c)
  BY <1>1 DEF FastPath, Current
<1>2. CASE CheckFails(c)
  <2>1. pc[c] = "check" /\ trouble'[c] = trouble[c] /\ ~(Required(hop[c]) \subseteq shape)
    BY <1>2 DEF CheckFails, Holds
  <2>2. ~trouble[c] => Columns(hop[c]) \subseteq shape /\ (hop[c] # 2 => Table(hop[c]) \subseteq shape)
    BY <2>1 DEF Landed
  <2>3. trouble[c]
    BY <2>1, <2>2 DEF Required
  <2> QED BY <2>1, <2>3
<1>3. CASE Fold(c) \/ FoldFails(c)
  <2>1. Claimed(7) \subseteq shape /\ shape \subseteq shape'
    BY <1>3 DEF Fold, FoldFails, Climbed
  <2> QED BY <2>1, RequiredIsPromised
<1>4. ~(FastPath(c) \/ CheckFails(c) \/ Fold(c) \/ FoldFails(c)) => pc'[c] # "ready"
  <2>1. pc[c] \in Stage => pc[c] # "ready" /\ After(hop[c], pc[c]) # "ready"
    BY StageFacts DEF Stage, After
  <2>2. CASE Open(c) \/ Climb(c) \/ Raise(c) \/ Done(c) \/ Kill(c)
    BY <2>2 DEF Open, Climb, StartHop, Raise, Done, Kill, Close, Goto
  <2>3. CASE Altered(c) \/ Script(c) \/ Seed(c) \/ Check(c)
    BY <2>1, <2>3 DEF Altered, Script, Seed, Check, Continue, Goto, Stage
  <2>4. CASE Stamp(c)
    BY <2>4 DEF Stamp, StartHop, Goto
  <2>5. CASE \E x \in todo[c] : Alter(c, x) \/ AlterFails(c, x)
    BY <2>5 DEF Alter, AlterFails
  <2> QED BY <2>2, <2>3, <2>4, <2>5 DEF Step
<1> QED BY <1>1, <1>2, <1>3, <1>4

-----------------------------------------------------------------------------
LEMMA StepKeepsIndInv == IndInv /\ [Next]_vars => IndInv'
<1> SUFFICES ASSUME IndInv, [Next]_vars PROVE IndInv'
  OBVIOUS
<1>1. CASE UNCHANGED vars
  BY <1>1 DEF vars, process, bounds, IndInv, TypeOK, StampImpliesShape, ReadyIsFull,
              Climbed, Landed, Claimed
<1>2. ASSUME NEW c \in Conn, Step(c) \/ Kill(c) PROVE IndInv'
  <2>1. Alone(c)
    BY <1>2, StepAlone DEF IndInv
  <2>2. TypeOK'
    BY <1>2, TypeStep DEF IndInv
  <2>3. \A d \in Conn : Climbed(d)' /\ Landed(d)'
    BY <1>2, <2>1, ActingStep, OthersKept DEF IndInv
  <2>4. StampImpliesShape'
    <3>1. honest' = honest
      BY <1>2 DEF Step, Open, FastPath, Climb, Alter, AlterFails, Altered, Script, Seed, Check,
                  CheckFails, Stamp, Fold, FoldFails, Raise, Done, Kill, Close, Continue
    <3>2. version' # version => Claimed(version') \subseteq shape'
      BY <1>2, HonestStep
    <3> QED BY <2>1, <3>1, <3>2 DEF IndInv, StampImpliesShape, Alone
  <2>5. ReadyIsFull'
    <3>1. \A d \in Conn \ {c} : pc'[d] = "ready" => trouble'[d] \/ Full \subseteq shape'
      BY <2>1 DEF IndInv, ReadyIsFull, Alone
    <3>2. pc'[c] = "ready" => trouble'[c] \/ Full \subseteq shape'
      BY <1>2, ReadyStep
    <3> QED BY <3>1, <3>2 DEF ReadyIsFull
  <2> QED BY <2>2, <2>3, <2>4, <2>5 DEF IndInv
<1> QED BY <1>1, <1>2 DEF Next

\* The schema ladder keeps its inductive invariant: its types, honest stamps,
\* complete connections and what each process has seen land (connect, migrate).
THEOREM LadderInductive == Spec => []IndInv
<1>1. Init => IndInv
  BY InitEstablishes
<1>2. IndInv /\ [Next]_vars => IndInv'
  BY StepKeepsIndInv
<1> QED BY <1>1, <1>2, PTL DEF Spec

\* Whatever fails and whoever overlaps, a version is only ever stamped on a
\* database that has all of it (migrate_v2 .. migrate_v8).
THEOREM LadderStampsHonestly == Spec => HonestStamps
<1>1. IndInv /\ [Next]_vars => [version' # version => Claimed(version') \subseteq shape']_vars
  <2> SUFFICES ASSUME IndInv, Next PROVE version' # version => Claimed(version') \subseteq shape'
    OBVIOUS
  <2> QED BY HonestStep DEF Next
<1> QED BY <1>1, LadderInductive, PTL DEF Spec, HonestStamps

\* A process that had no failing statement of its own works on a database with
\* every column and table of the current version (connect).
THEOREM LadderReadyIsFull == Spec => []ReadyIsFull
<1>1. IndInv => ReadyIsFull
  BY DEF IndInv
<1> QED BY <1>1, LadderInductive, PTL
=============================================================================
