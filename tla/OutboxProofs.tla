---------------------------- MODULE OutboxProofs ----------------------------
(***************************************************************************)
(* Proofs about Outbox, for any number of processes, payloads, faults,     *)
(* kills and user actions, and any size of a drain.                        *)
(***************************************************************************)
EXTENDS Outbox, TLAPS

LEMMA ExitType ==
    ASSUME TypeOK, NEW h \in Hook, Exit(h)
    PROVE  /\ pc' \in [Hook -> PC]
           /\ ident' \in [Hook -> Identity]
           /\ left' \in [Hook -> 0 .. MaxItems]
           /\ own' \in [Hook -> Load \cup {NoLoad}]
           /\ backlog' \in [Hook -> SUBSET Row]
           /\ row' \in [Hook -> Row \cup {NoRow}]
           /\ at' \in [Hook -> Request]
           /\ synced' \in [Hook -> BOOLEAN]
BY OutboxAssumption DEF OutboxAssumption, TypeOK, Exit, Goto, PC, Identity, Request

LEMMA StopDrainingType ==
    ASSUME TypeOK, NEW h \in Hook, StopDraining(h)
    PROVE  /\ pc' \in [Hook -> PC]
           /\ ident' \in [Hook -> Identity]
           /\ left' \in [Hook -> 0 .. MaxItems]
           /\ own' \in [Hook -> Load \cup {NoLoad}]
           /\ backlog' \in [Hook -> SUBSET Row]
           /\ row' \in [Hook -> Row \cup {NoRow}]
           /\ at' \in [Hook -> Request]
           /\ synced' \in [Hook -> BOOLEAN]
BY DEF TypeOK, StopDraining, StartPush, Goto, PC, Request

LEMMA PushFailedType ==
    ASSUME TypeOK, NEW h \in Hook, PushFailed(h)
    PROVE  /\ pc' \in [Hook -> PC]
           /\ ident' \in [Hook -> Identity]
           /\ left' \in [Hook -> 0 .. MaxItems]
           /\ own' \in [Hook -> Load \cup {NoLoad}]
           /\ backlog' \in [Hook -> SUBSET Row]
           /\ row' \in [Hook -> Row \cup {NoRow}]
           /\ at' \in [Hook -> Request]
           /\ synced' \in [Hook -> BOOLEAN]
           /\ UNCHANGED history
<1>1. CASE pc[h] = "resend"
  BY <1>1, StopDrainingType DEF PushFailed
<1>2. CASE pc[h] # "resend"
  BY <1>2 DEF TypeOK, PushFailed, StartPush, Goto, PC, Request
<1> QED BY <1>1, <1>2

LEMMA ReturnType ==
    ASSUME TypeOK, NEW h \in Hook, own[h] \in Load, Return(h)
    PROVE  /\ pc' \in [Hook -> PC]
           /\ ident' \in [Hook -> Identity]
           /\ left' \in [Hook -> 0 .. MaxItems]
           /\ own' \in [Hook -> Load \cup {NoLoad}]
           /\ backlog' \in [Hook -> SUBSET Row]
           /\ row' \in [Hook -> Row \cup {NoRow}]
           /\ at' \in [Hook -> Request]
           /\ synced' \in [Hook -> BOOLEAN]
           /\ accepted' \in SUBSET Payload
<1>1. accepted' \in SUBSET Payload
  BY DEF TypeOK, Return, Load
<1>2. CASE left[h] > 1
  <2>1. left[h] - 1 \in 0 .. MaxItems
    BY <1>2, OutboxAssumption DEF OutboxAssumption, TypeOK
  <2> QED BY <1>1, <1>2, <2>1 DEF TypeOK, Return, StartPush, Goto, PC, Request
<1>3. CASE ~(left[h] > 1)
  BY <1>1, <1>3, ExitType DEF Return
<1> QED BY <1>2, <1>3

LEMMA FollowingType == \A h \in Hook : Following(h) \in Request
BY DEF Following, Request, Parent

LEMMA CurrentType ==
    ASSUME Carries, NEW h \in Hook, Pushing(h)
    PROVE  /\ Current(h).p \in Payload
           /\ own[h] \in Load
           /\ pc[h] = "resend" => row[h] \in Row
BY DEF Carries, Pushing, Current, Load, Row

-----------------------------------------------------------------------------
LEMMA TypeStep ==
    ASSUME TypeOK, Carries, [Next]_vars
    PROVE  TypeOK'
<1> USE OutboxAssumption DEF OutboxAssumption
<1> USE DEF vars, user, process, history, bounds
<1>1. CASE User
  <2>1. CASE LoginStore
    BY <2>1 DEF LoginStore, UserActs, TypeOK
  <2>2. CASE LoginRecord
    <3>1. identity' \in Identity
      BY <2>2 DEF LoginRecord, Identity, Owner
    <3> QED BY <2>2, <3>1 DEF LoginRecord, TypeOK
  <2>3. CASE Register
    <3>1. identity' \in Identity
      BY <2>3 DEF Register, Identity, Owner
    <3> QED BY <2>3, <3>1 DEF Register, UserActs, TypeOK
  <2> QED BY <1>1, <2>1, <2>2, <2>3 DEF User
<1>2. ASSUME NEW h \in Hook, Fire(h) PROVE TypeOK'
  BY <1>2 DEF Fire, Goto, TypeOK, PC
<1>3. ASSUME NEW h \in Hook, NEW p \in Payload, Build(h, p) PROVE TypeOK'
  BY <1>3 DEF Build, Goto, Stamp, TypeOK, PC, Load, Owner
<1>4. ASSUME NEW h \in Hook, DrainStep(h) PROVE TypeOK'
  <2>1. CASE Select(h)
    <3>1. Oldest \in SUBSET Row
      BY DEF Oldest, TypeOK
    <3> QED BY <2>1, <3>1 DEF Select, Goto, TypeOK, PC
  <2>2. CASE SelectError(h) \/ Drained(h) \/ DeleteError(h)
    BY <2>2, StopDrainingType DEF SelectError, Drained, DeleteError, Fault, TypeOK
  <2>3. ASSUME NEW r \in backlog[h], NextRow(h, r) PROVE TypeOK'
    <3>1. r \in Row
      BY DEF TypeOK
    <3> QED BY <2>3, <3>1 DEF NextRow, StartPush, Goto, TypeOK, PC, Request
  <2>4. CASE Delete(h)
    BY <2>4 DEF Delete, Goto, TypeOK, PC
  <2> QED BY <1>4, <2>1, <2>2, <2>3, <2>4 DEF DrainStep
<1>5. ASSUME NEW h \in Hook, PushStep(h) PROVE TypeOK'
  <2>1. CASE Token(h)
    BY <2>1, FollowingType DEF Token, TypeOK
  <2>2. CASE NoSession(h) \/ Refused(h) \/ RequestLost(h)
    BY <2>2, PushFailedType DEF NoSession, Refused, RequestLost, Fault, TypeOK
  <2>3. CASE Upsert(h)
    BY <2>3, FollowingType DEF Upsert, Latch, TypeOK
  <2>4. CASE Land(h)
    <3>1. own[h] \in Load /\ delivered' \in SUBSET Payload
      BY <2>4, CurrentType DEF Land, TypeOK
    <3>2. CASE pc[h] = "resend"
      BY <2>4, <3>1, <3>2 DEF Land, StartPush, Goto, TypeOK, PC, Request
    <3>3. CASE pc[h] # "resend"
      BY <2>4, <3>1, <3>3, ReturnType DEF Land, TypeOK
    <3> QED BY <3>2, <3>3
  <2>5. CASE ReplyLost(h)
    <3>1. delivered' \in SUBSET Payload
      BY <2>5, CurrentType DEF ReplyLost, TypeOK
    <3>2. remote' \in SUBSET Parent
      BY <2>5 DEF ReplyLost, TypeOK, Request
    <3> QED BY <2>5, <3>1, <3>2, PushFailedType DEF ReplyLost, Fault, TypeOK
  <2> QED BY <1>5, <2>1, <2>2, <2>3, <2>4, <2>5 DEF PushStep
<1>6. ASSUME NEW h \in Hook, Enqueue(h) PROVE TypeOK'
  <2>1. own[h] \in Load
    BY <1>6 DEF Enqueue, Carries
  <2>2. outbox' \in SUBSET Row /\ exposed' \in SUBSET Payload
    BY <1>6, <2>1 DEF Enqueue, TypeOK, Load, Row
  <2> QED BY <1>6, <2>1, <2>2, ReturnType DEF Enqueue, TypeOK
<1>7. ASSUME NEW h \in Hook, EnqueueError(h) \/ Kill(h) PROVE TypeOK'
  BY <1>7, ExitType DEF EnqueueError, Kill, Fault, TypeOK
<1>8. CASE UNCHANGED vars
  BY <1>8 DEF TypeOK
<1> QED BY <1>1, <1>2, <1>3, <1>4, <1>5, <1>6, <1>7, <1>8 DEF Next, Step

-----------------------------------------------------------------------------
(***************************************************************************)
(* What the shared helpers change, process by process.                     *)
(***************************************************************************)

LEMMA ExitEffect ==
    ASSUME TypeOK, NEW h \in Hook, Exit(h)
    PROVE  /\ pc'[h] = "idle" /\ own'[h] = NoLoad /\ backlog'[h] = {} /\ row'[h] = NoRow
           /\ at'[h] = "token" /\ synced'[h] = FALSE
           /\ \A g \in Hook \ {h} :
                  /\ pc'[g] = pc[g] /\ own'[g] = own[g] /\ backlog'[g] = backlog[g]
                  /\ row'[g] = row[g] /\ at'[g] = at[g] /\ synced'[g] = synced[g]
                  /\ ident'[g] = ident[g]
BY DEF TypeOK, Exit, Goto

LEMMA StopDrainingEffect ==
    ASSUME TypeOK, NEW h \in Hook, StopDraining(h)
    PROVE  /\ pc'[h] = "send" /\ backlog'[h] = {} /\ row'[h] = NoRow /\ at'[h] = "token"
           /\ own' = own /\ synced' = synced /\ ident' = ident
           /\ \A g \in Hook \ {h} :
                  /\ pc'[g] = pc[g] /\ backlog'[g] = backlog[g]
                  /\ row'[g] = row[g] /\ at'[g] = at[g]
BY DEF TypeOK, StopDraining, StartPush, Goto

\* After a failed push the process has nothing selected any more, or it is on
\* its way to the outbox with what it had.
LEMMA PushFailedEffect ==
    ASSUME TypeOK, Carries, NEW h \in Hook, Pushing(h), PushFailed(h)
    PROVE  /\ pc'[h] \in {"send", "enqueue"} /\ at'[h] = "token"
           /\ backlog'[h] = {} /\ row'[h] = NoRow
           /\ own' = own /\ synced' = synced /\ ident' = ident /\ UNCHANGED history
           /\ \A g \in Hook \ {h} :
                  /\ pc'[g] = pc[g] /\ backlog'[g] = backlog[g]
                  /\ row'[g] = row[g] /\ at'[g] = at[g]
<1>1. CASE pc[h] = "resend"
  BY <1>1, StopDrainingEffect DEF PushFailed
<1>2. CASE pc[h] # "resend"
  <2>1. pc[h] = "send" /\ backlog[h] = {} /\ row[h] = NoRow
    BY <1>2 DEF Pushing, Carries
  <2> QED BY <1>2, <2>1 DEF TypeOK, PushFailed, StartPush, Goto
<1> QED BY <1>1, <1>2

LEMMA ReturnEffect ==
    ASSUME TypeOK, Carries, NEW h \in Hook, pc[h] \in {"send", "enqueue"}, Return(h)
    PROVE  /\ pc'[h] \in {"idle", "write"} /\ at'[h] = "token"
           /\ own'[h] = NoLoad /\ backlog'[h] = {} /\ row'[h] = NoRow
           /\ synced'[h] => synced[h]
           /\ accepted' = accepted \cup {own[h].p}
           /\ \A g \in Hook \ {h} :
                  /\ pc'[g] = pc[g] /\ own'[g] = own[g] /\ backlog'[g] = backlog[g]
                  /\ row'[g] = row[g] /\ at'[g] = at[g] /\ synced'[g] = synced[g]
                  /\ ident'[g] = ident[g]
<1>1. backlog[h] = {} /\ row[h] = NoRow
  BY DEF Carries
<1>2. CASE left[h] > 1
  BY <1>1, <1>2 DEF TypeOK, Return, StartPush, Goto
<1>3. CASE ~(left[h] > 1)
  BY <1>3, ExitEffect DEF Return
<1> QED BY <1>2, <1>3

LEMMA FollowingEffect ==
    \A h \in Hook :
        /\ at[h] = "token" => Following(h) \in {"users", "projects"}
        /\ at[h] = "users" => Following(h) = "projects"
        /\ at[h] = "projects" => Following(h) = "models"
        /\ at[h] = "models" => Following(h) = "sessions"
        /\ at[h] = "sessions" => Following(h) = "events"
        /\ at[h] = "token" /\ Following(h) # "users" => synced[h] \/ ident[h] = "none"
BY DEF Following, UserRowDue

-----------------------------------------------------------------------------
(***************************************************************************)
(* One step preserves each part of the inductive invariant.                *)
(***************************************************************************)

LEMMA CarriesStep ==
    ASSUME TypeOK, Carries, [Next]_vars
    PROVE  Carries'
<1> USE DEF vars, user, process, history, bounds
<1>1. CASE User
  BY <1>1 DEF User, LoginStore, LoginRecord, Register, UserActs, Carries
<1>2. ASSUME NEW h \in Hook, Fire(h) PROVE Carries'
  BY <1>2 DEF Fire, Goto, TypeOK, Carries
<1>3. ASSUME NEW h \in Hook, NEW p \in Payload, Build(h, p) PROVE Carries'
  BY <1>3 DEF Build, Goto, Stamp, TypeOK, Load, Owner, Carries
<1>4. ASSUME NEW h \in Hook, DrainStep(h) PROVE Carries'
  <2>1. CASE Select(h)
    BY <2>1 DEF Select, Goto, TypeOK, Carries
  <2>2. CASE SelectError(h) \/ Drained(h) \/ DeleteError(h)
    <3>1. StopDraining(h) /\ own[h] \in Load
      BY <2>2 DEF SelectError, Drained, DeleteError, Carries
    <3> QED BY <3>1, StopDrainingEffect DEF Carries
  <2>3. ASSUME NEW r \in backlog[h], NextRow(h, r) PROVE Carries'
    BY <2>3 DEF NextRow, StartPush, Goto, TypeOK, Carries
  <2>4. CASE Delete(h)
    BY <2>4 DEF Delete, Goto, TypeOK, Carries
  <2> QED BY <1>4, <2>1, <2>2, <2>3, <2>4 DEF DrainStep
<1>5. ASSUME NEW h \in Hook, PushStep(h) PROVE Carries'
  <2>1. CASE Token(h) \/ Upsert(h)
    BY <2>1 DEF Token, Upsert, Carries
  <2>2. CASE NoSession(h) \/ Refused(h) \/ RequestLost(h) \/ ReplyLost(h)
    <3>1. Pushing(h) /\ PushFailed(h)
      BY <2>2 DEF NoSession, Refused, RequestLost, ReplyLost
    <3>2. own[h] \in Load
      BY <3>1, CurrentType
    <3> QED BY <3>1, <3>2, PushFailedEffect DEF Carries
  <2>3. CASE Land(h)
    <3>1. CASE pc[h] = "resend"
      BY <2>3, <3>1 DEF Land, StartPush, Goto, TypeOK, Carries
    <3>2. CASE pc[h] # "resend"
      <4>1. pc[h] \in {"send", "enqueue"} /\ Return(h)
        BY <2>3, <3>2 DEF Land, Pushing
      <4> QED BY <4>1, ReturnEffect DEF Carries
    <3> QED BY <3>1, <3>2
  <2> QED BY <1>5, <2>1, <2>2, <2>3 DEF PushStep
<1>6. ASSUME NEW h \in Hook, Enqueue(h) PROVE Carries'
  BY <1>6, ReturnEffect DEF Enqueue, Carries
<1>7. ASSUME NEW h \in Hook, EnqueueError(h) \/ Kill(h) PROVE Carries'
  BY <1>7, ExitEffect DEF EnqueueError, Kill, Carries
<1>8. CASE UNCHANGED vars
  BY <1>8 DEF Carries
<1> QED BY <1>1, <1>2, <1>3, <1>4, <1>5, <1>6, <1>7, <1>8 DEF Next, Step

\* Ids: deletion only removes rows, and a new row's id is the next one.
LEMMA IdsStep ==
    ASSUME TypeOK, IdsUnique, [Next]_vars
    PROVE  IdsUnique'
<1> USE DEF vars, user, process, history, bounds
<1>1. ASSUME NEW h \in Hook, Enqueue(h) PROVE IdsUnique'
  <2>1. PICK id \in {1} \cup {r.id + 1 : r \in outbox} :
           /\ IsNextId(id)
           /\ outbox' = outbox \cup {[id |-> id, p |-> own[h].p, owner |-> own[h].owner]}
    BY <1>1 DEF Enqueue
  <2>2. \A r \in outbox : r.id < id /\ r.id \in Nat
    BY <2>1 DEF IsNextId, TypeOK, Row
  <2>3. id \in Nat /\ id # 0
    BY <2>2
  <2> QED BY <2>1, <2>2, <2>3 DEF IdsUnique
<1>2. ASSUME NEW h \in Hook, Delete(h) PROVE IdsUnique'
  BY <1>2 DEF Delete, IdsUnique
<1>3. CASE UNCHANGED outbox
  BY <1>3 DEF IdsUnique
<1>4. ASSUME NEW h \in Hook, DrainStep(h), ~Delete(h) PROVE UNCHANGED outbox
  BY <1>4 DEF DrainStep, Select, SelectError, NextRow, Drained, DeleteError
<1>5. ASSUME NEW h \in Hook, PushStep(h) PROVE UNCHANGED outbox
  BY <1>5 DEF PushStep, Token, NoSession, Upsert, Land, Refused, RequestLost, ReplyLost
<1>6. ASSUME NEW h \in Hook, Fire(h) \/ EnqueueError(h) \/ Kill(h) PROVE UNCHANGED outbox
  BY <1>6 DEF Fire, EnqueueError, Kill
<1>7. ASSUME NEW h \in Hook, NEW p \in Payload, Build(h, p) PROVE UNCHANGED outbox
  BY <1>7 DEF Build
<1>8. CASE User
  BY <1>3, <1>8 DEF User, LoginStore, LoginRecord, Register, UserActs
<1> QED BY <1>1, <1>2, <1>3, <1>4, <1>5, <1>6, <1>7, <1>8 DEF Next, Step

\* Selections only shrink and the exposed only grow, unless a process selects,
\* queues, or builds a payload.
LEMMA SelectionShrinks ==
    ASSUME IdsUnique, SelectionKnown, outbox' \subseteq outbox, exposed' = exposed,
           \A h \in Hook : backlog'[h] \cup {row'[h]} \subseteq Selected(h) \cup {NoRow}
    PROVE  SelectionKnown'
BY DEF IdsUnique, SelectionKnown, Selected, NoRow

LEMMA SelectionStep ==
    ASSUME TypeOK, Carries, IdsUnique, SelectionKnown, [Next]_vars
    PROVE  SelectionKnown'
<1> USE DEF vars, user, process, history, bounds
<1>1. CASE UNCHANGED <<outbox, backlog, row, exposed>>
  BY <1>1, SelectionShrinks DEF Selected
<1>2. CASE User
  BY <1>1, <1>2 DEF User, LoginStore, LoginRecord, Register, UserActs
<1>3. ASSUME NEW h \in Hook, Fire(h) PROVE SelectionKnown'
  BY <1>1, <1>3 DEF Fire
<1>4. ASSUME NEW h \in Hook, NEW p \in Payload, Build(h, p) PROVE SelectionKnown'
  <2>1. \A r \in outbox : r.p # p
    BY <1>4 DEF Build, Fresh, Queued
  <2> QED BY <1>4, <2>1 DEF Build, SelectionKnown, Selected
<1>5. ASSUME NEW h \in Hook, DrainStep(h) PROVE SelectionKnown'
  <2>1. CASE Select(h)
    <3>1. Oldest \subseteq outbox
      BY DEF Oldest
    <3>2. backlog'[h] = Oldest /\ (\A g \in Hook \ {h} : backlog'[g] = backlog[g])
      BY <2>1 DEF Select, TypeOK
    <3> QED BY <2>1, <3>1, <3>2 DEF Select, SelectionKnown, Selected, IdsUnique
  <2>2. CASE SelectError(h) \/ Drained(h) \/ DeleteError(h)
    <3>1. StopDraining(h) /\ UNCHANGED <<outbox, exposed>>
      BY <2>2 DEF SelectError, Drained, DeleteError
    <3> QED BY <3>1, StopDrainingEffect, SelectionShrinks DEF Selected
  <2>3. ASSUME NEW r \in backlog[h], NextRow(h, r) PROVE SelectionKnown'
    BY <2>3, SelectionShrinks DEF NextRow, TypeOK, Selected
  <2>4. CASE Delete(h)
    BY <2>4, SelectionShrinks DEF Delete, TypeOK, Selected
  <2> QED BY <1>5, <2>1, <2>2, <2>3, <2>4 DEF DrainStep
<1>6. ASSUME NEW h \in Hook, PushStep(h) PROVE SelectionKnown'
  <2>1. CASE Token(h) \/ Upsert(h)
    BY <1>1, <2>1 DEF Token, Upsert
  <2>2. CASE NoSession(h) \/ Refused(h) \/ RequestLost(h) \/ ReplyLost(h)
    <3>1. Pushing(h) /\ PushFailed(h) /\ UNCHANGED outbox
      BY <2>2 DEF NoSession, Refused, RequestLost, ReplyLost
    <3> QED BY <3>1, PushFailedEffect, SelectionShrinks DEF Selected
  <2>3. CASE Land(h)
    <3>1. CASE pc[h] = "resend"
      BY <1>1, <2>3, <3>1 DEF Land
    <3>2. CASE pc[h] # "resend"
      <4>1. pc[h] \in {"send", "enqueue"} /\ Return(h) /\ UNCHANGED <<outbox, exposed>>
        BY <2>3, <3>2 DEF Land, Pushing
      <4> QED BY <4>1, ReturnEffect, SelectionShrinks DEF Selected
    <3> QED BY <3>1, <3>2
  <2> QED BY <1>6, <2>1, <2>2, <2>3 DEF PushStep
<1>7. ASSUME NEW h \in Hook, Enqueue(h) PROVE SelectionKnown'
  <2>1. PICK id \in {1} \cup {r.id + 1 : r \in outbox} :
           /\ IsNextId(id)
           /\ outbox' = outbox \cup {[id |-> id, p |-> own[h].p, owner |-> own[h].owner]}
           /\ exposed' = IF \E g \in Hook : id \in Reserved(g)
                         THEN exposed \cup {own[h].p} ELSE exposed
    BY <1>7 DEF Enqueue
  <2>2. \A g \in Hook : backlog'[g] \cup {row'[g]} \subseteq Selected(g) \cup {NoRow}
    BY <1>7, ReturnEffect DEF Enqueue, Selected
  <2>3. ASSUME NEW g \in Hook, NEW b \in backlog'[g] \cup {row'[g]}, NEW r \in outbox', r.id = b.id
        PROVE  r = b \/ r.p \in exposed'
    <3>1. CASE r \in outbox
      BY <2>1, <2>2, <2>3, <3>1 DEF SelectionKnown, IdsUnique, NoRow
    <3>2. CASE r = [id |-> id, p |-> own[h].p, owner |-> own[h].owner] /\ b \in Selected(g)
      BY <2>1, <2>3, <3>2 DEF Reserved
    <3>3. CASE r = [id |-> id, p |-> own[h].p, owner |-> own[h].owner] /\ b = NoRow
      <4>1. id # 0
        BY <2>1 DEF TypeOK, Row
      <4> QED BY <2>3, <3>3, <4>1 DEF NoRow
    <3> QED BY <2>1, <2>2, <3>1, <3>2, <3>3
  <2> QED BY <2>3 DEF SelectionKnown, Selected
<1>8. ASSUME NEW h \in Hook, EnqueueError(h) \/ Kill(h) PROVE SelectionKnown'
  BY <1>8, ExitEffect, SelectionShrinks DEF EnqueueError, Kill, Selected
<1>9. CASE UNCHANGED vars
  BY <1>1, <1>9
<1> QED BY <1>2, <1>3, <1>4, <1>5, <1>6, <1>7, <1>8, <1>9 DEF Next, Step

\* A process reaches the deletion of a row only by delivering its payload, and
\* nobody reuses the payload's name while the process holds the row.
LEMMA DeletesStep ==
    ASSUME TypeOK, Carries, DeletesDelivered, [Next]_vars
    PROVE  DeletesDelivered'
<1> USE DEF vars, user, process, history, bounds
<1>1. CASE User
  BY <1>1 DEF User, LoginStore, LoginRecord, Register, UserActs, DeletesDelivered
<1>2. ASSUME NEW h \in Hook, Fire(h) PROVE DeletesDelivered'
  BY <1>2 DEF Fire, Goto, TypeOK, DeletesDelivered
<1>3. ASSUME NEW h \in Hook, NEW p \in Payload, Build(h, p) PROVE DeletesDelivered'
  <2>1. \A g \in Hook : row[g].p # p
    BY <1>3 DEF Build, Fresh, Held, Selected
  <2> QED BY <1>3, <2>1 DEF Build, Goto, TypeOK, DeletesDelivered
<1>4. ASSUME NEW h \in Hook, DrainStep(h) PROVE DeletesDelivered'
  <2>1. CASE Select(h)
    BY <2>1 DEF Select, Goto, TypeOK, DeletesDelivered
  <2>2. CASE SelectError(h) \/ Drained(h) \/ DeleteError(h)
    <3>1. StopDraining(h) /\ UNCHANGED delivered
      BY <2>2 DEF SelectError, Drained, DeleteError
    <3> QED BY <3>1, StopDrainingEffect DEF DeletesDelivered
  <2>3. ASSUME NEW r \in backlog[h], NextRow(h, r) PROVE DeletesDelivered'
    BY <2>3 DEF NextRow, StartPush, Goto, TypeOK, DeletesDelivered
  <2>4. CASE Delete(h)
    BY <2>4 DEF Delete, Goto, TypeOK, DeletesDelivered
  <2> QED BY <1>4, <2>1, <2>2, <2>3, <2>4 DEF DrainStep
<1>5. ASSUME NEW h \in Hook, PushStep(h) PROVE DeletesDelivered'
  <2>1. CASE Token(h) \/ Upsert(h)
    BY <2>1 DEF Token, Upsert, DeletesDelivered
  <2>2. CASE NoSession(h) \/ Refused(h) \/ RequestLost(h) \/ ReplyLost(h)
    <3>1. Pushing(h) /\ PushFailed(h) /\ delivered \subseteq delivered'
      BY <2>2 DEF NoSession, Refused, RequestLost, ReplyLost
    <3> QED BY <3>1, PushFailedEffect DEF DeletesDelivered
  <2>3. CASE Land(h)
    <3>1. CASE pc[h] = "resend"
      BY <2>3, <3>1 DEF Land, Current, StartPush, Goto, TypeOK, DeletesDelivered
    <3>2. CASE pc[h] # "resend"
      <4>1. pc[h] \in {"send", "enqueue"} /\ Return(h) /\ delivered \subseteq delivered'
        BY <2>3, <3>2 DEF Land, Pushing
      <4> QED BY <4>1, ReturnEffect DEF DeletesDelivered
    <3> QED BY <3>1, <3>2
  <2> QED BY <1>5, <2>1, <2>2, <2>3 DEF PushStep
<1>6. ASSUME NEW h \in Hook, Enqueue(h) PROVE DeletesDelivered'
  BY <1>6, ReturnEffect DEF Enqueue, DeletesDelivered
<1>7. ASSUME NEW h \in Hook, EnqueueError(h) \/ Kill(h) PROVE DeletesDelivered'
  BY <1>7, ExitEffect DEF EnqueueError, Kill, DeletesDelivered
<1>8. CASE UNCHANGED vars
  BY <1>8 DEF DeletesDelivered
<1> QED BY <1>1, <1>2, <1>3, <1>4, <1>5, <1>6, <1>7, <1>8 DEF Next, Step

\* A payload is only forgotten by the deletion of a row whose id is its own:
\* then it is delivered, or its id was handed out while it was held.
LEMMA RetainedStep ==
    ASSUME TypeOK, Carries, SelectionKnown, DeletesDelivered, RetainedUnlessExposed, [Next]_vars
    PROVE  RetainedUnlessExposed'
<1> USE DEF vars, user, process, history, bounds
<1>1. ASSUME UNCHANGED <<accepted, exposed, outbox>>, delivered \subseteq delivered'
      PROVE  RetainedUnlessExposed'
  BY <1>1 DEF RetainedUnlessExposed, Queued
<1>2. CASE User
  BY <1>1, <1>2 DEF User, LoginStore, LoginRecord, Register, UserActs
<1>3. ASSUME NEW h \in Hook, NEW p \in Payload, Build(h, p) PROVE RetainedUnlessExposed'
  BY <1>3 DEF Build, RetainedUnlessExposed, Queued
<1>4. ASSUME NEW h \in Hook, DrainStep(h) PROVE RetainedUnlessExposed'
  <2>1. CASE Delete(h)
    <3>1. ASSUME NEW r \in outbox, r.id = row[h].id PROVE r.p \in delivered \cup exposed
      BY <2>1, <3>1 DEF Delete, SelectionKnown, Selected, DeletesDelivered
    <3> QED BY <2>1, <3>1 DEF Delete, RetainedUnlessExposed, Queued
  <2>2. CASE ~Delete(h)
    BY <1>1, <1>4, <2>2 DEF DrainStep, Select, SelectError, NextRow, Drained, DeleteError
  <2> QED BY <2>1, <2>2
<1>5. ASSUME NEW h \in Hook, PushStep(h) PROVE RetainedUnlessExposed'
  <2>1. CASE Token(h) \/ Upsert(h)
    BY <1>1, <2>1 DEF Token, Upsert
  <2>2. CASE NoSession(h) \/ Refused(h) \/ RequestLost(h) \/ ReplyLost(h)
    <3>1. Pushing(h) /\ PushFailed(h) /\ outbox' = outbox /\ delivered \subseteq delivered'
      BY <2>2 DEF NoSession, Refused, RequestLost, ReplyLost
    <3> QED BY <1>1, <3>1, PushFailedEffect
  <2>3. CASE Land(h)
    <3>1. CASE pc[h] = "resend"
      BY <1>1, <2>3, <3>1 DEF Land
    <3>2. CASE pc[h] # "resend"
      <4>1. pc[h] = "send" /\ Return(h)
        BY <2>3, <3>2 DEF Land, Pushing
      <4>2. own[h].p \in delivered' /\ delivered \subseteq delivered'
        BY <2>3, <4>1 DEF Land, Current
      <4>3. accepted' = accepted \cup {own[h].p}
        BY <4>1, ReturnEffect
      <4> QED BY <2>3, <4>2, <4>3 DEF Land, RetainedUnlessExposed, Queued
    <3> QED BY <3>1, <3>2
  <2> QED BY <1>5, <2>1, <2>2, <2>3 DEF PushStep
<1>6. ASSUME NEW h \in Hook, Enqueue(h) PROVE RetainedUnlessExposed'
  <2>1. accepted' = accepted \cup {own[h].p}
    BY <1>6, ReturnEffect DEF Enqueue
  <2>2. \E r \in outbox' : r.p = own[h].p
    <3>1. PICK id \in {1} \cup {r.id + 1 : r \in outbox} :
             outbox' = outbox \cup {[id |-> id, p |-> own[h].p, owner |-> own[h].owner]}
      BY <1>6 DEF Enqueue
    <3>2. [id |-> id, p |-> own[h].p, owner |-> own[h].owner] \in outbox'
      BY <3>1
    <3> QED BY <3>2
  <2>3. outbox \subseteq outbox' /\ exposed \subseteq exposed' /\ delivered' = delivered
    BY <1>6 DEF Enqueue
  <2> QED BY <2>1, <2>2, <2>3 DEF RetainedUnlessExposed, Queued
<1>7. ASSUME NEW h \in Hook, Fire(h) \/ EnqueueError(h) \/ Kill(h) PROVE RetainedUnlessExposed'
  BY <1>1, <1>7 DEF Fire, EnqueueError, Kill
<1>8. CASE UNCHANGED vars
  BY <1>1, <1>8
<1> QED BY <1>2, <1>3, <1>4, <1>5, <1>6, <1>7, <1>8 DEF Next, Step

\* What the remote has only grows, and a process that starts a push, or is not
\* pushing, or does not move, needs nothing new of it.
LEMMA PushKept ==
    ASSUME PushedBefore, ParentsFirst, remote \subseteq remote',
           \A h \in Hook :
               /\ synced'[h] => synced[h]
               /\ \/ at'[h] = "token"
                  \/ at'[h] = at[h] /\ pc'[h] \notin {"resend", "send"}
                  \/ /\ at'[h] = at[h] /\ pc'[h] = pc[h] /\ ident'[h] = ident[h]
                     /\ own'[h] = own[h] /\ row'[h] = row[h]
    PROVE  PushedBefore' /\ ParentsFirst'
<1>1. PushedBefore'
  BY DEF PushedBefore
<1>2. ASSUME NEW h \in Hook, (Pushing(h) /\ ident[h] # "none" /\ Current(h).owner = "auth")'
      PROVE  ParentsExist(at[h])'
  <2>1. CASE at'[h] = "token"
    BY <2>1 DEF ParentsExist, NeedsOf
  <2>2. CASE /\ at'[h] = at[h] /\ pc'[h] = pc[h] /\ ident'[h] = ident[h]
             /\ own'[h] = own[h] /\ row'[h] = row[h]
    <3>1. ParentsExist(at[h])
      BY <1>2, <2>2 DEF Pushing, Current, ParentsFirst
    <3> QED BY <2>2, <3>1 DEF ParentsExist, NeedsOf
  <2> QED BY <1>2, <2>1, <2>2 DEF Pushing
<1> QED BY <1>1, <1>2 DEF ParentsFirst

LEMMA PushedStep ==
    ASSUME TypeOK, Carries, PushedBefore, ParentsFirst, [Next]_vars
    PROVE  PushedBefore' /\ ParentsFirst'
<1> USE DEF vars, user, process, history, bounds
<1>1. CASE User
  BY <1>1, PushKept DEF User, LoginStore, LoginRecord, Register, UserActs
<1>2. ASSUME NEW h \in Hook, Fire(h) PROVE PushedBefore' /\ ParentsFirst'
  BY <1>2, PushKept DEF Fire, Goto, TypeOK
<1>3. ASSUME NEW h \in Hook, NEW p \in Payload, Build(h, p) PROVE PushedBefore' /\ ParentsFirst'
  BY <1>3, PushKept DEF Build, Goto, TypeOK
<1>4. ASSUME NEW h \in Hook, DrainStep(h) PROVE PushedBefore' /\ ParentsFirst'
  <2>1. CASE Select(h) \/ Delete(h)
    BY <2>1, PushKept DEF Select, Delete, Goto, TypeOK
  <2>2. CASE SelectError(h) \/ Drained(h) \/ DeleteError(h)
    <3>1. StopDraining(h) /\ remote' = remote
      BY <2>2 DEF SelectError, Drained, DeleteError
    <3> QED BY <3>1, StopDrainingEffect, PushKept
  <2>3. ASSUME NEW r \in backlog[h], NextRow(h, r) PROVE PushedBefore' /\ ParentsFirst'
    BY <2>3, PushKept DEF NextRow, StartPush, Goto, TypeOK
  <2> QED BY <1>4, <2>1, <2>2, <2>3 DEF DrainStep
<1>5. ASSUME NEW h \in Hook, PushStep(h) PROVE PushedBefore' /\ ParentsFirst'
  <2>1. CASE Token(h)
    <3>1. /\ at'[h] = Following(h) /\ (\A g \in Hook \ {h} : at'[g] = at[g])
          /\ UNCHANGED <<remote, synced, pc, ident, own, row>> /\ at[h] = "token"
      BY <2>1 DEF Token, TypeOK
    <3>2. /\ at'[h] \in {"users", "projects"}
          /\ at'[h] = "projects" => synced[h] \/ ident[h] = "none"
      BY <3>1, FollowingEffect
    <3>3. PushedBefore'
      BY <3>1, <3>2 DEF PushedBefore
    <3>4. ASSUME NEW g \in Hook, (Pushing(g) /\ ident[g] # "none" /\ Current(g).owner = "auth")'
          PROVE  ParentsExist(at[g])'
      <4>1. CASE g = h
        BY <3>1, <3>2, <3>4, <4>1 DEF PushedBefore, ParentsExist, NeedsOf
      <4>2. CASE g # h
        BY <3>1, <3>4, <4>2 DEF ParentsFirst, Pushing, Current, ParentsExist, NeedsOf
      <4> QED BY <4>1, <4>2
    <3> QED BY <3>3, <3>4 DEF ParentsFirst
  <2>2. CASE Upsert(h)
    <3>1. /\ at'[h] = Following(h) /\ (\A g \in Hook \ {h} : at'[g] = at[g])
          /\ UNCHANGED <<pc, ident, own, row>> /\ at[h] \in Parent /\ ParentsExist(at[h])
          /\ remote' = remote \cup {at[h]}
          /\ synced'[h] = (synced[h] \/ at[h] = "users")
          /\ \A g \in Hook \ {h} : synced'[g] = synced[g]
      BY <2>2 DEF Upsert, Allowed, Latch, TypeOK
    <3>2. /\ at[h] = "users" => at'[h] = "projects"
          /\ at[h] = "projects" => at'[h] = "models"
          /\ at[h] = "models" => at'[h] = "sessions"
          /\ at[h] = "sessions" => at'[h] = "events"
      BY <3>1, FollowingEffect
    <3>3. PushedBefore'
      BY <3>1, <3>2 DEF PushedBefore, Parent
    <3>4. ParentsExist(at[h])'
      BY <3>1, <3>2 DEF PushedBefore, Parent, ParentsExist, NeedsOf
    <3>5. ASSUME NEW g \in Hook \ {h}, (Pushing(g) /\ ident[g] # "none" /\ Current(g).owner = "auth")'
          PROVE  ParentsExist(at[g])'
      BY <3>1, <3>5 DEF ParentsFirst, Pushing, Current, ParentsExist, NeedsOf
    <3> QED BY <3>3, <3>4, <3>5 DEF ParentsFirst
  <2>3. CASE NoSession(h) \/ Refused(h) \/ RequestLost(h) \/ ReplyLost(h)
    <3>1. Pushing(h) /\ PushFailed(h) /\ remote \subseteq remote'
      BY <2>3 DEF NoSession, Refused, RequestLost, ReplyLost
    <3> QED BY <3>1, PushFailedEffect, PushKept
  <2>4. CASE Land(h)
    <3>1. CASE pc[h] = "resend"
      BY <2>4, <3>1, PushKept DEF Land, StartPush, Goto, TypeOK
    <3>2. CASE pc[h] # "resend"
      <4>1. pc[h] \in {"send", "enqueue"} /\ Return(h) /\ remote' = remote
        BY <2>4, <3>2 DEF Land, Pushing
      <4> QED BY <4>1, ReturnEffect, PushKept
    <3> QED BY <3>1, <3>2
  <2> QED BY <1>5, <2>1, <2>2, <2>3, <2>4 DEF PushStep
<1>6. ASSUME NEW h \in Hook, Enqueue(h) PROVE PushedBefore' /\ ParentsFirst'
  BY <1>6, ReturnEffect, PushKept DEF Enqueue
<1>7. ASSUME NEW h \in Hook, EnqueueError(h) \/ Kill(h) PROVE PushedBefore' /\ ParentsFirst'
  BY <1>7, ExitEffect, PushKept DEF EnqueueError, Kill
<1>8. CASE UNCHANGED vars
  BY <1>8, PushKept
<1> QED BY <1>1, <1>2, <1>3, <1>4, <1>5, <1>6, <1>7, <1>8 DEF Next, Step

-----------------------------------------------------------------------------
(***************************************************************************)
(* The theorems.                                                           *)
(***************************************************************************)

LEMMA InitEstablishes == Init => IndInv
<1> SUFFICES ASSUME Init PROVE IndInv
  OBVIOUS
<1>1. TypeOK
  <2>1. credentials \in BOOLEAN /\ loggingIn \in BOOLEAN
    BY Zenon DEF Init
  <2> QED BY <2>1, OutboxAssumption
          DEF OutboxAssumption, Init, TypeOK, Identity, Owner, PC, Request
<1>2. IdsUnique /\ SelectionKnown /\ RetainedUnlessExposed
  BY DEF Init, IdsUnique, SelectionKnown, RetainedUnlessExposed
<1>3. Carries /\ DeletesDelivered
  BY DEF Init, Carries, DeletesDelivered
<1>4. PushedBefore /\ ParentsFirst
  BY DEF Init, PushedBefore, ParentsFirst, Pushing
<1> QED BY <1>1, <1>2, <1>3, <1>4 DEF IndInv

LEMMA StepPreserves == IndInv /\ [Next]_vars => IndInv'
BY TypeStep, IdsStep, SelectionStep, CarriesStep, DeletesStep, PushedStep, RetainedStep DEF IndInv

\* The outbox of every number of processes, payloads and faults keeps its
\* inductive invariant (write_events, _drain_outbox, _push, _enqueue).
THEOREM OutboxInductive == Spec => []IndInv
<1> QED BY InitEstablishes, StepPreserves, PTL DEF Spec

\* A payload that write_events has taken is delivered or queued unless its id
\* was exposed (_drain_outbox deletes by id).
THEOREM OutboxRetains == Spec => []RetainedUnlessExposed
<1>1. IndInv => RetainedUnlessExposed
  BY DEF IndInv
<1> QED BY <1>1, OutboxInductive, PTL

\* No request of a process that knows the user's name fails on a missing
\* parent row (_push, _ensure_user_row).
THEOREM OutboxParentsFirst == Spec => []ParentsFirst
<1>1. IndInv => ParentsFirst
  BY DEF IndInv
<1> QED BY <1>1, OutboxInductive, PTL

(***************************************************************************)
(* With one process at a time nothing is exposed, and the documented       *)
(* promise holds.                                                          *)
(***************************************************************************)

LEMMA ExposedAlone ==
    ASSUME \A g, h \in Hook : g = h, IndInv, exposed = {}, [Next]_vars
    PROVE  exposed' = {}
<1> USE DEF vars, user, process, history, bounds
<1>1. ASSUME NEW h \in Hook, Enqueue(h) PROVE exposed' = {}
  <2>1. PICK id \in {1} \cup {r.id + 1 : r \in outbox} :
           exposed' = IF \E g \in Hook : id \in Reserved(g)
                      THEN exposed \cup {own[h].p} ELSE exposed
    BY <1>1 DEF Enqueue
  <2>2. id # 0
    BY <2>1 DEF IndInv, TypeOK, Row
  <2>3. \A g \in Hook : Selected(g) = {NoRow}
    BY <1>1 DEF Enqueue, IndInv, Carries, Selected
  <2>4. \A g \in Hook : id \notin Reserved(g)
    BY <2>2, <2>3 DEF Reserved, NoRow
  <2> QED BY <2>1, <2>4
<1>2. ASSUME NEW h \in Hook, NEW p \in Payload, Build(h, p) PROVE exposed' = {}
  BY <1>2 DEF Build
<1>3. ASSUME NEW h \in Hook, PushStep(h) PROVE exposed' = {}
  <2>1. CASE Token(h) \/ Upsert(h) \/ Land(h)
    BY <2>1 DEF Token, Upsert, Land
  <2>2. CASE NoSession(h) \/ Refused(h) \/ RequestLost(h) \/ ReplyLost(h)
    <3>1. Pushing(h) /\ PushFailed(h)
      BY <2>2 DEF NoSession, Refused, RequestLost, ReplyLost
    <3> QED BY <3>1, PushFailedEffect DEF IndInv
  <2> QED BY <1>3, <2>1, <2>2 DEF PushStep
<1>4. ASSUME NEW h \in Hook, DrainStep(h) PROVE exposed' = {}
  BY <1>4 DEF DrainStep, Select, SelectError, NextRow, Drained, Delete, DeleteError
<1>5. ASSUME NEW h \in Hook, Fire(h) \/ EnqueueError(h) \/ Kill(h) PROVE exposed' = {}
  BY <1>5 DEF Fire, EnqueueError, Kill
<1>6. CASE User
  BY <1>6 DEF User, LoginStore, LoginRecord, Register, UserActs
<1>7. CASE UNCHANGED vars
  BY <1>7
<1> QED BY <1>1, <1>2, <1>3, <1>4, <1>5, <1>6, <1>7 DEF Next, Step

\* If hooks never overlap, whatever write_events has taken is delivered or
\* queued: the promise of its docstring fails only by concurrency.
THEOREM OutboxRetainsAlone ==
    ASSUME \A g, h \in Hook : g = h
    PROVE  Spec => []Retained
<1>1. Init => exposed = {}
  BY DEF Init
<1>2. IndInv /\ exposed = {} /\ [Next]_vars => (exposed = {})'
  BY ExposedAlone
<1>3. IndInv /\ exposed = {} => Retained
  BY DEF IndInv, RetainedUnlessExposed, Retained
<1> QED BY <1>1, <1>2, <1>3, OutboxInductive, PTL DEF Spec

-----------------------------------------------------------------------------
(***************************************************************************)
(* The outbox implements Delivery: each step of a process is a step of the *)
(* promise, or leaves its state alone.                                     *)
(***************************************************************************)

\* Deleting a row drops its payload, unless another row still queues it.
LEMMA DeleteDrops ==
    ASSUME IndInv, NEW h \in Hook, Delete(h)
    PROVE  (\E p \in Payload : Promise!Drop(p)) \/ Queued' = Queued
<1> USE DEF history
<1>1. CASE \E r \in outbox : r.id = row[h].id /\ r.p \notin Queued'
  <2>1. PICK r \in outbox : r.id = row[h].id /\ r.p \notin Queued'
    BY <1>1
  <2>2. \A s \in outbox : s.id = row[h].id => s = r
    BY <2>1 DEF IndInv, IdsUnique
  <2>3. r.p \in delivered \cup exposed
    BY <2>1 DEF Delete, IndInv, SelectionKnown, Selected, DeletesDelivered
  <2>4. Queued' = Queued \ {r.p}
    BY <2>1, <2>2 DEF Delete, Queued
  <2>5. r.p \in Payload
    BY DEF IndInv, TypeOK, Row
  <2>6. Promise!Drop(r.p)
    BY <2>3, <2>4 DEF Delete, Promise!Drop
  <2> QED BY <2>5, <2>6
<1>2. CASE \A r \in outbox : r.id = row[h].id => r.p \in Queued'
  BY <1>2 DEF Delete, Queued
<1> QED BY <1>1, <1>2

LEMMA PushDelivers ==
    ASSUME IndInv, NEW h \in Hook, PushStep(h)
    PROVE  (\E p \in Payload : Promise!Deliver(p)) \/ UNCHANGED <<outbox, delivered, history>>
<1> USE DEF history
<1>1. CASE Token(h) \/ Upsert(h)
  BY <1>1 DEF Token, Upsert
<1>2. CASE NoSession(h) \/ Refused(h) \/ RequestLost(h)
  <2>1. Pushing(h) /\ PushFailed(h) /\ UNCHANGED <<outbox, delivered>>
    BY <1>2 DEF NoSession, Refused, RequestLost
  <2> QED BY <2>1, PushFailedEffect DEF IndInv
<1>3. CASE ReplyLost(h)
  <2>1. Pushing(h) /\ PushFailed(h) /\ UNCHANGED outbox
    BY <1>3 DEF ReplyLost
  <2>2. UNCHANGED history
    BY <2>1, PushFailedEffect DEF IndInv
  <2>3. CASE at[h] = "events"
    <3>1. Current(h).p \in Payload
      BY <2>1, CurrentType DEF IndInv
    <3>2. Promise!Deliver(Current(h).p)
      BY <1>3, <2>1, <2>2, <2>3 DEF ReplyLost, Promise!Deliver, Queued
    <3> QED BY <3>1, <3>2
  <2>4. CASE at[h] # "events"
    BY <1>3, <2>1, <2>2, <2>4 DEF ReplyLost
  <2> QED BY <2>3, <2>4
<1>4. CASE Land(h)
  <2>1. /\ Pushing(h) /\ UNCHANGED <<outbox, exposed>>
        /\ delivered' = delivered \cup {Current(h).p}
    BY <1>4 DEF Land
  <2>2. Current(h).p \in Payload
    BY <2>1, CurrentType DEF IndInv
  <2>3. accepted' \in {accepted, accepted \cup {Current(h).p}}
    <3>1. CASE pc[h] = "resend"
      BY <1>4, <3>1 DEF Land
    <3>2. CASE pc[h] # "resend"
      <4>1. pc[h] = "send" /\ Return(h)
        BY <1>4, <3>2 DEF Land, Pushing
      <4> QED BY <4>1, ReturnEffect DEF IndInv, Current
    <3> QED BY <3>1, <3>2
  <2>4. Promise!Deliver(Current(h).p)
    BY <2>1, <2>3 DEF Promise!Deliver, Queued
  <2> QED BY <2>2, <2>4
<1> QED BY <1>1, <1>2, <1>3, <1>4 DEF PushStep

\* Queueing a payload keeps it.
LEMMA EnqueueKeeps ==
    ASSUME IndInv, NEW h \in Hook, Enqueue(h)
    PROVE  \E p \in Payload : Promise!Keep(p)
<1>1. own[h].p \in Payload
  BY DEF Enqueue, IndInv, Carries, Load
<1>2. accepted' = accepted \cup {own[h].p}
  BY ReturnEffect DEF Enqueue, IndInv
<1>3. Queued' = Queued \cup {own[h].p}
  <2>1. PICK id \in {1} \cup {r.id + 1 : r \in outbox} :
           outbox' = outbox \cup {[id |-> id, p |-> own[h].p, owner |-> own[h].owner]}
    BY DEF Enqueue
  <2> DEFINE new == [id |-> id, p |-> own[h].p, owner |-> own[h].owner]
  <2>2. new.p = own[h].p
    OBVIOUS
  <2>3. outbox' = outbox \cup {new}
    BY <2>1
  <2> HIDE DEF new
  <2>4. {r.p : r \in outbox \cup {new}} = {r.p : r \in outbox} \cup {new.p}
    OBVIOUS
  <2> QED BY <2>2, <2>3, <2>4 DEF Queued
<1>4. exposed' \in {exposed, exposed \cup {own[h].p}} /\ UNCHANGED delivered
  BY DEF Enqueue
<1>5. Promise!Keep(own[h].p)
  BY <1>2, <1>3, <1>4 DEF Promise!Keep
<1> QED BY <1>1, <1>5

\* write_events, its drain and its pushes deliver at least once: every
\* execution of the processes is one of Delivery.
THEOREM OutboxImplements == Spec => ImplementsDelivery
<1>1. Init => Promise!Init
  BY DEF Init, Promise!Init, Queued
<1>2. IndInv /\ [Next]_vars => [Promise!Next]_(Promise!deliveryVars)
  <2> SUFFICES ASSUME IndInv, [Next]_vars
               PROVE  Promise!Next \/ UNCHANGED <<accepted, Queued, delivered, exposed>>
    BY DEF Promise!deliveryVars
  <2> USE DEF history
  <2>1. UNCHANGED <<outbox, delivered, history>>
            => UNCHANGED <<accepted, Queued, delivered, exposed>>
    BY DEF Queued
  <2>2. ASSUME NEW h \in Hook, NEW p \in Payload, Build(h, p) PROVE Promise!Next
    <3>1. Promise!Begin(p)
      BY <2>2 DEF Build, Fresh, Queued, Promise!Begin
    <3> QED BY <3>1 DEF Promise!Next
  <2>3. ASSUME NEW h \in Hook, DrainStep(h)
        PROVE  Promise!Next \/ UNCHANGED <<accepted, Queued, delivered, exposed>>
    <3>1. CASE Delete(h)
      BY <3>1, DeleteDrops DEF Delete, Promise!Next
    <3>2. CASE ~Delete(h)
      BY <2>1, <2>3, <3>2 DEF DrainStep, Select, SelectError, NextRow, Drained, DeleteError
    <3> QED BY <3>1, <3>2
  <2>4. ASSUME NEW h \in Hook, PushStep(h)
        PROVE  Promise!Next \/ UNCHANGED <<accepted, Queued, delivered, exposed>>
    BY <2>1, <2>4, PushDelivers DEF Promise!Next
  <2>5. ASSUME NEW h \in Hook, Enqueue(h) PROVE Promise!Next
    BY <2>5, EnqueueKeeps DEF Promise!Next
  <2>6. ASSUME NEW h \in Hook, Fire(h) \/ EnqueueError(h) \/ Kill(h)
        PROVE  UNCHANGED <<accepted, Queued, delivered, exposed>>
    BY <2>1, <2>6 DEF Fire, EnqueueError, Kill
  <2>7. CASE User
    BY <2>1, <2>7 DEF User, LoginStore, LoginRecord, Register, UserActs
  <2>8. CASE UNCHANGED vars
    BY <2>1, <2>8 DEF vars
  <2> QED BY <2>2, <2>3, <2>4, <2>5, <2>6, <2>7, <2>8 DEF Next, Step
<1> QED BY <1>1, <1>2, OutboxInductive, PTL DEF Spec, ImplementsDelivery, Promise!Spec
=============================================================================
