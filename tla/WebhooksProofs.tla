--------------------------- MODULE WebhooksProofs ---------------------------
(***************************************************************************)
(* Theorems about Webhooks, for every set of subscriptions, notifications, *)
(* callers and senders, and every bound.  OneSender, DeadWasTried and      *)
(* DeliveredIsFinal are of the executions in which no sender outlives its  *)
(* lease (~LateSenders: the POST times out after 10 s, the lease after 60).*)
(***************************************************************************)
EXTENDS Webhooks, FiniteSetTheorems, TLAPS

-----------------------------------------------------------------------------
(* The invariants.                                                         *)

\* A sender that works has a delivery.
Works(s) == sender[s].pc # "idle"

TypeInv == TypeOK /\ \A s \in Sender : Works(s) => sender[s].delivery \in Delivery

\* The rows of webhook_deliveries are of subscriptions that are listed (ON
\* DELETE CASCADE) and of notifications that were published.
RowOf(d) ==
    IF row[d].status = "none" THEN row[d] = NoRow
    ELSE hooks[d[1]] \in {"active", "inactive"} /\ d[2] \in published

\* A sender's subscription was created; it is not active if it was not when
\* the delivery was claimed; a sender about to complete had its 2xx.
SenderOf(s) ==
    Works(s) =>
       /\ hooks[sender[s].delivery[1]] # "none"
       /\ ~sender[s].active => hooks[sender[s].delivery[1]] # "active"
       /\ sender[s].pc = "complete" => sender[s].delivery \in received

TableInv ==
    /\ \A d \in Delivery : RowOf(d)
    /\ \A s \in Sender : SenderOf(s)
    /\ DeliveredWasReceived

\* While no sender outlives its lease, a sender has its delivery running under
\* its lease, at the attempt it claimed, or deleted for good.
Leased(s) ==
    LET d == sender[s].delivery IN
    Works(s) =>
       \/ row[d].status = "none" /\ hooks[d[1]] = "deleted"
       \/ /\ row[d].status = "running" /\ row[d].leased
          /\ row[d].attempts = sender[s].attempts

TimelyInv ==
    /\ \A s \in Sender : Leased(s)
    /\ OneSender /\ DeadWasTried

\* The calls that passed the check still count against the maximum.
Checked == {c \in Client : client[c] = "checked"}

BoundInv ==
    /\ IsFiniteSet(Listed)
    /\ Cardinality(Listed) + Cardinality(Checked) <= MaxHooks + Cardinality(Client) - 1

-----------------------------------------------------------------------------
(* The steps of a sender.                                                  *)

SenderState ==
    [pc : {"idle", "deliver", "complete", "failed"},
     delivery : Delivery \cup {NoDelivery}, attempts : Nat, active : BOOLEAN]

\* A sender records an outcome: delivered after its 2xx, dead for a
\* subscription that was inactive or on the last attempt, else queued.
Records(s, st) ==
    /\ Works(s) /\ Record(s, st)
    /\ UNCHANGED <<hooks, client, published, received, posts, faults, retries>>
    /\ \/ st = "delivered" /\ sender[s].pc = "complete"
       \/ st = "dead" /\ (~sender[s].active \/ sender[s].attempts >= MaxAttempts)
       \/ st = "queued"

\* The three ends of deliver are of this shape.
LEMMA RecordShape ==
    ASSUME NEW s \in Sender,
           BuryInactive(s) \/ CompleteDelivery(s) \/ RecordFailure(s)
    PROVE  \E st \in {"delivered", "dead", "queued"} : Records(s, st)
  <1>1. CASE BuryInactive(s)
    BY <1>1 DEF BuryInactive, Records, Works
  <1>2. CASE CompleteDelivery(s)
    BY <1>2 DEF CompleteDelivery, Records, Works
  <1>3. CASE RecordFailure(s)
    <2>1. CASE sender[s].attempts >= MaxAttempts
      BY <1>3, <2>1 DEF RecordFailure, Records, Works
    <2>2. CASE ~(sender[s].attempts >= MaxAttempts)
      BY <1>3, <2>2 DEF RecordFailure, Records, Works
    <2>3. QED
      BY <2>1, <2>2
  <1>4. QED
    BY <1>1, <1>2, <1>3

\* What it does to the tables.
LEMMA RecordEffect ==
    ASSUME TypeInv, NEW s \in Sender, NEW st \in {"delivered", "dead", "queued"},
           Records(s, st)
    PROVE  /\ sender' \in [Sender -> SenderState] /\ row' \in [Delivery -> Row]
           /\ sender[s].delivery \in Delivery
           /\ ~Works(s)' /\ \A t \in Sender : t # s => sender'[t] = sender[t]
           /\ \A d \in Delivery : d # sender[s].delivery => row'[d] = row[d]
           /\ row'[sender[s].delivery] =
                 IF row[sender[s].delivery].status = "none" THEN NoRow
                 ELSE [status |-> st, leased |-> FALSE,
                       attempts |-> row[sender[s].delivery].attempts]
  <1>1. /\ sender[s].delivery \in Delivery /\ row \in [Delivery -> Row]
        /\ sender \in [Sender -> SenderState] /\ Idle \in SenderState
    BY DEF TypeInv, TypeOK, SenderState, Records, Idle
  <1>2. /\ NoRow \in Row
        /\ [status |-> st, leased |-> FALSE,
            attempts |-> row[sender[s].delivery].attempts] \in Row
    BY <1>1 DEF Row, NoRow
  <1>3. sender' = [sender EXCEPT ![s] = Idle] /\ Idle.pc = "idle"
    BY DEF Records, Record, Idle
  <1>4. QED
    BY <1>1, <1>2, <1>3 DEF Records, Record, Works

\* The POST moves its sender on, with what was received.
LEMMA PostEffect ==
    ASSUME TypeInv, NEW s \in Sender, Post(s)
    PROVE  /\ sender' \in [Sender -> SenderState]
           /\ \A t \in Sender : t # s => sender'[t] = sender[t]
           /\ sender'[s].delivery = sender[s].delivery
           /\ sender'[s].attempts = sender[s].attempts
           /\ sender'[s].active = sender[s].active
           /\ Works(s) /\ Works(s)'
           /\ sender[s].delivery \in Delivery
           /\ received' \in {received, received \cup {sender[s].delivery}}
           /\ sender'[s].pc = "complete" => sender[s].delivery \in received'
           /\ posts' \in [Delivery -> Nat]
           /\ UNCHANGED <<hooks, client, published, row, faults, retries>>
  <1>1. /\ sender \in [Sender -> SenderState] /\ sender[s].delivery \in Delivery
        /\ posts \in [Delivery -> Nat] /\ Works(s)
    BY DEF TypeInv, TypeOK, SenderState, Post, Works
  <1>2. \E l \in {"complete", "failed"} :
           /\ sender' = [sender EXCEPT ![s].pc = l]
           /\ received' \in {received, received \cup {sender[s].delivery}}
           /\ l = "complete" => received' = received \cup {sender[s].delivery}
    BY DEF Post
  <1>3. posts' = [posts EXCEPT ![sender[s].delivery] = @ + 1]
    BY DEF Post
  <1>4. /\ \A t \in Sender : t # s => sender'[t] = sender[t]
        /\ sender' \in [Sender -> SenderState]
        /\ sender'[s].delivery = sender[s].delivery
        /\ sender'[s].attempts = sender[s].attempts
        /\ sender'[s].active = sender[s].active
        /\ sender'[s].pc \in {"complete", "failed"}
        /\ received' \in {received, received \cup {sender[s].delivery}}
        /\ sender'[s].pc = "complete" => sender[s].delivery \in received'
    BY <1>1, <1>2 DEF SenderState
  <1>5. QED
    BY <1>1, <1>3, <1>4 DEF Post, Works

\* A claim gives its sender the delivery at its next attempt.
LEMMA ClaimEffect ==
    ASSUME TypeInv, NEW s \in Sender, NEW d \in Delivery, ClaimDelivery(s, d)
    PROVE  /\ sender' \in [Sender -> SenderState] /\ row' \in [Delivery -> Row]
           /\ ~Works(s) /\ Claimable(d) /\ Works(s)'
           /\ \A t \in Sender : t # s => sender'[t] = sender[t]
           /\ \A e \in Delivery : e # d => row'[e] = row[e]
           /\ sender'[s].pc = "deliver" /\ sender'[s].delivery = d
           /\ sender'[s].active = (hooks[d[1]] = "active")
           /\ row'[d].status = "running" /\ row'[d].leased
           /\ row'[d].attempts = sender'[s].attempts
           /\ row'[d].attempts = row[d].attempts + 1
           /\ UNCHANGED <<hooks, client, published, received, posts, faults, retries>>
  <1>1. /\ sender \in [Sender -> SenderState] /\ row \in [Delivery -> Row]
        /\ row[d].attempts + 1 \in Nat
    BY DEF TypeInv, TypeOK, SenderState, Row
  <1> DEFINE r == [status |-> "running", leased |-> TRUE, attempts |-> row[d].attempts + 1]
             q == [pc |-> "deliver", delivery |-> d, attempts |-> row[d].attempts + 1,
                   active |-> hooks[d[1]] = "active"]
  <1>2. r \in Row /\ q \in SenderState
    BY <1>1 DEF Row, SenderState
  <1>3. row' = [row EXCEPT ![d] = r] /\ sender' = [sender EXCEPT ![s] = q]
    BY DEF ClaimDelivery
  <1>4. /\ sender' \in [Sender -> SenderState] /\ row' \in [Delivery -> Row]
        /\ row'[d] = r /\ sender'[s] = q
        /\ \A t \in Sender : t # s => sender'[t] = sender[t]
        /\ \A e \in Delivery : e # d => row'[e] = row[e]
    BY <1>1, <1>2, <1>3
  <1>5. QED
    BY <1>4 DEF ClaimDelivery, Works

\* A sender that dies leaves its delivery alone.
LEMMA DieEffect ==
    ASSUME TypeInv, NEW s \in Sender, Die(s)
    PROVE  /\ sender' \in [Sender -> SenderState] /\ faults' \in 0..MaxFaults
           /\ ~Works(s)' /\ \A t \in Sender : t # s => sender'[t] = sender[t]
           /\ UNCHANGED <<hooks, client, published, row, received, posts, retries>>
  <1>1. sender \in [Sender -> SenderState] /\ Idle \in SenderState /\ Idle.pc = "idle"
    BY DEF TypeInv, TypeOK, SenderState, Idle
  <1>2. QED
    BY <1>1, WebhookAssumption DEF Die, Works, TypeInv, TypeOK

-----------------------------------------------------------------------------
(* The other steps.                                                        *)

\* The end of a lease, and a retry by the administrator.
LEMMA RowEffect ==
    ASSUME TypeInv, NEW d \in Delivery, LeaseExpires(d) \/ RetryDeadDelivery(d)
    PROVE  /\ row' \in [Delivery -> Row]
           /\ \A e \in Delivery : e # d => row'[e] = row[e]
           /\ UNCHANGED <<hooks, client, published, sender, received, faults>>
           /\ \/ /\ row[d].status = "running" /\ row'[d].status = "running"
                 /\ LateSenders \/ \A s \in Sender : ~Holds(s, d)
                 /\ UNCHANGED <<posts, retries>>
                 /\ row[d].leased /\ row' = [row EXCEPT ![d].leased = FALSE]
              \/ /\ row[d].status = "dead" /\ row'[d] = NewRow
                 /\ posts' \in [Delivery -> Nat] /\ retries' \in 0..MaxRetries
  <1>1. row \in [Delivery -> Row] /\ row[d] \in Row /\ posts \in [Delivery -> Nat]
        /\ retries \in 0..MaxRetries
    BY DEF TypeInv, TypeOK
  <1>2. CASE LeaseExpires(d)
    <2>1. [row[d] EXCEPT !.leased = FALSE] \in Row
      BY <1>1 DEF Row
    <2>2. row' = [row EXCEPT ![d] = [row[d] EXCEPT !.leased = FALSE]]
      BY <1>1, <1>2 DEF LeaseExpires
    <2>3. row'[d].status = "running"
      BY <1>1, <1>2, <2>2 DEF LeaseExpires, Row
    <2>4. QED
      BY <1>1, <1>2, <2>1, <2>2, <2>3 DEF LeaseExpires
  <1>3. CASE RetryDeadDelivery(d)
    <2>1. NewRow \in Row
      BY DEF NewRow, Row
    <2>2. QED
      BY <1>1, <1>3, <2>1, WebhookAssumption DEF RetryDeadDelivery
  <1>4. QED
    BY <1>2, <1>3

\* The subscriptions and the publication.
LEMMA TableEffect ==
    ASSUME TypeInv,
           \/ \E c \in Client : CheckLimit(c) \/ \E h \in Hook : CreateWebhook(c, h)
           \/ \E h \in Hook : DeleteWebhook(h) \/ Deactivate(h)
           \/ \E e \in Event : Publish(e)
           \/ UNCHANGED vars
    PROVE  /\ hooks' \in [Hook -> HookStatus]
           /\ client' \in [Client -> {"idle", "checked"}]
           /\ published' \in SUBSET Event
           /\ row' \in [Delivery -> Row]
           /\ UNCHANGED <<sender, received, posts, faults, retries>>
  <1> USE DEF queueVars
  <1>1. /\ hooks \in [Hook -> HookStatus] /\ client \in [Client -> {"idle", "checked"}]
        /\ published \in SUBSET Event /\ row \in [Delivery -> Row]
        /\ NoRow \in Row /\ NewRow \in Row
    BY DEF TypeInv, TypeOK, NoRow, NewRow, Row
  <1>2. CASE \E c \in Client : CheckLimit(c) \/ \E h \in Hook : CreateWebhook(c, h)
    BY <1>1, <1>2 DEF CheckLimit, CreateWebhook, HookStatus
  <1>3. CASE \E h \in Hook : DeleteWebhook(h) \/ Deactivate(h)
    BY <1>1, <1>3 DEF DeleteWebhook, Deactivate, HookStatus
  <1>4. CASE \E e \in Event : Publish(e)
    BY <1>1, <1>4 DEF Publish
  <1>5. CASE UNCHANGED vars
    BY <1>1, <1>5 DEF vars
  <1>6. QED
    BY <1>2, <1>3, <1>4, <1>5

-----------------------------------------------------------------------------
(* Type correctness.                                                       *)

\* Every step keeps the types.
LEMMA NextType ==
    ASSUME TypeInv, [Next]_vars
    PROVE  TypeInv'
  <1> USE DEF SenderState
  <1>1. ASSUME NEW s \in Sender, NEW st \in {"delivered", "dead", "queued"}, Records(s, st)
        PROVE  TypeInv'
    BY <1>1, RecordEffect DEF TypeInv, TypeOK, Records, Works
  <1>2. ASSUME NEW s \in Sender, Post(s)
        PROVE  TypeInv'
    BY <1>2, PostEffect DEF TypeInv, TypeOK, Works
  <1>3. ASSUME NEW s \in Sender, NEW d \in Delivery, ClaimDelivery(s, d)
        PROVE  TypeInv'
    BY <1>3, ClaimEffect DEF TypeInv, TypeOK, Works
  <1>4. ASSUME NEW s \in Sender, Die(s)
        PROVE  TypeInv'
    BY <1>4, DieEffect DEF TypeInv, TypeOK, Works
  <1>5. ASSUME NEW d \in Delivery, LeaseExpires(d) \/ RetryDeadDelivery(d)
        PROVE  TypeInv'
    BY <1>5, RowEffect DEF TypeInv, TypeOK, Works
  <1>6. CASE \/ \E c \in Client : CheckLimit(c) \/ \E h \in Hook : CreateWebhook(c, h)
             \/ \E h \in Hook : DeleteWebhook(h) \/ Deactivate(h)
             \/ \E e \in Event : Publish(e)
             \/ UNCHANGED vars
    BY <1>6, TableEffect DEF TypeInv, TypeOK, Works
  <1>7. QED
    BY <1>1, <1>2, <1>3, <1>4, <1>5, <1>6, RecordShape DEF Next, Step

\* The types hold of the empty tables.
LEMMA InitType == Init => TypeInv
  BY WebhookAssumption DEF Init, TypeInv, TypeOK, HookStatus, Row, NoRow, Idle, Works

\* Every variable is well typed in every reachable state.
LEMMA TypeInvariant == Spec => []TypeInv
  <1>1. TypeInv /\ [Next]_vars => TypeInv'
    BY NextType
  <1>2. QED
    BY <1>1, InitType, PTL DEF Spec

\* Every variable keeps its type: a row has a status of webhook_deliveries, and
\* only deliveries are received.
THEOREM WebhooksTypeCorrect == Spec => []TypeOK
  <1>1. TypeInv => TypeOK
    BY DEF TypeInv
  <1>2. QED
    BY <1>1, TypeInvariant, PTL

-----------------------------------------------------------------------------
(* The tables, in every execution.                                         *)

\* A delivery is for a subscription and an event.
LEMMA DeliveryParts ==
    ASSUME NEW d \in Delivery
    PROVE  d[1] \in Hook /\ d[2] \in Event
  BY DEF Delivery

\* What subscriptions and publication do: to the subscriptions of rows that
\* are there, to those of senders, and to the rows.
TableStep(d) ==
    \/ row'[d] = row[d] /\ hooks'[d[1]] = hooks[d[1]]
    \/ hooks[d[1]] = "none" /\ hooks'[d[1]] = "active" /\ row'[d] = row[d]
    \/ /\ hooks[d[1]] \in {"active", "inactive"} /\ hooks'[d[1]] = "deleted"
       /\ row'[d] = NoRow
    \/ hooks[d[1]] = "active" /\ hooks'[d[1]] = "inactive" /\ row'[d] = row[d]
    \/ /\ hooks[d[1]] = "active" /\ hooks'[d[1]] = "active"
       /\ d[2] \notin published /\ d[2] \in published' /\ row'[d] = NewRow

\* What clients, operators and publications may do to a delivery.
LEMMA TableSteps ==
    ASSUME TypeInv,
           \/ \E c \in Client : CheckLimit(c) \/ \E h \in Hook : CreateWebhook(c, h)
           \/ \E h \in Hook : DeleteWebhook(h) \/ Deactivate(h)
           \/ \E e \in Event : Publish(e)
           \/ UNCHANGED vars,
           NEW d \in Delivery
    PROVE  published \subseteq published' /\ TableStep(d)
  <1> USE DEF queueVars
  <1>1. d[1] \in Hook /\ hooks \in [Hook -> HookStatus]
    BY DeliveryParts DEF TypeInv, TypeOK
  <1>2. CASE \E c \in Client : CheckLimit(c)
    BY <1>2 DEF CheckLimit, TableStep
  <1>3. ASSUME NEW c \in Client, NEW h \in Hook, CreateWebhook(c, h)
        PROVE  published \subseteq published' /\ TableStep(d)
    BY <1>1, <1>3 DEF CreateWebhook, TableStep
  <1>4. ASSUME NEW h \in Hook, DeleteWebhook(h)
        PROVE  published \subseteq published' /\ TableStep(d)
    BY <1>1, <1>4 DEF DeleteWebhook, Listed, TableStep
  <1>5. ASSUME NEW h \in Hook, Deactivate(h)
        PROVE  published \subseteq published' /\ TableStep(d)
    BY <1>1, <1>5 DEF Deactivate, TableStep
  <1>6. ASSUME NEW e \in Event, Publish(e)
        PROVE  published \subseteq published' /\ TableStep(d)
    BY <1>1, <1>6 DEF Publish, TableStep
  <1>7. CASE UNCHANGED vars
    BY <1>7 DEF vars, TableStep
  <1>8. QED
    BY <1>2, <1>3, <1>4, <1>5, <1>6, <1>7

\* Every step keeps the invariant of the tables.
LEMMA NextTable ==
    ASSUME TypeInv, TableInv, [Next]_vars
    PROVE  TableInv'
  <1>0. /\ \A d \in Delivery : RowOf(d)
        /\ \A s \in Sender : SenderOf(s)
        /\ \A d \in Delivery : row[d].status = "delivered" => d \in received
    BY DEF TableInv, DeliveredWasReceived
  <1>1. ASSUME NEW s \in Sender, NEW st \in {"delivered", "dead", "queued"}, Records(s, st)
        PROVE  TableInv'
    <2>1. /\ UNCHANGED <<hooks, published, received>> /\ Works(s)
          /\ st = "delivered" => sender[s].pc = "complete"
      BY <1>1 DEF Records
    <2>2. sender[s].delivery \in Delivery /\ SenderOf(s)
      BY <1>0, <1>1, RecordEffect
    <2> DEFINE c == sender[s].delivery
               r == [status |-> st, leased |-> FALSE, attempts |-> row[c].attempts]
    <2>3. row'[c] = IF row[c].status = "none" THEN NoRow ELSE r
      BY <1>1, RecordEffect
    <2>4. \A d \in Delivery : RowOf(d)'
      <3>1. ASSUME NEW d \in Delivery, d # c
            PROVE  RowOf(d)'
        BY <1>0, <1>1, <2>1, <3>1, RecordEffect DEF RowOf
      <3>2. ASSUME NEW d \in Delivery, d = c
            PROVE  RowOf(d)'
        <4>1. RowOf(d) /\ r.status # "none" /\ NoRow.status = "none"
          BY <1>0 DEF NoRow
        <4>2. QED
          BY <2>1, <2>3, <3>2, <4>1 DEF RowOf
      <3>3. QED
        BY <3>1, <3>2
    <2>5. \A t \in Sender : SenderOf(t)'
      BY <1>0, <1>1, <2>1, RecordEffect DEF SenderOf, Works
    <2>6. \A d \in Delivery : row'[d].status = "delivered" => d \in received
      <3>1. \A d \in Delivery : d # sender[s].delivery => row'[d] = row[d]
        BY <1>1, RecordEffect
      <3>2. row'[c].status = "delivered" => st = "delivered"
        <4>1. r.status = st /\ NoRow.status = "none"
          BY DEF NoRow
        <4>2. QED
          BY <2>3, <4>1
      <3>3. QED
        BY <1>0, <2>1, <2>2, <3>1, <3>2 DEF SenderOf
    <2>7. QED
      BY <2>1, <2>4, <2>5, <2>6 DEF TableInv, DeliveredWasReceived
  <1>2. ASSUME NEW s \in Sender, Post(s)
        PROVE  TableInv'
    <2>1. UNCHANGED <<hooks, published, row>> /\ received \subseteq received'
      BY <1>2, PostEffect
    <2>2. \A t \in Sender : SenderOf(t)'
      BY <1>0, <1>2, <2>1, PostEffect DEF SenderOf, Works
    <2>3. QED
      BY <1>0, <2>1, <2>2 DEF TableInv, DeliveredWasReceived, RowOf
  <1>3. ASSUME NEW s \in Sender, NEW d \in Delivery, ClaimDelivery(s, d)
        PROVE  TableInv'
    <2>1. UNCHANGED <<hooks, published, received>> /\ row[d].status # "none"
      BY <1>3, ClaimEffect DEF Claimable
    <2>2. \A e \in Delivery : RowOf(e)'
      BY <1>0, <1>3, <2>1, ClaimEffect DEF RowOf
    <2>3. SenderOf(s)'
      BY <1>0, <1>3, <2>1, ClaimEffect DEF SenderOf, RowOf
    <2>4. \A t \in Sender : t # s => SenderOf(t)'
      BY <1>0, <1>3, <2>1, ClaimEffect DEF SenderOf, Works
    <2>5. \A e \in Delivery : row'[e].status = "delivered" => e \in received
      BY <1>0, <1>3, ClaimEffect
    <2>6. QED
      BY <2>1, <2>2, <2>3, <2>4, <2>5 DEF TableInv, DeliveredWasReceived
  <1>4. ASSUME NEW s \in Sender, Die(s)
        PROVE  TableInv'
    BY <1>0, <1>4, DieEffect DEF TableInv, DeliveredWasReceived, RowOf, SenderOf, Works
  <1>5. ASSUME NEW d \in Delivery, LeaseExpires(d) \/ RetryDeadDelivery(d)
        PROVE  TableInv'
    <2>1. /\ UNCHANGED <<hooks, published, sender, received>>
          /\ \A e \in Delivery : e # d => row'[e] = row[e]
          /\ row[d].status # "none" /\ row'[d].status \in {"running", "queued"}
      BY <1>5, RowEffect DEF NewRow
    <2>2. QED
      BY <1>0, <2>1 DEF TableInv, DeliveredWasReceived, RowOf, SenderOf, Works
  <1>6. CASE \/ \E c \in Client : CheckLimit(c) \/ \E h \in Hook : CreateWebhook(c, h)
             \/ \E h \in Hook : DeleteWebhook(h) \/ Deactivate(h)
             \/ \E e \in Event : Publish(e)
             \/ UNCHANGED vars
    <2>1. UNCHANGED <<sender, received>>
      BY <1>6, TableEffect
    <2>2. ASSUME NEW d \in Delivery
          PROVE  RowOf(d)' /\ (row'[d].status = "delivered" => d \in received)
      <3>1. published \subseteq published' /\ TableStep(d)
        BY <1>6, TableSteps
      <3>2. RowOf(d)'
        BY <1>0, <3>1 DEF RowOf, TableStep, NoRow, NewRow
      <3>3. QED
        BY <1>0, <3>1, <3>2 DEF TableStep, NoRow, NewRow
    <2>3. ASSUME NEW s \in Sender
          PROVE  SenderOf(s)'
      <3>1. CASE Works(s)
        <4>1. sender[s].delivery \in Delivery
          BY <3>1 DEF TypeInv
        <4>2. TableStep(sender[s].delivery)
          BY <1>6, <4>1, TableSteps
        <4>3. QED
          BY <1>0, <2>1, <3>1, <4>2 DEF TableStep, SenderOf, Works
      <3>2. QED
        BY <2>1, <3>1 DEF SenderOf, Works
    <2>4. QED
      BY <2>1, <2>2, <2>3 DEF TableInv, DeliveredWasReceived
  <1>7. QED
    BY <1>1, <1>2, <1>3, <1>4, <1>5, <1>6, RecordShape DEF Next, Step

\* The invariant of the tables holds in every reachable state.
LEMMA TableInvariant == Spec => []TableInv
  <1>1. Init => TableInv
    BY DEF Init, TableInv, RowOf, SenderOf, Works, Idle, NoRow, DeliveredWasReceived
  <1>2. TypeInv /\ TableInv /\ [Next]_vars => TableInv'
    BY NextTable
  <1>3. QED
    BY <1>1, <1>2, TypeInvariant, PTL DEF Spec

\* Late senders included, complete_delivery only marks deliveries that their
\* target answered with a 2xx.
THEOREM DeliveredWasReceivedHolds == Spec => []DeliveredWasReceived
  <1>1. TableInv => DeliveredWasReceived
    BY DEF TableInv
  <1>2. QED
    BY <1>1, TableInvariant, PTL

-----------------------------------------------------------------------------
(* The leases, while no sender outlives its own.                           *)

\* While leases outlast senders, every step keeps a working sender's lease.
LEMMA NextTimely ==
    ASSUME ~LateSenders, TypeInv, TableInv, TimelyInv, [Next]_vars
    PROVE  TimelyInv'
  <1>0. /\ \A d \in Delivery : RowOf(d)
        /\ \A s \in Sender : SenderOf(s) /\ Leased(s)
        /\ \A s \in Sender : Works(s) => sender[s].delivery \in Delivery
        /\ \A s, t \in Sender : s # t /\ Works(s) /\ Works(t)
                                => sender[s].delivery # sender[t].delivery
        /\ \A d \in Delivery : row[d].status = "dead" /\ hooks[d[1]] = "active" =>
                                  row[d].attempts >= MaxAttempts
    BY DEF TypeInv, TableInv, TimelyInv, OneSender, DeadWasTried, Works
  <1>1. ASSUME NEW s \in Sender, NEW st \in {"delivered", "dead", "queued"}, Records(s, st)
        PROVE  TimelyInv'
    <2> DEFINE c == sender[s].delivery
               r == [status |-> st, leased |-> FALSE, attempts |-> row[c].attempts]
    <2>1. /\ UNCHANGED hooks /\ Works(s) /\ c \in Delivery /\ ~Works(s)'
          /\ \A t \in Sender : t # s => sender'[t] = sender[t]
          /\ \A d \in Delivery : d # c => row'[d] = row[d]
          /\ row'[c] = IF row[c].status = "none" THEN NoRow ELSE r
          /\ st = "dead" => ~sender[s].active \/ sender[s].attempts >= MaxAttempts
      BY <1>1, RecordEffect DEF Records
    <2>2. \A t \in Sender : Leased(t)'
      BY <1>0, <2>1 DEF Leased, Works
    <2>3. OneSender'
      BY <1>0, <2>1 DEF OneSender, Works
    <2>4. DeadWasTried'
      <3>1. SenderOf(s) /\ Leased(s)
        BY <1>0
      <3>2. r.status = st /\ r.attempts = row[c].attempts /\ NoRow.status = "none"
        BY DEF NoRow
      <3>3. row'[c].status = "dead" /\ hooks[c[1]] = "active" =>
               row'[c].attempts >= MaxAttempts
        BY <2>1, <3>1, <3>2 DEF SenderOf, Leased
      <3>4. QED
        BY <1>0, <2>1, <3>3 DEF DeadWasTried
    <2>5. QED
      BY <2>2, <2>3, <2>4 DEF TimelyInv
  <1>2. ASSUME NEW s \in Sender, Post(s)
        PROVE  TimelyInv'
    <2>1. /\ UNCHANGED <<hooks, row>> /\ Works(s)
          /\ \A t \in Sender : t # s => sender'[t] = sender[t]
          /\ sender'[s].delivery = sender[s].delivery
          /\ sender'[s].attempts = sender[s].attempts
      BY <1>2, PostEffect
    <2>2. QED
      BY <1>0, <2>1 DEF TimelyInv, Leased, OneSender, DeadWasTried, Works
  <1>3. ASSUME NEW s \in Sender, NEW d \in Delivery, ClaimDelivery(s, d)
        PROVE  TimelyInv'
    <2>1. /\ UNCHANGED hooks /\ Claimable(d)
          /\ \A t \in Sender : t # s => sender'[t] = sender[t]
          /\ \A e \in Delivery : e # d => row'[e] = row[e]
          /\ sender'[s].delivery = d
          /\ row'[d].status = "running" /\ row'[d].leased
          /\ row'[d].attempts = sender'[s].attempts
      BY <1>3, ClaimEffect
    \* Nobody works on what is claimable.
    <2>2. \A t \in Sender : Works(t) => sender[t].delivery # d
      BY <1>0, <2>1 DEF Claimable, Leased
    <2>3. \A t \in Sender : Leased(t)'
      BY <1>0, <2>1, <2>2 DEF Leased, Works
    <2>4. OneSender'
      BY <1>0, <2>1, <2>2 DEF OneSender, Works
    <2>5. DeadWasTried'
      BY <1>0, <2>1 DEF DeadWasTried
    <2>6. QED
      BY <2>3, <2>4, <2>5 DEF TimelyInv
  <1>4. ASSUME NEW s \in Sender, Die(s)
        PROVE  TimelyInv'
    BY <1>0, <1>4, DieEffect DEF TimelyInv, Leased, OneSender, DeadWasTried, Works
  <1>5. ASSUME NEW d \in Delivery, LeaseExpires(d) \/ RetryDeadDelivery(d)
        PROVE  TimelyInv'
    <2>1. /\ UNCHANGED <<hooks, sender>>
          /\ \A e \in Delivery : e # d => row'[e] = row[e]
          /\ row'[d].status \in {"running", "queued"}
          /\ \/ row[d].status = "dead"
             \/ row[d].status = "running" /\ \A s \in Sender : ~Holds(s, d)
      BY <1>5, RowEffect DEF NewRow
    <2>2. \A s \in Sender : Works(s) => sender[s].delivery # d
      BY <1>0, <2>1 DEF Holds, Works, Leased
    <2>3. \A s \in Sender : Leased(s)'
      BY <1>0, <2>1, <2>2 DEF Leased, Works
    <2>4. QED
      BY <1>0, <2>1, <2>3 DEF TimelyInv, OneSender, DeadWasTried, Works
  <1>6. CASE \/ \E c \in Client : CheckLimit(c) \/ \E h \in Hook : CreateWebhook(c, h)
             \/ \E h \in Hook : DeleteWebhook(h) \/ Deactivate(h)
             \/ \E e \in Event : Publish(e)
             \/ UNCHANGED vars
    <2>1. UNCHANGED sender
      BY <1>6, TableEffect
    <2>2. \A d \in Delivery : TableStep(d)
      BY <1>6, TableSteps
    <2>3. ASSUME NEW s \in Sender
          PROVE  Leased(s)'
      <3>1. CASE Works(s)
        <4>1. /\ sender[s].delivery \in Delivery /\ SenderOf(s) /\ Leased(s)
              /\ RowOf(sender[s].delivery) /\ TableStep(sender[s].delivery)
          BY <1>0, <2>2, <3>1
        <4>2. QED
          BY <2>1, <3>1, <4>1 DEF TableStep, SenderOf, Leased, RowOf, NoRow, Works
      <3>2. QED
        BY <2>1, <3>1 DEF Leased, Works
    <2>4. OneSender'
      BY <1>0, <2>1 DEF OneSender, Works
    <2>5. DeadWasTried'
      BY <1>0, <2>2 DEF DeadWasTried, TableStep, RowOf, NoRow, NewRow
    <2>6. QED
      BY <2>3, <2>4, <2>5 DEF TimelyInv
  <1>7. QED
    BY <1>1, <1>2, <1>3, <1>4, <1>5, <1>6, RecordShape DEF Next, Step

\* While leases outlast senders, a working sender has its lease in every
\* reachable state.
LEMMA TimelyInvariant ==
    ASSUME ~LateSenders
    PROVE  Spec => []TimelyInv
  <1>1. Init => TimelyInv
    BY DEF Init, TimelyInv, Leased, Works, Idle, NoRow, OneSender, DeadWasTried
  <1>2. TypeInv /\ TableInv /\ TimelyInv /\ [Next]_vars => TimelyInv'
    BY NextTimely
  <1>3. QED
    BY <1>1, <1>2, TypeInvariant, TableInvariant, PTL DEF Spec

\* While no sender outlives its lease, no two senders, of whatever processes,
\* post the same delivery at once.
THEOREM OneSenderHolds ==
    ASSUME ~LateSenders
    PROVE  Spec => []OneSender
  <1>1. TimelyInv => OneSender
    BY DEF TimelyInv
  <1>2. QED
    BY <1>1, TimelyInvariant, PTL

\* While no sender outlives its lease, deliver buries the delivery of an
\* active subscription only after MAX_DELIVERY_ATTEMPTS.
THEOREM DeadWasTriedHolds ==
    ASSUME ~LateSenders
    PROVE  Spec => []DeadWasTried
  <1>1. TimelyInv => DeadWasTried
    BY DEF TimelyInv
  <1>2. QED
    BY <1>1, TimelyInvariant, PTL

\* One step does not take a delivered notification back.
LEMMA StepFinal ==
    ASSUME TypeInv, TableInv, TimelyInv, [Next]_vars, NEW d \in Delivery,
           row[d].status = "delivered"
    PROVE  row'[d].status \in {"delivered", "none"}
  <1>0. /\ RowOf(d) /\ \A s \in Sender : Leased(s)
    BY DEF TableInv, TimelyInv
  <1>1. ASSUME NEW s \in Sender, NEW st \in {"delivered", "dead", "queued"}, Records(s, st)
        PROVE  row'[d].status \in {"delivered", "none"}
    <2>1. /\ Works(s) /\ Leased(s)
          /\ \A e \in Delivery : e # sender[s].delivery => row'[e] = row[e]
      BY <1>0, <1>1, RecordEffect DEF Records
    <2>2. d # sender[s].delivery
      BY <2>1 DEF Leased
    <2>3. QED
      BY <2>1, <2>2
  <1>2. ASSUME NEW s \in Sender, Post(s) \/ Die(s)
        PROVE  row'[d].status \in {"delivered", "none"}
    BY <1>2 DEF Post, Die
  <1>3. ASSUME NEW s \in Sender, NEW e \in Delivery, ClaimDelivery(s, e)
        PROVE  row'[d].status \in {"delivered", "none"}
    BY <1>3, ClaimEffect DEF Claimable
  <1>4. ASSUME NEW e \in Delivery, LeaseExpires(e) \/ RetryDeadDelivery(e)
        PROVE  row'[d].status \in {"delivered", "none"}
    BY <1>4, RowEffect
  <1>5. CASE \/ \E c \in Client : CheckLimit(c) \/ \E h \in Hook : CreateWebhook(c, h)
             \/ \E h \in Hook : DeleteWebhook(h) \/ Deactivate(h)
             \/ \E e \in Event : Publish(e)
             \/ UNCHANGED vars
    <2>1. TableStep(d)
      BY <1>5, TableSteps
    <2>2. QED
      BY <1>0, <2>1 DEF TableStep, RowOf, NoRow
  <1>6. QED
    BY <1>1, <1>2, <1>3, <1>4, <1>5, RecordShape DEF Next, Step

\* While no sender outlives its lease, a delivered notification is not queued,
\* sent or buried again, by a sender, the administrator or a publication.
THEOREM DeliveredIsFinalHolds ==
    ASSUME ~LateSenders
    PROVE  Spec => DeliveredIsFinal
  <1>1. TypeInv /\ TableInv /\ TimelyInv /\ [Next]_vars =>
           [\A d \in Delivery : row[d].status = "delivered" =>
               row'[d].status \in {"delivered", "none"}]_vars
    BY StepFinal
  <1>2. QED
    BY <1>1, TypeInvariant, TableInvariant, TimelyInvariant, PTL DEF Spec, DeliveredIsFinal

-----------------------------------------------------------------------------
(* The in-memory store.                                                    *)

\* Each step is an operation of the in-memory store, or none.
LEMMA StepInMemory ==
    ASSUME TypeInv, TableInv, [Next]_vars
    PROVE  Memory!Next \/ UNCHANGED <<hooks, published, row>>
  <1> USE DEF queueVars
  <1>0. \A d \in Delivery : RowOf(d)
    BY DEF TableInv
  <1>9. Memory!Delivery = Delivery /\ Memory!NoRow = NoRow
    BY DEF Memory!Delivery, Delivery, Memory!NoRow, NoRow, Memory!StoredDelivery
  <1>1. ASSUME NEW s \in Sender, NEW st \in {"delivered", "dead", "queued"}, Records(s, st)
        PROVE  Memory!Next \/ UNCHANGED <<hooks, published, row>>
    <2> DEFINE c == sender[s].delivery
    <2>1. /\ c \in Delivery /\ UNCHANGED <<hooks, published>>
          /\ row' = [row EXCEPT ![c] =
                       IF row[c].status = "none" THEN NoRow
                       ELSE [status |-> st, leased |-> FALSE, attempts |-> row[c].attempts]]
      BY <1>1, RecordEffect DEF Records, Record
    <2>2. CASE row[c].status = "none"
      <3>1. row[c] = NoRow /\ row \in [Delivery -> Row]
        BY <1>0, <2>1, <2>2 DEF RowOf, TypeInv, TypeOK
      <3>2. row' = row
        BY <2>1, <2>2, <3>1
      <3>3. QED
        BY <2>1, <3>2
    <2>3. CASE row[c].status # "none"
      <3>1. Memory!SetDelivery(c, st)
        BY <2>1, <2>3 DEF Memory!SetDelivery, Memory!StoredDelivery
      <3>2. QED
        BY <1>9, <2>1, <3>1 DEF Memory!Next
    <2>4. QED
      BY <2>2, <2>3
  <1>2. ASSUME NEW s \in Sender, Post(s) \/ Die(s)
        PROVE  UNCHANGED <<hooks, published, row>>
    BY <1>2 DEF Post, Die
  <1>3. ASSUME NEW s \in Sender, NEW d \in Delivery, ClaimDelivery(s, d)
        PROVE  Memory!Next
    \* A row that is there is of a subscription that is listed.
    <2>1. hooks[d[1]] \in {"active", "inactive"}
      BY <1>0, <1>3 DEF ClaimDelivery, Claimable, RowOf
    <2>2. Memory!ClaimDelivery(d)
      BY <1>3, <2>1 DEF ClaimDelivery, Claimable, Memory!ClaimDelivery, Memory!StoredDelivery
    <2>3. QED
      BY <1>9, <2>2 DEF Memory!Next
  <1>4. ASSUME NEW d \in Delivery, LeaseExpires(d) \/ RetryDeadDelivery(d)
        PROVE  Memory!Next
    <2>1. Memory!LeasePasses(d) \/ Memory!RetryDeadDelivery(d)
      BY <1>4 DEF LeaseExpires, RetryDeadDelivery, Memory!LeasePasses,
                  Memory!RetryDeadDelivery, NewRow, Memory!StoredDelivery
    <2>2. QED
      BY <1>9, <2>1 DEF Memory!Next
  <1>5. ASSUME NEW h \in Hook, (\E c \in Client : CreateWebhook(c, h))
                                  \/ DeleteWebhook(h) \/ Deactivate(h)
        PROVE  Memory!Next
    <2>1. Memory!CreateWebhook(h) \/ Memory!DeleteWebhook(h) \/ Memory!Deactivate(h)
      BY <1>9, <1>5 DEF CreateWebhook, DeleteWebhook, Deactivate, Listed,
         Memory!CreateWebhook, Memory!DeleteWebhook, Memory!Deactivate
    <2>2. QED
      BY <2>1 DEF Memory!Next
  <1>6. ASSUME NEW e \in Event, Publish(e)
        PROVE  Memory!Next
    <2>1. Memory!Publish(e)
      <3>1. \A d \in Delivery :
               hooks[d[1]] = "active" /\ e \in Wants[d[1]] <=>
               d[1] \in {h \in Hook : hooks[h] = "active" /\ e \in Wants[h]}
        BY DeliveryParts
      <3>2. NewRow = Memory!StoredDelivery("queued", 0, FALSE)
        BY DEF NewRow, Memory!StoredDelivery
      <3>3. QED
        BY <1>9, <1>6, <3>1, <3>2 DEF Publish, Memory!Publish
    <2>2. QED
      BY <2>1 DEF Memory!Next
  <1>7. CASE (\E c \in Client : CheckLimit(c)) \/ UNCHANGED vars
    BY <1>7 DEF CheckLimit, vars
  <1>8. QED
    BY <1>1, <1>2, <1>3, <1>4, <1>5, <1>6, <1>7, RecordShape DEF Next, Step

\* Every execution, late senders included, is one of InMemoryStore: what the
\* tests of the use cases see of subscriptions and deliveries is what
\* PostgreSQL does.
THEOREM DeliveriesInMemory == Spec => DeliveriesAreInMemory
  <1>1. Init => Memory!Init
    BY DEF Init, Memory!Init, NoRow, Memory!NoRow, Memory!StoredDelivery, Delivery,
           Memory!Delivery
  <1>2. TypeInv /\ TableInv /\ [Next]_vars => [Memory!Next]_(Memory!store)
    BY StepInMemory DEF Memory!store
  <1>3. QED
    BY <1>1, <1>2, TypeInvariant, TableInvariant, PTL
       DEF Spec, DeliveriesAreInMemory, Memory!Spec

-----------------------------------------------------------------------------
(* The maximum of subscriptions.                                           *)

\* The cardinalities that the bound adds up are natural numbers.
LEMMA Counts ==
    ASSUME IsFiniteSet(Listed)
    PROVE  /\ Cardinality(Listed) \in Nat /\ Cardinality(Client) \in Nat
           /\ IsFiniteSet(Checked) /\ Cardinality(Checked) \in Nat
           /\ Cardinality(Checked) <= Cardinality(Client)
  BY FS_CardinalityType, FS_Subset, WebhookAssumption DEF Checked

\* Every step keeps the count of subscriptions within the room that the
\* clients past the comparison have.
LEMMA NextBound ==
    ASSUME TypeInv, BoundInv, [Next]_vars
    PROVE  BoundInv'
  <1> USE DEF queueVars
  <1>1. /\ IsFiniteSet(Listed) /\ MaxHooks \in Nat
        /\ hooks \in [Hook -> HookStatus] /\ client \in [Client -> {"idle", "checked"}]
    BY WebhookAssumption DEF BoundInv, TypeInv, TypeOK
  \* The comparison leaves room for one, and every other caller may be past it.
  <1>2. ASSUME NEW c \in Client, CheckLimit(c)
        PROVE  BoundInv'
    <2>1. Listed' = Listed /\ Cardinality(Listed) < MaxHooks
      BY <1>2 DEF CheckLimit, Listed
    <2>2. Checked' \subseteq Client
      BY DEF Checked
    <2>3. /\ Cardinality(Checked') \in Nat
          /\ Cardinality(Checked') <= Cardinality(Client)
      BY <2>2, FS_CardinalityType, FS_Subset, WebhookAssumption
    <2>4. QED
      BY <1>1, <2>1, <2>3, Counts DEF BoundInv
  \* The insertion uses up the room that its caller had.
  <1>3. ASSUME NEW c \in Client, NEW h \in Hook, CreateWebhook(c, h)
        PROVE  BoundInv'
    <2>1. Listed' = Listed \cup {h} /\ h \notin Listed
      BY <1>1, <1>3 DEF CreateWebhook, Listed
    <2>2. Checked' = Checked \ {c} /\ c \in Checked
      BY <1>1, <1>3 DEF CreateWebhook, Checked
    <2>3. IsFiniteSet(Listed') /\ Cardinality(Listed') = Cardinality(Listed) + 1
      BY <1>1, <2>1, FS_AddElement
    <2>4. Cardinality(Checked') = Cardinality(Checked) - 1
      BY <1>1, <2>2, Counts, FS_RemoveElement
    <2>5. QED
      BY <1>1, <2>3, <2>4, Counts DEF BoundInv
  <1>4. ASSUME Listed' \subseteq Listed, UNCHANGED client
        PROVE  BoundInv'
    <2>1. IsFiniteSet(Listed') /\ Cardinality(Listed') \in Nat
             /\ Cardinality(Listed') <= Cardinality(Listed)
      BY <1>1, <1>4, FS_Subset, FS_CardinalityType
    <2>2. Checked' = Checked
      BY <1>4 DEF Checked
    <2>3. QED
      BY <1>1, <2>1, <2>2, Counts DEF BoundInv
  <1>5. ASSUME NEW h \in Hook, DeleteWebhook(h) \/ Deactivate(h)
        PROVE  BoundInv'
    <2>1. Listed' \subseteq Listed /\ UNCHANGED client
      BY <1>1, <1>5 DEF DeleteWebhook, Deactivate, Listed
    <2>2. QED
      BY <1>4, <2>1
  <1>6. CASE \/ \E e \in Event : Publish(e)
             \/ \E s \in Sender : Step(s) \/ Die(s) \/ \E d \in Delivery : ClaimDelivery(s, d)
             \/ \E d \in Delivery : LeaseExpires(d) \/ RetryDeadDelivery(d)
             \/ UNCHANGED vars
    <2>1. UNCHANGED <<hooks, client>>
      BY <1>6 DEF Publish, Step, BuryInactive, Post, CompleteDelivery, RecordFailure, Die,
                  ClaimDelivery, LeaseExpires, RetryDeadDelivery, vars
    <2>2. QED
      BY <1>4, <2>1 DEF Listed
  <1>7. QED
    BY <1>2, <1>3, <1>5, <1>6 DEF Next

\* How far the maximum of subscriptions is exceeded: however the calls to
\* register interleave between list_webhooks and the INSERT, by fewer than
\* there are calls at once; so not at all when there is one.
THEOREM OvershootBounded ==
    Spec => [](Cardinality(Listed) <= MaxHooks + Cardinality(Client) - 1)
  <1>1. Init => BoundInv
    <2> SUFFICES ASSUME Init
                 PROVE  BoundInv
      OBVIOUS
    <2>1. Listed = {} /\ Checked = {}
      BY DEF Init, Listed, Checked
    <2>2. Cardinality(Client) \in Nat /\ MaxHooks \in Nat \ {0}
      BY FS_CardinalityType, WebhookAssumption
    <2>3. QED
      BY <2>1, <2>2, FS_EmptySet DEF BoundInv
  <1>2. TypeInv /\ BoundInv /\ [Next]_vars => BoundInv'
    BY NextBound
  <1>3. BoundInv => Cardinality(Listed) <= MaxHooks + Cardinality(Client) - 1
    BY Counts, WebhookAssumption DEF BoundInv
  <1>4. QED
    BY <1>1, <1>2, <1>3, TypeInvariant, PTL DEF Spec
=============================================================================
