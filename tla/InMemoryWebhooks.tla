-------------------------- MODULE InMemoryWebhooks --------------------------
(***************************************************************************)
(* The subscriptions and deliveries of InMemoryStore, the store that the   *)
(* tests of the use cases run on: one action for each operation, under its *)
(* mutex.  Webhooks, over the tables of PostgreSQL, is compared with it.   *)
(*                                                                         *)
(* locked_until is read of running deliveries only: leased is FALSE in     *)
(* every other status.                                                     *)
(***************************************************************************)
EXTENDS Integers

CONSTANTS Hook, Event, Wants

VARIABLES
    hooks,      \* webhooks: "none" before its creation, "deleted" after
    published,  \* transitions that had a notification
    row         \* deliveries: StoredDelivery of each, "none" when there is none

store == <<hooks, published, row>>

Delivery == Hook \X Event

StoredDelivery(s, a, l) == [status |-> s, attempts |-> a, leased |-> l]

NoRow == StoredDelivery("none", 0, FALSE)

Init ==
    /\ hooks = [h \in Hook |-> "none"]
    /\ published = {}
    /\ row = [d \in Delivery |-> NoRow]

CreateWebhook(h) ==
    /\ hooks[h] = "none"
    /\ hooks' = [hooks EXCEPT ![h] = "active"]
    /\ UNCHANGED <<published, row>>

\* delete_webhook, and retain of the deliveries of the others.
DeleteWebhook(h) ==
    /\ hooks[h] \in {"active", "inactive"}
    /\ hooks' = [hooks EXCEPT ![h] = "deleted"]
    /\ row' = [d \in Delivery |-> IF d[1] = h THEN NoRow ELSE row[d]]
    /\ UNCHANGED published

\* A subscription stored as inactive (external).
Deactivate(h) ==
    /\ hooks[h] = "active"
    /\ hooks' = [hooks EXCEPT ![h] = "inactive"]
    /\ UNCHANGED <<published, row>>

\* apply_transition, its targets.
Publish(e) ==
    LET targets == {h \in Hook : hooks[h] = "active" /\ e \in Wants[h]} IN
    /\ e \notin published
    /\ published' = published \cup {e}
    /\ row' = [d \in Delivery |-> IF d[2] = e /\ d[1] \in targets
                                  THEN StoredDelivery("queued", 0, FALSE) ELSE row[d]]
    /\ UNCHANGED hooks

\* claim_deliveries, on one of those it returns.
ClaimDelivery(d) ==
    /\ \/ row[d].status = "queued"
       \/ row[d].status = "running" /\ ~row[d].leased
    /\ hooks[d[1]] \in {"active", "inactive"}
    /\ row' = [row EXCEPT ![d] = StoredDelivery("running", row[d].attempts + 1, TRUE)]
    /\ UNCHANGED <<hooks, published>>

\* complete_, retry_ and bury_delivery, by id; NotFound when it was deleted.
SetDelivery(d, s) ==
    /\ row[d].status # "none"
    /\ row' = [row EXCEPT ![d] = StoredDelivery(s, row[d].attempts, FALSE)]
    /\ UNCHANGED <<hooks, published>>

RetryDeadDelivery(d) ==
    /\ row[d].status = "dead"
    /\ row' = [row EXCEPT ![d] = StoredDelivery("queued", 0, FALSE)]
    /\ UNCHANGED <<hooks, published>>

\* Time passes locked_until.
LeasePasses(d) ==
    /\ row[d].leased
    /\ row' = [row EXCEPT ![d].leased = FALSE]
    /\ UNCHANGED <<hooks, published>>

Next ==
    \/ \E h \in Hook : CreateWebhook(h) \/ DeleteWebhook(h) \/ Deactivate(h)
    \/ \E e \in Event : Publish(e)
    \/ \E d \in Delivery :
          \/ ClaimDelivery(d) \/ RetryDeadDelivery(d) \/ LeasePasses(d)
          \/ \E s \in {"delivered", "queued", "dead"} : SetDelivery(d, s)

Spec == Init /\ [][Next]_store
=============================================================================
