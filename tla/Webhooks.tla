------------------------------ MODULE Webhooks ------------------------------
(***************************************************************************)
(* Webhooks: the subscriptions of a tenant (WebhookService) and the        *)
(* delivery queue (webhook_deliveries) that WebhookDispatcher serves in    *)
(* every worker process.                                                   *)
(*                                                                         *)
(* A notification is published inside the transaction of apply_transition  *)
(* (module Processing has that side); here it appears as one row for each  *)
(* subscription that wants it.  A delivery is posted by a sender, a task   *)
(* of run_once, whose steps are the claim, the POST and the UPDATE that    *)
(* records its outcome by delivery id.                                     *)
(***************************************************************************)
EXTENDS Integers, FiniteSets

CONSTANTS
    Hook,          \* subscriptions that may be registered
    Event,         \* notifications: an arrival of a document at a status
    Wants,         \* [Hook -> SUBSET Event]: event_type of each subscription
    Client,        \* concurrent calls to POST /api/v1/webhooks
    Sender,        \* delivery tasks under way at once
    MaxHooks,      \* MAX_WEBHOOKS_PER_TENANT
    MaxAttempts,   \* MAX_DELIVERY_ATTEMPTS
    LateSenders,   \* TRUE: a sender may still run when its lease expires
    NoDelivery,    \* what an idle sender holds
    MaxFaults,     \* bound: senders that die, or fail to record an outcome
    MaxRetries     \* bound: dead deliveries that the administrator requeues

Delivery == Hook \X Event

ASSUME WebhookAssumption ==
    /\ Wants \in [Hook -> SUBSET Event]
    /\ MaxHooks \in Nat \ {0} /\ MaxAttempts \in Nat \ {0}
    /\ IsFiniteSet(Client)
    /\ LateSenders \in BOOLEAN
    /\ NoDelivery \notin Delivery
    /\ MaxFaults \in Nat /\ MaxRetries \in Nat

VARIABLES
    hooks,       \* subscription_status of each subscription
    client,      \* where each call to register is
    published,   \* notifications that were published
    row,         \* webhook_deliveries
    sender,      \* where each sender is, and what claim gave it
    received,    \* deliveries that their target answered with a 2xx
    posts,       \* history: POSTs of each delivery since it was queued
    faults,      \* history: senders that died
    retries      \* history: deliveries requeued by the administrator

vars == <<hooks, client, published, row, sender, received, posts, faults, retries>>

-----------------------------------------------------------------------------
HookStatus == {"none", "active", "inactive", "deleted"}

\* "none": no row, not inserted yet or deleted with its subscription.
Row == [status : {"none", "queued", "running", "delivered", "dead"},
        attempts : Nat, leased : BOOLEAN]

NoRow  == [status |-> "none", attempts |-> 0, leased |-> FALSE]
NewRow == [status |-> "queued", attempts |-> 0, leased |-> FALSE]

Idle == [pc |-> "idle", delivery |-> NoDelivery, attempts |-> 0, active |-> FALSE]

TypeOK ==
    /\ hooks \in [Hook -> HookStatus]
    /\ client \in [Client -> {"idle", "checked"}]
    /\ published \subseteq Event
    /\ row \in [Delivery -> Row]
    /\ sender \in [Sender -> [pc : {"idle", "deliver", "complete", "failed"},
                              delivery : Delivery \cup {NoDelivery},
                              attempts : Nat, active : BOOLEAN]]
    /\ received \subseteq Delivery
    /\ posts \in [Delivery -> Nat]
    /\ faults \in 0..MaxFaults
    /\ retries \in 0..MaxRetries

Init ==
    /\ hooks = [h \in Hook |-> "none"]
    /\ client = [c \in Client |-> "idle"]
    /\ published = {}
    /\ row = [d \in Delivery |-> NoRow]
    /\ sender = [s \in Sender |-> Idle]
    /\ received = {}
    /\ posts = [d \in Delivery |-> 0]
    /\ faults = 0
    /\ retries = 0

-----------------------------------------------------------------------------
(* Subscriptions.                                                          *)

Listed == {h \in Hook : hooks[h] \in {"active", "inactive"}}

queueVars == <<published, row, sender, received, posts, faults, retries>>

\* register: list_webhooks and the comparison with the maximum ...
CheckLimit(c) ==
    /\ client[c] = "idle"
    /\ Cardinality(Listed) < MaxHooks
    /\ client' = [client EXCEPT ![c] = "checked"]
    /\ UNCHANGED <<hooks, queueVars>>

\* ... and create_webhook, in a statement of its own.
CreateWebhook(c, h) ==
    /\ client[c] = "checked"
    /\ hooks[h] = "none"
    /\ hooks' = [hooks EXCEPT ![h] = "active"]
    /\ client' = [client EXCEPT ![c] = "idle"]
    /\ UNCHANGED queueVars

\* delete_webhook: its deliveries are deleted with it (ON DELETE CASCADE).
DeleteWebhook(h) ==
    /\ h \in Listed
    /\ hooks' = [hooks EXCEPT ![h] = "deleted"]
    /\ row' = [d \in Delivery |-> IF d[1] = h THEN NoRow ELSE row[d]]
    /\ UNCHANGED <<client, published, sender, received, posts, faults, retries>>

\* A subscription is made inactive in the database (external).
Deactivate(h) ==
    /\ hooks[h] = "active"
    /\ hooks' = [hooks EXCEPT ![h] = "inactive"]
    /\ UNCHANGED <<client, queueVars>>

\* The INSERT ... SELECT of apply_transition.
Publish(e) ==
    /\ e \notin published
    /\ published' = published \cup {e}
    /\ row' = [d \in Delivery |->
                 IF d[2] = e /\ hooks[d[1]] = "active" /\ e \in Wants[d[1]]
                 THEN NewRow ELSE row[d]]
    /\ UNCHANGED <<hooks, client, sender, received, posts, faults, retries>>

-----------------------------------------------------------------------------
(* The dispatcher.                                                         *)

Holds(s, d) == sender[s].pc # "idle" /\ sender[s].delivery = d

\* Mutants of Claimable: the lease of a running delivery is not looked at; a
\* delivery left running by a dead sender is not claimed again.
ClaimableLeased(d) == row[d].status \in {"queued", "running"}

ClaimableQueued(d) == row[d].status = "queued"

\* The candidates of claim_deliveries: due, or with an expired lease.
Claimable(d) ==
    \/ row[d].status = "queued"
    \/ row[d].status = "running" /\ ~row[d].leased

\* claim_deliveries, one of the deliveries it returns.
ClaimDelivery(s, d) ==
    /\ sender[s].pc = "idle"
    /\ Claimable(d)
    /\ row' = [row EXCEPT ![d] = [status |-> "running", leased |-> TRUE,
                                  attempts |-> row[d].attempts + 1]]
    /\ sender' = [sender EXCEPT ![s] =
                    [pc |-> "deliver", delivery |-> d,
                     attempts |-> row[d].attempts + 1,
                     active |-> hooks[d[1]] = "active"]]
    /\ UNCHANGED <<hooks, client, published, received, posts, faults, retries>>

\* Mutant of Record: the outcome is written with INSERT ... ON CONFLICT UPDATE.
RecordUpserts(s, status) ==
    LET d == sender[s].delivery IN
    /\ row' = [row EXCEPT ![d] = [status |-> status, leased |-> FALSE,
                                  attempts |-> row[d].attempts]]
    /\ sender' = [sender EXCEPT ![s] = Idle]

\* UPDATE webhook_deliveries ... WHERE id = d, and the end of the task.  A
\* deleted row is not updated.
Record(s, status) ==
    LET d == sender[s].delivery IN
    /\ row' = [row EXCEPT ![d] =
                 IF row[d].status = "none" THEN NoRow
                 ELSE [status |-> status, leased |-> FALSE,
                       attempts |-> row[d].attempts]]
    /\ sender' = [sender EXCEPT ![s] = Idle]

\* deliver, its first branch: the subscription was inactive when claimed.
BuryInactive(s) ==
    /\ sender[s].pc = "deliver"
    /\ ~sender[s].active
    /\ Record(s, "dead")
    /\ UNCHANGED <<hooks, client, published, received, posts, faults, retries>>

\* Mutant of Post: any answer counts as delivered.
PostAnyCode(s) ==
    /\ sender[s].pc = "deliver"
    /\ sender[s].active
    /\ posts' = [posts EXCEPT ![sender[s].delivery] = @ + 1]
    /\ \/ received' = received \cup {sender[s].delivery}
       \/ UNCHANGED received
    /\ sender' = [sender EXCEPT ![s].pc = "complete"]
    /\ UNCHANGED <<hooks, client, published, row, faults, retries>>

\* deliver, the POST: a 2xx, or another code, a timeout or an error; after
\* an error the target may have received the delivery all the same.
Post(s) ==
    LET d == sender[s].delivery IN
    /\ sender[s].pc = "deliver"
    /\ sender[s].active
    /\ posts' = [posts EXCEPT ![d] = @ + 1]
    /\ \/ /\ received' = received \cup {d}
          /\ sender' = [sender EXCEPT ![s].pc = "complete"]
       \/ /\ received' \in {received, received \cup {d}}
          /\ sender' = [sender EXCEPT ![s].pc = "failed"]
    /\ UNCHANGED <<hooks, client, published, row, faults, retries>>

\* Mutant of CompleteDelivery: it writes a status of the jobs table.
CompleteDeliveryDone(s) ==
    /\ sender[s].pc = "complete"
    /\ Record(s, "done")
    /\ UNCHANGED <<hooks, client, published, received, posts, faults, retries>>

\* complete_delivery
CompleteDelivery(s) ==
    /\ sender[s].pc = "complete"
    /\ Record(s, "delivered")
    /\ UNCHANGED <<hooks, client, published, received, posts, faults, retries>>

\* Mutant of RecordFailure: the delivery is buried on its first failure.
RecordFailureBuries(s) ==
    /\ sender[s].pc = "failed"
    /\ Record(s, "dead")
    /\ UNCHANGED <<hooks, client, published, received, posts, faults, retries>>

\* The end of deliver: bury_delivery on the last attempt, else retry_delivery.
RecordFailure(s) ==
    /\ sender[s].pc = "failed"
    /\ Record(s, IF sender[s].attempts >= MaxAttempts THEN "dead" ELSE "queued")
    /\ UNCHANGED <<hooks, client, published, received, posts, faults, retries>>

\* The process dies, or the UPDATE of the outcome fails: the delivery waits
\* for its lease to expire.
Die(s) ==
    /\ sender[s].pc # "idle"
    /\ faults < MaxFaults
    /\ faults' = faults + 1
    /\ sender' = [sender EXCEPT ![s] = Idle]
    /\ UNCHANGED <<hooks, client, published, row, received, posts, retries>>

\* locked_until passes: the POST times out (10 s) well before the lease (60 s)
\* unless the process is paused (LateSenders).
LeaseExpires(d) ==
    /\ row[d].status = "running" /\ row[d].leased
    /\ LateSenders \/ \A s \in Sender : ~Holds(s, d)
    /\ row' = [row EXCEPT ![d].leased = FALSE]
    /\ UNCHANGED <<hooks, client, published, sender, received, posts, faults, retries>>

\* Mutant of RetryDeadDelivery: the delivery need not be dead.
RetryAnyDelivery(d) ==
    /\ row[d].status \notin {"none", "queued"}
    /\ retries < MaxRetries
    /\ retries' = retries + 1
    /\ row' = [row EXCEPT ![d] = NewRow]
    /\ posts' = [posts EXCEPT ![d] = 0]
    /\ UNCHANGED <<hooks, client, published, sender, received, faults>>

\* AdminService::retry_dead_delivery
RetryDeadDelivery(d) ==
    /\ row[d].status = "dead"
    /\ retries < MaxRetries
    /\ retries' = retries + 1
    /\ row' = [row EXCEPT ![d] = NewRow]
    /\ posts' = [posts EXCEPT ![d] = 0]
    /\ UNCHANGED <<hooks, client, published, sender, received, faults>>

Step(s) == BuryInactive(s) \/ Post(s) \/ CompleteDelivery(s) \/ RecordFailure(s)

Next ==
    \/ \E c \in Client : CheckLimit(c) \/ \E h \in Hook : CreateWebhook(c, h)
    \/ \E h \in Hook : DeleteWebhook(h) \/ Deactivate(h)
    \/ \E e \in Event : Publish(e)
    \/ \E s \in Sender : Step(s) \/ Die(s) \/ \E d \in Delivery : ClaimDelivery(s, d)
    \/ \E d \in Delivery : LeaseExpires(d) \/ RetryDeadDelivery(d)

Spec == Init /\ [][Next]_vars

\* webhook_loop keeps claiming, its tasks keep going, leases pass.
Fairness ==
    /\ \A s \in Sender : WF_vars(Step(s))
    /\ \A d \in Delivery :
          /\ WF_vars(\E s \in Sender : ClaimDelivery(s, d))
          /\ WF_vars(LeaseExpires(d))

-----------------------------------------------------------------------------
(* Properties.                                                             *)

\* A delivery marked as delivered was received: its target answered 2xx.
DeliveredWasReceived ==
    \A d \in Delivery : row[d].status = "delivered" => d \in received

\* While no sender outlives its lease, no delivery is posted by two senders at
\* the same time, in one process or in two.
OneSender ==
    \A s, t \in Sender :
       s # t /\ sender[s].pc # "idle" /\ sender[t].pc # "idle"
       => sender[s].delivery # sender[t].delivery

\* While no sender outlives its lease, a delivery is given up only after
\* MAX_DELIVERY_ATTEMPTS, or for a subscription that is inactive.
DeadWasTried ==
    \A d \in Delivery :
       row[d].status = "dead" /\ hooks[d[1]] = "active" =>
          row[d].attempts >= MaxAttempts

\* While no sender outlives its lease, a delivered notification stays so: it
\* is not queued, sent or buried again.
DeliveredIsFinal ==
    [][\A d \in Delivery :
          row[d].status = "delivered" => row'[d].status \in {"delivered", "none"}]_vars

\* Every notification published for a subscription is delivered or ends in
\* the dead-letter queue, unless the subscription is deleted.
DeliverySettles ==
    \A d \in Delivery :
       row[d].status = "queued" ~> row[d].status \in {"delivered", "dead", "none"}

\* The store of the use cases' tests, on the tables of this one.
Memory ==
    INSTANCE InMemoryWebhooks WITH
        hooks <- hooks, published <- published, row <- row

\* Every execution is one of the in-memory store: a delivery recorded after
\* its subscription was deleted changes nothing, and no deletion, publication
\* or claim that falls between two calls of a sender leaves rows that store
\* cannot have.
DeliveriesAreInMemory == Memory!Spec

(* What the README says of the program, and the program does not do.       *)

\* README, webhooks: a tenant has at most 10 subscriptions; the refusal of
\* register says the same.  It compares before it inserts, in another
\* statement, and nothing in the database counts again.
SubscriptionsBounded == Cardinality(Listed) <= MaxHooks

\* README, webhooks: a delivery that fails is retried up to 10 attempts, and
\* is dead after them.
AttemptsBounded == \A d \in Delivery : posts[d] <= MaxAttempts
=============================================================================
