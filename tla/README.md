# Dian-Service in TLA+

Dian-Service issues Colombian electronic documents (invoices, notes, payroll,
support documents) for several tenants: it numbers them, signs them, sends them
to the tax authority's web service (the DIAN), follows them up and notifies the
tenants' systems. This directory holds a TLA+ specification of its core,
the TLC configurations that check it on small instances, and proofs that TLAPS
checks for every instance. Paths below are relative to the repository.

## 1. The system

Two programs share one PostgreSQL database, which is all the state that
survives a crash. Several instances of each may run.

| Component | Code | State | Operations |
|---|---|---|---|
| Issuing | `application/src/issue.rs`, `issue_outbound` in `infra-postgres/src/lib.rs` | `documents`, `idempotency_keys` | issue (with or without a key, number proposed or assigned) |
| Numbering | `core-domain/src/numbering.rs`, `register_numbering_range`, `add_numbering_range` | `numbering_ranges.current_counter` | register a resolution, take the next number |
| State machine | `core-domain/src/lifecycle.rs`, `apply_transition` | `documents.status`, `dian_events` | guarded transition with event, notification, job outcome and follow-up |
| Job queue | `infra-postgres/src/lib.rs` (`JobRepository`) | `jobs` | claim, complete, retry, release, bury, requeue contingency, retry a dead job |
| Processor | `application/src/processing.rs` | the task's memory; `signed_xml` | transmit, poll |
| Worker | `worker/src/main.rs` | semaphore, shutdown flag | claim loop, contingency reconciler, webhook loop, sampler |
| Circuit breaker | `application/src/resilience.rs` | in memory, one per process and environment | can_execute, record_success, record_failure |
| Webhooks | `application/src/webhooks.rs`, `core-domain/src/webhooks.rs` | `webhooks`, `webhook_deliveries` | register, delete, publish, claim, deliver, retry, bury |
| Administration | `application/src/admin.rs` | `tenants`, `api_keys`, `certificates`, `admin_audit_log` | create, revoke, activate, retry what is dead |
| Inbound, RADIAN | `application/src/inbound.rs`, `radian.rs` | inbound `documents`, their events | register a supplier's invoice, send an event |
| Signing | `crypto-signer/` | cache of signing identities | sign, verify |
| UBL engine, SOAP client, HTTP API, observability | `ubl-engine/`, `dian-soap-client/`, `api-server/`, `observability/` | none of their own | formatting, transport, routing, probes |

How they interact: the API inserts a document and its job in one transaction; a
worker claims the job under a lease, loads the document, asks the breaker,
signs, calls the DIAN and applies one guarded transaction that writes the new
status, the event, the notifications and the outcome of the job. The reconciler
and the administrator put documents back into the queue. The dispatcher serves
the deliveries that the guarded transactions left in the outbox.

What is hard, and where a test would hardly reach:

- **concurrency**: workers, the reconciler and the administrator act on the same
  document; requests with the same key or the same resolution run together;
  updates by job id are not fenced by the lease;
- **failure**: a task may die between any two calls, an answer or a request may
  be lost, or be late; a transaction may commit and its answer be lost;
- **time**: leases, retries, cooldowns, validity of resolutions;
- **staleness**: the document is read once and relied upon minutes later.

PROJECT.json lists each of these as a hazard, at its line, with the properties
that would catch it going wrong.

What makes each component correct: numbers without gaps or repetitions and one
document per key (issuing); at most one task per document, nothing forgotten,
nothing sent that is not stored (queue and processor); statuses that move along
the edges, an audit trail and an outbox that agree with them (state machine);
one probe at a time and always another one (breaker); every notification
delivered or dead, and not marked so wrongly (webhooks); one active certificate,
and a signature whose certificate and key belong together (administration and
signing); events only about invoices that the DIAN validated, and none made up
(inbound, RADIAN); totals that add up, numbers and codes that identify, and XML
read as the tree it is (UBL engine, XML).

## 2. Modules

| Module | Models |
|---|---|
| `Lifecycle` | the statuses, the edges, and the notification of each arrival (no state) |
| `DocumentLifecycle` | **abstract specification** of the document store |
| `Processing` | queue + processor + worker + reconciler + administrator + the DIAN (external); implements `DocumentLifecycle` |
| `CircuitBreaker` | the breaker and the tasks that share it |
| `Issuance` | `issue_outbound` statement by statement, and the resolutions |
| `Webhooks` | subscriptions and deliveries |
| `Tenancy` | tenants, API keys, audit log, authentication of a request |
| `Reception` | suppliers' invoices and RADIAN events; extends `Tenancy` and `Identifiers`: requests authenticate while administrators create and revoke |
| `Signing` | certificates of a tenant, the three providers, the cache, the two lookups of a signature |
| `Identifiers` | `split_document_id` (no state) |
| `Documents` | `validate`, lines, subtotals, numbers and unique codes of the UBL engine |
| `XmlScan` | the loops of `XmlDoc::parse`, `XmlDoc::text` and `check_signature_structure`, event by event |
| `InMemoryQueue`, `InMemoryIssuing`, `InMemoryWebhooks`, `InMemoryReception` | **abstract specifications**: the operations of `InMemoryStore`, one atomic action each; implemented by `Processing`, `Issuance`, `Webhooks` and `Reception` |
| `ProcessingProofs`, `ProcessingTimelyProofs`, `CircuitBreakerProofs`, `IssuanceProofs`, `WebhooksProofs`, `SigningProofs`, `ReceptionProofs`, `DocumentsProofs` | the theorems about each, and their proofs (section 5); the second one is for tasks that do not outlive their leases |
| `MCProcessing`, `MCIssuance`, `MCWebhooks`, `MCSigning`, `MCReception`, `MCDocuments` | instances for TLC |
| `MCWorker`, `MCLate`, `MCSettings` | two or three of those instances side by side, for one run (section 3) |

### Processing

The state is the database (`status`, `xml`, `events`, `outbox`, `jobs`,
`testSet`), the tasks (`pc`, `task`), and the DIAN (`dian`, `wire`), with
two history variables (`sent`, `interventions`). A task's step is **one database
transaction or one SOAP call**, in the order of the code:

```
 Claim -> Load -> Prepare -> [Query] -> SendBillSync | SendTestSetAsync | SendFails
                    |                        |
                    v                        v
                   Fail      Accepted | Rejected | SentAsync | TransmissionFailed
 Claim -> Load -> GetStatusZip -> Accepted | Rejected | PollUnresolved
```

`Transition` is `DocumentProcessor::transition` over `apply_transition`: all of
status, notification, event, job and follow-up, or, when the document has moved
on, only `close`, a second transaction (`Complete`). `Abandon` is a timeout, a
crash or a database error at any point. `Claim` includes the reaping UPDATE that
precedes it, and `ClaimNothing` is a claim in which only that one had an effect.

A job row is a triple of document, kind and row number; "free" rows stand for
those not inserted yet. A lease is a boolean: `LeaseExpires` turns it off, when no
task holds the job (the timeout is checked to be shorter than the lease when the
worker starts) or, with `LateTasks`, at any time, as when a process is paused.
`run_at` and the backoff are abstracted: a queued job may be due at any time. A
signed XML is its version number, since what matters is whether two differ.

The DIAN is external. It accepts or rejects a document it receives, test sets
after a while (`Validate`), keeps an acceptance for ever, and may receive a
request its sender gave up on (`ReceiveLate`). To a duplicate of an accepted
document it may answer any code, since the repository does not say which.

Two branches of the code are left out because no state reaches them: a job
without a document (the foreign key forbids it) and a poll job without a ZipKey
(`NewJob::poll_status` always sets it). The AttachedDocument built after an
acceptance writes nothing.

### Issuance

A request goes through the statements of `issue_outbound`: lookup of the key,
BEGIN, `SELECT ... FOR UPDATE` of the range (chosen, then locked: another may
commit in between, and `next_number` sees the row as it is after the wait), UPDATE
of the counter, INSERT of the document, INSERT of the key, COMMIT. What an open
transaction wrote is not in the tables; `HoldsRange`, `HasInserted` and
`HasInsertedKey` say what it makes the others wait for (PostgreSQL at read
committed, external). `Fail` is an error or a crash at any statement; `Commit` may
lose its answer. Time moves, resolutions are registered and expire meanwhile.
The model has one tenant: no statement reads the rows of another.

### CircuitBreaker

An `Instant` is the time elapsed since it, up to the cooldown, beyond which
nothing tells two apart. A call is "normal" or a "probe" by the state that
allowed it; calls report success, failure, or never (`NoReport`).

### Webhooks

`register` is two statements, a count and an INSERT. A sender claims, posts and
records; it may die at any point. Deleting a subscription deletes its deliveries.
Nothing in the program makes a subscription inactive: `Deactivate` is an
operator's UPDATE (external), for which `deliver` has a branch.

### Tenancy and Reception

`Tenancy` has a transaction of an administrator as two steps, the statement that
takes a row or an entry of a unique index and the COMMIT, where two calls may
meet: two creations of the same tax id, two revocations of the same key. The entry
of `admin_audit_log` is in the same transaction. Authentication reads
`api_keys` once; a request goes on with the tenant it found, even if the key is
revoked meanwhile, as in the code.

`Reception` adds the requests. `ReceiveInvoice` is the whole of
`receive_inbound_invoice`: the first XML of the ZIP within the limit of entries,
the checks of `register_verified` (in their order, which matters for nothing but
the message) or of `register_unverified`, and the INSERT with its constraint: the
same number of the same supplier again leaves the row that is there as it is,
even when that one was not verified and this one is. A RADIAN event is three steps, `RegisterEvent`
(the checks on the stored document), `SendEvent` and `RecordEvent`, each of which
may fail; the DIAN may have the event and the client be told 503. `Restart` changes
the configuration between verified, unverified and off, so that documents of
both kinds are in the table.

An XML document is a record of what the parser finds in it. The judgement of
`xmlsec1` on a signature is part of the document; that the DIAN only signs an
acceptance of an invoice it has validated is the assumption `DianIsTrue`. The
subject of the signer is compared as a whole where the code looks for a
part of it, and the certificates of a `KeyInfo` are a set.

### Signing

`activate_certificate` is modelled statement by statement: the UPDATE that revokes
the active one waits for another transaction on the same row, and the unique
index on active certificates turns the second INSERT away. `StartSigning` chooses
the certificate (active, and not expired); the signature then looks the
identity up for the certificate it embeds and again for the key, through the
cache of `VaultTransitProvider`, without one, or from the local pair. A lookup
that misses is two steps, the answer of Vault and the insertion into the cache,
so an old answer may overwrite a newer one. The lifetime of an entry is a
boolean. A secret is a version; `ReplaceSecret` puts another at the same path,
which the operation of Vault allows (external). With such a replacement between
the two lookups a signature may carry a certificate and a key of two versions, which
`SignatureMatches` finds (section 4); `RotationTakesEffect` says that no signature
goes on with an old one.

### Documents and XmlScan

The generators of `Documents` accept a payload as `validate` does and add it to
`generated`, whose order is irrelevant but for the documents being different. The
numbers of a payload are in thousandths, so that every check of a scale may fail,
and computed amounts in cents, rounded as the code rounds them. `CalculateCufe`
and its like are the text that is digested: SHA-384 is taken to be injective. A
text has no separators in it, which is what `NumbersIdentify` is about; it is stated
for prefixes of letters, since `FE1` and 1 and `FE` and 11 have the same number, although
`register_numbering_range`, which asks for letters or digits, accepts both. Sums are
recursive functions (`PartialSums`), the subtotals a function from rates, as the
`BTreeMap` of `tax_subtotals` is; the digits of a number (`Digits`) are the least that
write it, and parsing finds the number that digits write (`Writes`).

`XmlScan` is the three loops over the events of quick-xml: its variables are what was
read so far and the local variables of each loop. The code runs the loops one after
another over the same text; none looks at the others, so here they take every event
together, and `text` is asked for all paths at once. `ReadsTheTree` compares
them with definitions over the tree of elements (`Depth`, `Within`, `HasPath`): which
one is the first at a path and what text is inside it, how many signatures there are,
and which References to the whole document (`WholeReferences`) have an enveloped
Transform inside (`TransformsIn`). References may be anywhere, empty or one in another. The flags of
`check_signature_structure` do not read such documents exactly, so the last part is two
implications: a Reference that has the Transform, and no Reference inside (`Plain`), is
never missed; and what is accepted has a Transform inside a Reference to the whole
document, or after an empty one. Whether that Reference belongs to the signature is
another question, which the code does not ask (`SignatureCovers`, section 4).

### The in-memory store

`core-domain/src/testing.rs` keeps the ports in memory under a mutex, "reproducing"
the adapter of PostgreSQL; the tests of the use cases run on it. The four
`InMemory*` modules are its operations, and each detailed module is
shown to implement them with the identity on the tables: what the tests see on
that store is what concurrent transactions amount to. Three differences came up.
The reaping of exhausted jobs exists in PostgreSQL only, so `StoreIsInMemory`
allows it as a step of its own and before a claim. `apply_transition` of the double
does not undo the status when the follow-up job conflicts, where PostgreSQL rolls
back; `ApplyTransition` has that step, and `Processing` never takes it. Its `job_mut`
answers NotFound where the UPDATE finds no row and says nothing.

## 3. Runs

| Run | Expect | Shows |
|---|---|---|
| `worker` | pass | while no task outlives its lease: `Exclusive`, `LoadedStatusHolds`, `NotForgotten`, `SentIsStored`, `FailedNeverSent`; and `Settles`, under fairness. Of the breaker: `ClosedBelowThreshold`, `OneProbe`, `ProbesAgain` |
| `late` | pass | with late tasks too: `AcceptedByDian`, `AuditTrail`, `NotifiedOnce`, and the refinements `LifecycleRefined` and `StoreIsInMemory`. Of documents and XML: `AmountsAddUp`, `NumbersIdentify`, `ReadsTheTree` |
| `processing_exhausted` | violation | README 5.6: a last attempt that dies leaves the document pending |
| `processing_resend` | violation | README 5.4: a requeued document is resent without GetStatus |
| `issuance` | pass | `Gapless`, `RepliesAreTrue`, `KeyNeverVanishes`, `NoWaitingCycle`, and the refinement `IssuesAtomically`: one document per number and per key |
| `issuance_replay` | violation | README 4.A: a concurrent retry is refused, not replayed |
| `settings` | pass | of webhooks: `DeliveredWasReceived`, `OneSender`, `DeadWasTried`, `DeliveredIsFinal`, `DeliverySettles`, and the refinement `DeliveriesAreInMemory`. Of certificates and signatures: `LastActivatedIsActive`, `RotationTakesEffect` |
| `webhooks_attempts` | violation | README 4.B: more than the maximum of attempts |
| `webhooks_limit` | violation | README 4.B: more than the maximum of subscriptions |
| `signing_rotation` | violation | `get_certificate`: a certificate that is not the one of the key |
| `reception` | pass | `EventsAreAboutValidated`, `NoEventIsMadeUp`, and the refinement `StoredAsInMemory` |
| `documents_structure` | violation | `verify.rs`: the Reference that covers a document is not in its signature |

Three runs check modules **side by side** that have no state in common: `worker`
(`Processing` and `CircuitBreaker`), `late` (`Processing` and `Documents` with
`XmlScan`), `settings` (`Webhooks` and `Signing`). A behaviour takes steps of one while the
others are in their initial states, so each module has exactly the behaviours that
it has alone, and a property of it is about those. The fairness is that of each
module; it asks nothing of the modules that have not begun: no document, delivery or
signature is there yet, and for the breaker, whose time passes from the start,
`BreakerFairness` is only about behaviours in which nothing was issued.

Every property of a passing run has a mutant: a definition changed the way a
plausible bug would change the code, under which TLC finds the property violated.

**Bounds.** `Processing` runs with one document: no action reads the rows of
two, and the queue's interactions are between the jobs of one. Two task slots
are enough for a task and the one that takes over; three attempts
for a first, a middle and a last; three rows (initial, requeued, requeued again)
or two; two signed versions, the second of which only a second signer makes; two
interventions of the administrator, one, or none. `late`, where tasks
overlap freely, has the smaller bounds (478,000 states); the theorems of section
5 cover the rest. `Issuance` has three
requests (one that commits, one that waits for it, one that waits for that),
five calls (with the key and two bodies, without it; proposed numbers and
assigned ones), a resolution of two numbers renewed by one that repeats one
of them, a series whose first number is the last issued plus one, and time from
before to after the renewal. `Webhooks` has two subscriptions, a notification, two
senders, two attempts, and in `webhooks_limit` three subscriptions, two clients that
register and a maximum of two. The breaker
has three callers, a threshold and a cooldown of two, and counts up to four
failures.

`Signing` has two administrators and two signatures at once, which is what a
race on the index and a late answer of Vault take; three certificates (the one
that is active and the two of the race), two of them at the same path, the other
one with a path of its own and an expiry; a clock that passes that expiry; and one
replacement of a secret; at most two of the four are under way at once (`MaxBusy`).
`Reception` has two tenants, keys, administrators,
requests and rows, and two events. Its packages are a genuine invoice for each of
two tax ids, an invoice the DIAN has not validated with the number of
the first, and eight others that differ in one thing that `register_verified` has
to see, in ZIPs with the XML after another entry, missing, unreadable or beyond
the limit of entries. `Documents` has payloads of every kind
with one to three lines (two are allowed) of quantities, prices and rates that round up,
down or not at all, totals off by a cent or with three decimals, and any two of
them generated; prefixes and numbers whose concatenations meet, one of them
beyond the largest number. XML has up to seven events, enough for three
elements with text one in another or side by side, and up to eight where there is a
signature, enough for a `SignedInfo` in it and one elsewhere, for an empty Reference
before another, and for one in another; the text is asked for at every path of up to three
names. The two bounds are kept apart because the
number of documents grows by about seven with each event.

Symmetry is used for task slots, requests, tenants, keys and rows, in runs without
liveness.

**Deadlock** is not checked where the system may stop: all documents final, all
requests answered, all deliveries settled, no certificate left to register, the
bounds on documents and events reached. Waiting cycles of transactions are
checked by `NoWaitingCycle`. The run `reception` does check deadlock.

**Fairness.** Weak fairness of each task's next step (tokio runs what is ready and
each call has a timeout), of claiming each job and delivery (the loops poll for
ever and claim in order of `run_at`), of leases expiring (time) and of the
reconciler. Strong fairness only of a breaker letting a task through: a released
job comes back after a cooldown, and `ProbesAgain` shows that the breaker does not
stay shut. For signatures, weak fairness of each one's next step, and of the
lifetime of an entry of the cache ending (time). Nothing is assumed of the
administrators, of Vault, of replacements, of the DIAN, of crashes or of late
requests; a task that abandons its job for ever exhausts its attempts.

## 4. What the README and the comments of the program say, and the program does not do

1. *Exhausted attempts* (`infra-postgres/src/lib.rs:571`, README.md:404). A job
   whose lease expires on its last attempt is buried by `claim`, and its document
   stays pending: contingency is only entered when the last send fails while its
   task is alive. `NotForgotten` shows what does hold: the dead job is there for
   the administrator.
2. *No duplicate sends* (`processing.rs:171`, README.md:402). The condition
   `job.attempts > 1` is about this job; a requeue starts from zero.
3. *Replay* (`infra-postgres/src/lib.rs:319`, README.md:180). The number is
   checked before the key is inserted, so the loser of a race gets 422. No second
   document is issued (`IssuesAtomically`), and a later retry is replayed.
4. *Attempts of a delivery* (`infra-postgres/src/lib.rs:756`, README.md:228). A
   delivery with an expired lease is claimed whatever its attempts.
5. *Ten subscriptions* (`application/src/webhooks.rs:120`, README.md:227). They are
   counted in one statement and inserted in another, so concurrent registrations
   exceed the maximum; by how many at most is `OvershootBounded` (section 5).
6. *The certificate of the signer* (`crypto-signer/src/provider.rs:158`,
   `provider.rs:25`). Certificate and key are looked up one after the other; when the
   secret is replaced at its path between the two, they are of two identities. The
   comment on `IDENTITY_TTL` expects such rotations. Without replacements in place every
   lookup has the one version there is.
7. *The Reference of the signature* (`crypto-signer/src/verify.rs:223`, `verify.rs:202`,
   README.md:261). The Reference that covers the document is looked for in any
   `ds:SignedInfo`, also outside the one `ds:Signature`, and an empty one may be taken
   to have the Transform of what follows. `ReadsTheTree` shows what does hold.

## 5. Proofs

Proved with TLAPS, for every value of the constants that the `ASSUME`s of the
modules allow: bounds that are natural numbers (positive where zero would mean no
attempt at all), placeholders such as `NoKey` or `None` that are no member of the
set they extend, resolutions as `register_numbering_range` accepts them
(`RangeAssumption`), `DianIsTrue`, and finitely many concurrent calls
(`IsFiniteSet(Client)`, `IsFiniteSet(Request)`), since two properties count them.
`RowAssumption` says that the placeholder for a document without a row is none of
the rows. `DocumentsAssumption` gives the fields of a payload their types: numbers are
positive `i32`s, an amount has at most the 29 digits of a `Decimal`.
`IdentifiersAssumption` bounds a number by 2^31 - 1, and `XmlAssumption` says that
elements have names. TLC evaluates all of them in the runs.

Every safety property of the passing runs is proved, `NoWaitingCycle` in a form
without ENABLED. TLC finds the invariants below true on the
instances of section 3 as well.

Five of the theorems about tasks and three about senders have the hypothesis that
none outlives its lease, `ASSUME ~LateTasks` and `ASSUME ~LateSenders`. The worker
refuses to start unless `JOB_TIMEOUT_SECS < JOB_LEASE_SECS` (`worker/src/main.rs:78`);
a POST times out after 10 s under a lease of 60. A process that is paused between the
two is what the hypothesis excludes, and the other theorems do not make it.

`ProcessingProofs`, late tasks included:

- `TypeCorrect`: `Spec => []TypeOK`. The conjunct that a task that is not idle
  holds a job is what makes `TypeOK` inductive.
- `AuditTrailHolds`, `NotifiedOnceHolds`: the two are inductive together with
  `TypeOK`. The argument goes through one lemma, `NextDocument`: whatever the step,
  a document's status, events and outbox either stay, or change as one guarded
  transition does (`DocumentChange`). Every branch of every action is looked at
  once, and each property is proved from that lemma alone; no assumption on leases
  is needed, so the guard in the UPDATE is what protects the store, and not the
  leases.
- `Refinement`: `Spec => Abstract!Spec`, from the same lemma: an arrival is an
  edge of the abstract specification, with its notification.
- `AcceptedByDianHolds`: the invariant is strengthened (`AcceptedInv`) with the
  memory of tasks: a task about to record an acceptance has been told so by the
  DIAN, which never takes an acceptance back.
- `StoreIsInMemoryHolds`: each action is an operation of `InMemoryQueue`, or a
  reaping. It takes `StoreInv`: the row of a working task's job and the
  document of a row are there, which is when the double's `job_mut` finds what the
  UPDATE finds.

`ProcessingTimelyProofs`, under `~LateTasks`:

- `ExclusiveHolds`, `LoadedStatusHoldsHolds`, `NotForgottenHolds`, from `QueueInv`:
  a working task's job runs under its lease; no two tasks have the same; at most one
  job of a document and kind is active; an active job's document has the status its
  kind expects; a task is at a place its kind of job takes it to. None of these is
  inductive alone: `Exclusive` for two kinds of job rests on the two statuses they
  expect, and those on the index, since a second active job would outlive the status.
  A consequence is that `close`, for a document that has moved on, is never
  reached by a timely task. All steps of tasks are one of three shapes (`Continues`,
  `Ends`, `Finishes`), and each shape is shown to keep `QueueInv` once.
- `SentIsStoredHolds`, `FailedNeverSentHolds`, from `SentInv`: the version in the
  memory of a task about to send is the stored one, and not the unsigned one; a
  task about to fail its document has sent nothing. That the others leave the
  document alone meanwhile is `Exclusive`, which this invariant needs.

`IssuanceProofs`:

- `IssuanceTypeCorrect`, `KeyNeverVanishesHolds` and `IssuesAtomicallyHolds`, from
  `TxInv`: what an open transaction has read is still so. The number of a
  request that has the lock is the next one of its range (`Placed`); two open
  transactions never have the same range locked, nor the same number or
  key inserted (`Apart`). The steps before COMMIT are `Quiet`, they touch no
  table; so a COMMIT finds the tables its statements saw, and is the whole operation
  of `InMemoryIssuing` at that instant.
- `RepliesAreTrueHolds`, from `AnswerInv`: the row of a key is of a document with
  that key. The request that is told so is not the one that issued it, which is why
  the invariant speaks of both.
- `GaplessHolds`, from `CountInv`: each number from the first to the counter is of
  exactly one document of the range, and the counter does not pass the last.
- `SomeoneProceeds`: while a request is unanswered, one finds the guard of its next
  statement true. A request that waits for a key waits for one that has inserted its
  key, which waits for nothing; one that waits for a number waits for one past that
  INSERT; one that waits for a range, for one that has it. That order, range then
  number then key, is the whole argument; that a choice among resolutions in force
  has a latest one is the other thing a statement could wait for in vain. `Proceeds`
  writes out the guards of `Step`; that it is `ENABLED Step(r)` in every state of the
  `issuance` instance was checked with TLC.

`WebhooksProofs`:

- `WebhooksTypeCorrect`; `DeliveredWasReceivedHolds` and `DeliveriesInMemory`, from
  `TableInv`, late senders included: the rows are of subscriptions that are listed and
  of notifications that were published, and a sender about to complete had its 2xx.
- `OneSenderHolds`, `DeadWasTriedHolds`, `DeliveredIsFinalHolds`, under
  `~LateSenders`, from `TimelyInv`: a sender's delivery runs under its lease at the
  attempt that it claimed, unless its subscription was deleted, which is final.
- `OvershootBounded`, from `BoundInv`: the calls past the comparison count
  as subscriptions already, so the sum stays below the maximum and all callers. It is
  what is left of the maximum that section 4 shows to be exceeded.

`SigningProofs`:

- `LastActivatedIsActiveHolds`, with `CallInv`: at most one call is past its INSERT,
  and what is active is among what it has revoked. The property and `CallInv` are
  inductive together.
- `SigningTypeCorrect`.

`ReceptionProofs`, from four invariants that are proved together:

- `StoredAsInMemoryHolds`: `TenancyInv`, what the first statement of an
  administrator's transaction found is so at its COMMIT, and two open ones
  concern different tax ids or keys.
- `EventsAreAboutValidatedHolds`: `RequestInv` and `DianInv`. A stored document that
  is verified has the CUFE of an invoice the DIAN validated, and its tenant is the
  customer; rows and tax ids do not change, so the check of `RegisterEvent`
  outlasts the call to the DIAN.
- `NoEventIsMadeUpHolds`: `EventInv`. What is recorded **and** what requests are
  about to record together are no more than what the DIAN has accepted. Without the
  second part two requests could record the same acceptance.

`CircuitBreakerProofs`: `BreakerTypeCorrect`; `ClosedBelowThresholdHolds`;
`OneProbeHolds`, from `ProbeInv`: the time elapsed since the breaker's instant is
at most the age of every probe, so a new probe, allowed when that time is a
cooldown, finds every other one at least as old.

`DocumentsProofs`, for payloads, texts and XML of any length:

- `ScanInvHolds`, `ReadsTheTreeHolds`. `ScanInv` says what the local variables of the
  loops mean: the depth of `parse` is that of the tree and `root` is empty until there is
  one; the stack of `text` is the path of what is open, what it captures is
  the text of the first element with the path, and it returns when that one closes; the
  flags of `check_signature_structure` (`StructureInv`) are told from two sides: while
  `in_whole_reference` is set some whole-document Reference is open, or was empty, and
  the other two are only set once it has a Transform; and of each such Reference that
  has none inside (`Seen`) nothing was missed, while it is open or after. An end that
  is not of a Reference leaves it open, which is what the first needs; one that is of a
  Reference ends this very one, since no other is inside, which is what the second
  needs. Each loop keeps its part by
  a lemma on one more event, and these rest on lemmas on how `Depth`, `Within` and
  `HasPath` change when a sequence of events grows by one: nothing changes for what
  was read before. So the length needs no induction but that of the steps.
- `AmountsAddUpHolds`. Sums of any length do need one: the library's induction
  takes an operator, which the provers cannot instantiate, but its theorem that a set of
  naturals has a least member (`WFMin`) does not, and `SetInduction` follows from it for
  the set of numbers a claim holds of. With it `SumsAre` shows that the recursive
  function of sums exists, `TotalAdds` and `TotalIsNear` that sums add up and keep near
  to a rate, half a cent for each line, and `GroupsAddUp` that the sums of the groups
  add up to that of all: by adding the group of one more line where that line is the
  first of its rate.
- `NumbersIdentifyHolds`. The digits of a number write no other (`WritesOne`, digit by
  digit from the first). All codes begin with prefix, number and date (`CodeBegins`); in
  a code that reads as two documents neither prefix is the shorter, for the first digit
  of one would be a letter of the other, and neither number, for the hyphen of the date
  would be a digit of the other. Equal codes are then of equal prefixes and
  numbers, which `Accepted` says no two documents of a type have; it is the
  invariant of the generators that the last two theorems rest on.

**Only model-checked.** Liveness (`Settles`, `DeliverySettles`, `ProbesAgain`,
`RotationTakesEffect`), and `NoWaitingCycle` with its ENABLED: the prover has neither
fairness nor ENABLED. The seven violations are executions, which TLC shows.

## 6. Plan

Done: the modules and the proofs above. What may be added: properties of `Tenancy` of
its own, now that `TenancyInv` is proved (a revocation has one entry of the log);
`NumbersIdentify` for prefixes with digits, once `register_numbering_range` restricts
where they may be; the liveness properties by hand, from the invariants proved here.

### Not modelled

- Canonicalization, digests and signature values; the HMAC of a delivery; the
  hashing of API keys: byte-level, with conformance tests of their own.
- Templates and packaging of the UBL engine, the AttachedDocument, the
  ApplicationResponse of an event with its CUDE, the SOAP envelopes: formatting.
- The check digit of a NIT and local time: functions of one argument
  without state, covered by the tests of the repository; the values of the
  backoff, which the models leave open.
- The resolution of webhook destinations and `is_public_ip`, which decide on
  whether a POST is made and change no state.
- HTTP routing and the mapping of errors, metrics and logging: no state that
  the system reads.
- `current_counter + 1` at the largest `i32` (`numbering.rs:28`): the models
  have ranges that end below it; past it the sum panics or wraps, as the build
  checks overflow or not, instead of answering that the range is exhausted.
- Migrations of old data; the helpers for tests and the fakes, and the certificates of the
  in-memory store.
