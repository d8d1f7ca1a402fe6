----------------------------- MODULE Processing -----------------------------
(***************************************************************************)
(* The processing of issued documents: the persistent job queue            *)
(* (infra-postgres), the worker tasks that execute its jobs                *)
(* (application/processing.rs under worker/main.rs), the automatic         *)
(* reprocessing of contingency, the administrator's retry of a dead job,   *)
(* and the DIAN web service as an external party.                          *)
(*                                                                         *)
(* A step of a task is one database transaction or one SOAP call; between  *)
(* two of them anything may happen, a timeout or a crash included.  Clocks *)
(* are abstracted: a queued job may become due at any time (run_at), a     *)
(* lease expires at any time LeaseExpires allows.                          *)
(***************************************************************************)
EXTENDS Lifecycle, Integers, Sequences

CONSTANTS
    Doc,              \* documents that may be issued
    Worker,           \* task slots: one per semaphore permit of each process
    MaxAttempts,      \* [JobKind -> Nat]: TRANSMIT_ and POLL_MAX_ATTEMPTS
    LateTasks,        \* TRUE: a task may still run when its lease expires
    NoJob,            \* the job of an idle task slot
    MaxRows,          \* bound: job rows per document and kind
    MaxSignings,      \* bound: signed versions of one document
    MaxInterventions  \* bound: dead jobs that the administrator requeues

JobKind == {"transmit", "poll_status"}

\* A row of the jobs table: its document and kind never change, the row
\* number tells apart the jobs that a document has had.
JobId == Doc \X JobKind \X (1..MaxRows)

DocOf(j)  == j[1]
KindOf(j) == j[2]

ASSUME ConstantsAssumption ==
    /\ MaxAttempts \in [JobKind -> Nat \ {0}]
    /\ LateTasks \in BOOLEAN
    /\ NoJob \notin JobId
    /\ MaxRows \in Nat \ {0}
    /\ MaxSignings \in Nat \ {0}
    /\ MaxInterventions \in Nat

VARIABLES
    testSet,        \* documents whose payload has a test_set_id
    status,         \* documents.status
    xml,            \* version of the stored signed_xml, 0 when it is NULL
    events,         \* codes recorded in dian_events for the document
    outbox,         \* webhook notifications enqueued for the document
    jobs,           \* the jobs table
    pc,             \* where each task is
    task,           \* what each task holds in memory
    dian,           \* the verdict of the DIAN on each document
    wire,           \* requests given up on that the DIAN may still receive
    sent,           \* history: signed versions put on the wire
    interventions   \* history: jobs requeued by the administrator

docVars  == <<testSet, status, xml, events, outbox>>
taskVars == <<pc, task>>
dianVars == <<dian, wire, sent>>
vars     == <<docVars, jobs, taskVars, dianVars, interventions>>

-----------------------------------------------------------------------------
(* Types.                                                                  *)

JobStatus == {"free", "queued", "running", "done", "dead"}

\* leased: locked_until is in the future.  A "free" row is not inserted yet.
JobRow == [status : JobStatus, attempts : Nat, leased : BOOLEAN]

FreeRow == [status |-> "free", attempts |-> 0, leased |-> FALSE]
NewRow  == [status |-> "queued", attempts |-> 0, leased |-> FALSE]

EventCode == {"SENT_ASYNC", "ACCEPTED", "REJECTED", "HTTP_ERROR",
              "PROCESSING_FAILED", "POLLING_EXHAUSTED"}

\* The state of a document at the DIAN; "received" is a test set whose
\* validation has not finished.
Verdict == {"none", "received", "accepted", "rejected"}

Location ==
    {"idle", "load", "close", "release",
     "prepare", "query", "send", "broken", "unsent", "retry",
     "sent", "accepted", "rejected", "getzip", "unresolved", "bury"}

Version == 0..MaxSignings

\* The Job a task received from claim, and the document it loaded.
Task == [job : JobId \cup {NoJob}, attempts : Nat, xml : Version,
         asked : BOOLEAN]

NoTask == [job |-> NoJob, attempts |-> 0, xml |-> 0, asked |-> FALSE]

TypeOK ==
    /\ testSet \subseteq Doc
    /\ status \in [Doc -> Status]
    /\ xml \in [Doc -> Version]
    /\ events \in [Doc -> SUBSET EventCode]
    /\ outbox \in [Doc -> Seq(Notified)]
    /\ jobs \in [JobId -> JobRow]
    /\ pc \in [Worker -> Location]
    /\ task \in [Worker -> Task]
    /\ \A w \in Worker : pc[w] # "idle" => task[w].job \in JobId
    /\ dian \in [Doc -> Verdict]
    /\ wire \in [Doc -> BOOLEAN]
    /\ sent \in [Doc -> SUBSET Version]
    /\ interventions \in 0..MaxInterventions

Init ==
    /\ testSet = {}
    /\ status = [d \in Doc |-> Absent]
    /\ xml = [d \in Doc |-> 0]
    /\ events = [d \in Doc |-> {}]
    /\ outbox = [d \in Doc |-> <<>>]
    /\ jobs = [j \in JobId |-> FreeRow]
    /\ pc = [w \in Worker |-> "idle"]
    /\ task = [w \in Worker |-> NoTask]
    /\ dian = [d \in Doc |-> "none"]
    /\ wire = [d \in Doc |-> FALSE]
    /\ sent = [d \in Doc |-> {}]
    /\ interventions = 0

-----------------------------------------------------------------------------
(* The queue.                                                              *)

Active(j) == jobs[j].status \in {"queued", "running"}

\* uq_jobs_active_per_document would reject another active job like j.
IndexTaken(j) ==
    \E i \in JobId \ {j} :
        DocOf(i) = DocOf(j) /\ KindOf(i) = KindOf(j) /\ Active(i)

\* The first row of the document and kind that is still free.
IsNextRow(j) ==
    /\ jobs[j].status = "free"
    /\ \A n \in 1..MaxRows :
          n < j[3] => jobs[<<j[1], j[2], n>>].status # "free"

Holds(w, j) == pc[w] # "idle" /\ task[w].job = j

JobOf(w)  == task[w].job
Document(w) == DocOf(task[w].job)

\* Job::is_last_attempt, on the attempts the task saw when it claimed.
IsLastAttempt(w) == task[w].attempts >= MaxAttempts[KindOf(JobOf(w))]

Goto(w, l) ==
    /\ pc' = [pc EXCEPT ![w] = l]
    /\ UNCHANGED task

End(w) ==
    /\ pc' = [pc EXCEPT ![w] = "idle"]
    /\ task' = [task EXCEPT ![w] = NoTask]

\* issue_outbound, seen from here: the document and its transmit job appear
\* in one transaction (module Issuance has the rest of it).
Issue(d) ==
    /\ status[d] = Absent
    /\ status' = [status EXCEPT ![d] = "Pending"]
    /\ testSet' \in {testSet, testSet \cup {d}}
    /\ \E j \in JobId :
          /\ DocOf(j) = d /\ KindOf(j) = "transmit" /\ IsNextRow(j)
          /\ jobs' = [jobs EXCEPT ![j] = NewRow]
    /\ UNCHANGED <<xml, events, outbox, taskVars, dianVars, interventions>>

Expired(j) == jobs[j].status = "running" /\ ~jobs[j].leased

Exhausted(j) == jobs[j].attempts >= MaxAttempts[KindOf(j)]

\* The row of a job that ends: locked_until is NULL, the attempts stay.
Ended(j, s) == [status |-> s, attempts |-> jobs[j].attempts, leased |-> FALSE]

\* First statement of claim: a job whose lease expired on its last attempt
\* goes to the dead-letter queue.
Reaped ==
    [j \in JobId |-> IF Expired(j) /\ Exhausted(j)
                     THEN Ended(j, "dead")
                     ELSE jobs[j]]

\* Mutants of Claimable: a running job is claimed whatever its lease; a job
\* left running by a dead worker is not claimed again.
ClaimableLeased(j) == jobs[j].status \in {"queued", "running"} /\ ~Exhausted(j)

ClaimableQueued(j) == jobs[j].status = "queued" /\ ~Exhausted(j)

\* claim, second statement: due and queued, or with an expired lease.
Claimable(j) ==
    /\ jobs[j].status = "queued" \/ Expired(j)
    /\ ~Exhausted(j)

\* claim, and the spawn of the task that will process the job.
Claim(w, j) ==
    /\ pc[w] = "idle"
    /\ Claimable(j)
    /\ jobs' = [Reaped EXCEPT ![j] = [status   |-> "running",
                                      attempts |-> jobs[j].attempts + 1,
                                      leased   |-> TRUE]]
    /\ pc' = [pc EXCEPT ![w] = "load"]
    /\ task' = [task EXCEPT ![w] =
                  [job |-> j, attempts |-> jobs[j].attempts + 1,
                   xml |-> 0, asked |-> FALSE]]
    /\ UNCHANGED <<docVars, dianVars, interventions>>

\* A claim whose second statement finds no job, or fails.
ClaimNothing ==
    /\ Reaped # jobs
    /\ jobs' = Reaped
    /\ UNCHANGED <<docVars, taskVars, dianVars, interventions>>

\* locked_until passes.  JOB_TIMEOUT_SECS < JOB_LEASE_SECS stops a task
\* before that, unless its process was paused meanwhile (LateTasks).
LeaseExpires(j) ==
    /\ jobs[j].status = "running" /\ jobs[j].leased
    /\ LateTasks \/ \A w \in Worker : ~Holds(w, j)
    /\ jobs' = [jobs EXCEPT ![j].leased = FALSE]
    /\ UNCHANGED <<docVars, taskVars, dianVars, interventions>>

\* The task times out, its process crashes, or the database fails it: it
\* writes nothing more and the job waits for its lease to expire.
Abandon(w) ==
    /\ pc[w] # "idle"
    /\ End(w)
    /\ UNCHANGED <<docVars, jobs, dianVars, interventions>>

\* JobRepository::complete, by job id only.
Complete(w) ==
    /\ pc[w] = "close"
    /\ jobs' = [jobs EXCEPT ![JobOf(w)] = Ended(JobOf(w), "done")]
    /\ End(w)
    /\ UNCHANGED <<docVars, dianVars, interventions>>

\* UPDATE jobs SET status = 'queued' WHERE id = j: the unique index fails it
\* when the document has another active job of the kind.
SetQueued(j, attempts) ==
    jobs' = IF IndexTaken(j) THEN jobs
            ELSE [jobs EXCEPT ![j] = [status |-> "queued",
                                      attempts |-> attempts, leased |-> FALSE]]

\* JobRepository::retry
Retry(w) ==
    /\ pc[w] = "retry"
    /\ SetQueued(JobOf(w), jobs[JobOf(w)].attempts)
    /\ End(w)
    /\ UNCHANGED <<docVars, dianVars, interventions>>

\* Mutant of Release: two attempts are given back, without a floor.
ReleaseTwo(w) ==
    /\ pc[w] = "release"
    /\ SetQueued(JobOf(w), jobs[JobOf(w)].attempts - 2)
    /\ End(w)
    /\ UNCHANGED <<docVars, dianVars, interventions>>

\* JobRepository::release: the attempt is given back.
Release(w) ==
    /\ pc[w] = "release"
    /\ LET a == jobs[JobOf(w)].attempts
       IN  SetQueued(JobOf(w), IF a > 0 THEN a - 1 ELSE 0)
    /\ End(w)
    /\ UNCHANGED <<docVars, dianVars, interventions>>

\* Mutant of Bury: the job is closed instead of buried.
BuryAsDone(w) ==
    /\ pc[w] = "bury"
    /\ jobs' = [jobs EXCEPT ![JobOf(w)] = Ended(JobOf(w), "done")]
    /\ End(w)
    /\ UNCHANGED <<docVars, dianVars, interventions>>

\* JobRepository::bury
Bury(w) ==
    /\ pc[w] = "bury"
    /\ jobs' = [jobs EXCEPT ![JobOf(w)] = Ended(JobOf(w), "dead")]
    /\ End(w)
    /\ UNCHANGED <<docVars, dianVars, interventions>>

\* Mutant of Applies: the UPDATE has no condition on the current status.
AppliesAlways(d, to) == TRUE

\* UPDATE documents ... WHERE status = ANY(predecessors)
Applies(d, to) == status[d] \in AllowedPredecessors(to)

\* DocumentProcessor::transition over PgStore::apply_transition: status,
\* notification, event, the job's outcome and its follow-up change together
\* or not at all; a document that moved on leaves only the job to close.
Transition(w, to, code, outcome, followUp) ==
    LET d == Document(w)
        closed == [jobs EXCEPT ![JobOf(w)] = Ended(JobOf(w), outcome)]
    IN
    \/ /\ Applies(d, to)
       /\ status' = [status EXCEPT ![d] = to]
       /\ outbox' = [outbox EXCEPT ![d] = @ \o EventFor(to)]
       /\ events' = [events EXCEPT ![d] = @ \cup {code}]
       /\ IF followUp
          THEN \E j \in JobId :
                  /\ DocOf(j) = d /\ KindOf(j) = "poll_status"
                  /\ IsNextRow(j) /\ ~IndexTaken(j)
                  /\ jobs' = [closed EXCEPT ![j] = NewRow]
          ELSE jobs' = closed
       /\ End(w)
       /\ UNCHANGED <<testSet, xml>>
    \/ /\ ~Applies(d, to)
       /\ Goto(w, "close")
       /\ UNCHANGED <<docVars, jobs>>

-----------------------------------------------------------------------------
(* The task: DocumentProcessor::process.                                   *)

\* find_document, the check of its status and, when that passes, the answer
\* of the circuit breaker.  The breaker (module CircuitBreaker) is one per
\* process and environment; here its answer is any.
Load(w) ==
    LET d == Document(w)
        k == KindOf(JobOf(w))
        expected == IF k = "transmit" THEN "Pending" ELSE "SentDian"
    IN
    /\ pc[w] = "load"
    /\ \/ /\ status[d] # expected
          /\ Goto(w, "close")
       \/ /\ status[d] = expected
          /\ Goto(w, "release")
       \/ /\ status[d] = expected
          /\ pc' = [pc EXCEPT ![w] = IF k = "transmit" THEN "prepare"
                                                       ELSE "getzip"]
          /\ task' = [task EXCEPT ![w].xml = xml[d]]
    /\ UNCHANGED <<docVars, jobs, dianVars, interventions>>

\* Where transmit goes once it has the signed XML.
AfterPrepare(w) ==
    IF task[w].attempts > 1 /\ Document(w) \notin testSet THEN "query" ELSE "send"

\* Mutants of Prepare: the XML is generated and signed on every attempt; the
\* signed XML is not stored.
PrepareAlwaysSigns(w) ==
    /\ pc[w] = "prepare"
    /\ xml[Document(w)] < MaxSignings
    /\ xml' = [xml EXCEPT ![Document(w)] = @ + 1]
    /\ pc' = [pc EXCEPT ![w] = AfterPrepare(w)]
    /\ task' = [task EXCEPT ![w].xml = xml[Document(w)] + 1]
    /\ UNCHANGED <<testSet, status, events, outbox, jobs, dianVars, interventions>>

PrepareNotStored(w) ==
    /\ pc[w] = "prepare"
    /\ \/ /\ pc' = [pc EXCEPT ![w] = AfterPrepare(w)]
          /\ task' = [task EXCEPT ![w].xml = 1]
       \/ Goto(w, "broken")
    /\ UNCHANGED <<docVars, jobs, dianVars, interventions>>

\* artifacts: the signed XML that the loaded document carried is reused;
\* otherwise it is generated, signed and stored, or the document is broken
\* (generation, signature, or the database on storing).  What the payload
\* makes fail fails the first time, so a reuse does not fail.
Prepare(w) ==
    LET d == Document(w) IN
    /\ pc[w] = "prepare"
    /\ \/ /\ task[w].xml # 0
          /\ Goto(w, AfterPrepare(w))
          /\ UNCHANGED xml
       \/ /\ task[w].xml = 0
          /\ xml[d] < MaxSignings
          /\ xml' = [xml EXCEPT ![d] = @ + 1]
          /\ pc' = [pc EXCEPT ![w] = AfterPrepare(w)]
          /\ task' = [task EXCEPT ![w].xml = xml[d] + 1]
       \/ /\ task[w].xml = 0
          /\ Goto(w, "broken")
          /\ \/ UNCHANGED xml
             \/ xml[d] < MaxSignings /\ xml' = [xml EXCEPT ![d] = @ + 1]
    /\ UNCHANGED <<testSet, status, events, outbox, jobs, dianVars, interventions>>

\* Mutant of Query: any answer of GetStatus is taken for an acceptance.
QueryAnyCode(w) ==
    /\ pc[w] = "query"
    /\ task' = [task EXCEPT ![w].asked = TRUE]
    /\ pc' \in {[pc EXCEPT ![w] = "accepted"], [pc EXCEPT ![w] = "send"]}
    /\ UNCHANGED <<docVars, jobs, dianVars, interventions>>

\* GetStatus by CUFE before a resend: an accepted document is not resent; an
\* error or any other answer is ignored.
Query(w) ==
    /\ pc[w] = "query"
    /\ task' = [task EXCEPT ![w].asked = TRUE]
    /\ \/ /\ dian[Document(w)] = "accepted"
          /\ pc' = [pc EXCEPT ![w] = "accepted"]
       \/ pc' = [pc EXCEPT ![w] = "send"]
    /\ UNCHANGED <<docVars, jobs, dianVars, interventions>>

\* compress_xml_to_zip fails.  It depends on the XML only: a version that was
\* sent once is not one it fails on.
ZipFails(w) ==
    /\ pc[w] = "send"
    /\ task[w].xml \notin sent[Document(w)]
    /\ Goto(w, "broken")
    /\ UNCHANGED <<docVars, jobs, dianVars, interventions>>

\* What a request that reaches the DIAN may make of a document (external).
Received(d) ==
    IF dian[d] = "accepted" THEN {"accepted"}
    ELSE IF d \in testSet THEN {"received"}
    ELSE {"accepted", "rejected"}

\* SendBillSync, with an answer.  Only the accepted codes accept: any other
\* code rejects, and a duplicate of an accepted document may be given one.
SendBillSync(w) ==
    LET d == Document(w) IN
    /\ pc[w] = "send" /\ d \notin testSet
    /\ sent' = [sent EXCEPT ![d] = @ \cup {task[w].xml}]
    /\ \E v \in Received(d) :
          /\ dian' = [dian EXCEPT ![d] = v]
          /\ \/ v = "accepted" /\ Goto(w, "accepted")
             \/ (v = "rejected" \/ dian[d] = "accepted") /\ Goto(w, "rejected")
    /\ UNCHANGED <<docVars, jobs, wire, interventions>>

\* SendTestSetAsync, with the ZipKey as the answer.
SendTestSetAsync(w) ==
    LET d == Document(w) IN
    /\ pc[w] = "send" /\ d \in testSet
    /\ sent' = [sent EXCEPT ![d] = @ \cup {task[w].xml}]
    /\ \E v \in Received(d) : dian' = [dian EXCEPT ![d] = v]
    /\ Goto(w, "sent")
    /\ UNCHANGED <<docVars, jobs, wire, interventions>>

\* The send ends in an error: the request was lost, or the answer was, or
\* the request is late and the DIAN receives it afterwards.
SendFails(w) ==
    LET d == Document(w) IN
    /\ pc[w] = "send"
    /\ sent' = [sent EXCEPT ![d] = @ \cup {task[w].xml}]
    /\ \E late \in BOOLEAN : wire' = [wire EXCEPT ![d] = @ \/ late]
    /\ Goto(w, "unsent")
    /\ UNCHANGED <<docVars, jobs, dian, interventions>>

\* The ends of transmit and poll that move the document.
Accepted(w) ==
    /\ pc[w] = "accepted"
    /\ Transition(w, "DianAccepted", "ACCEPTED", "done", FALSE)
    /\ UNCHANGED <<dianVars, interventions>>

Rejected(w) ==
    /\ pc[w] = "rejected"
    /\ Transition(w, "DianRejected", "REJECTED", "done", FALSE)
    /\ UNCHANGED <<dianVars, interventions>>

SentAsync(w) ==
    /\ pc[w] = "sent"
    /\ Transition(w, "SentDian", "SENT_ASYNC", "done", TRUE)
    /\ UNCHANGED <<dianVars, interventions>>

\* Mutant of Fail: the event is recorded in a transaction of its own, before
\* the transition.
FailRecordsFirst(w) ==
    /\ pc[w] = "broken"
    /\ \/ Transition(w, "ProcessingFailed", "PROCESSING_FAILED", "done", FALSE)
       \/ /\ ~Applies(Document(w), "ProcessingFailed")
          /\ events' = [events EXCEPT ![Document(w)] = @ \cup {"PROCESSING_FAILED"}]
          /\ Goto(w, "close")
          /\ UNCHANGED <<testSet, status, xml, outbox, jobs>>
    /\ UNCHANGED <<dianVars, interventions>>

\* DocumentProcessor::fail
Fail(w) ==
    /\ pc[w] = "broken"
    /\ Transition(w, "ProcessingFailed", "PROCESSING_FAILED", "done", FALSE)
    /\ UNCHANGED <<dianVars, interventions>>

\* transmission_failed: contingency on the last attempt; before it the event
\* is recorded and the retry is a second call.
TransmissionFailed(w) ==
    /\ pc[w] = "unsent"
    /\ \/ /\ IsLastAttempt(w)
          /\ Transition(w, "ContingencyPending", "HTTP_ERROR", "dead", FALSE)
       \/ /\ ~IsLastAttempt(w)
          /\ events' = [events EXCEPT ![Document(w)] = @ \cup {"HTTP_ERROR"}]
          /\ Goto(w, "retry")
          /\ UNCHANGED <<testSet, status, xml, outbox, jobs>>
    /\ UNCHANGED <<dianVars, interventions>>

\* GetStatusZip: a final answer, or another code or an error.
GetStatusZip(w) ==
    LET v == dian[Document(w)] IN
    /\ pc[w] = "getzip"
    /\ \/ v \in {"accepted", "rejected"} /\ Goto(w, v)
       \/ Goto(w, "unresolved")
    /\ UNCHANGED <<docVars, jobs, dianVars, interventions>>

\* The end of poll without a final answer.
PollUnresolved(w) ==
    /\ pc[w] = "unresolved"
    /\ \/ /\ IsLastAttempt(w)
          /\ events' = [events EXCEPT ![Document(w)] = @ \cup {"POLLING_EXHAUSTED"}]
          /\ Goto(w, "bury")
       \/ /\ ~IsLastAttempt(w)
          /\ Goto(w, "retry")
          /\ UNCHANGED events
    /\ UNCHANGED <<testSet, status, xml, outbox, jobs, dianVars, interventions>>

-----------------------------------------------------------------------------
(* The rest of the system.                                                 *)

\* Mutant of RequeueContingency: without NOT EXISTS an active job.
RequeueContingencyTwice(d) ==
    /\ status[d] = "ContingencyPending"
    /\ \E j \in JobId :
          /\ DocOf(j) = d /\ KindOf(j) = "transmit" /\ IsNextRow(j)
          /\ jobs' = [jobs EXCEPT ![j] = NewRow]
    /\ status' = [status EXCEPT ![d] = "Pending"]
    /\ UNCHANGED <<testSet, xml, events, outbox, taskVars, dianVars, interventions>>

\* contingency_reconciler over requeue_contingency: a document in contingency
\* without an active transmit job is pending again, with a new job.
RequeueContingency(d) ==
    /\ status[d] = "ContingencyPending"
    /\ \E j \in JobId :
          /\ DocOf(j) = d /\ KindOf(j) = "transmit"
          /\ IsNextRow(j) /\ ~IndexTaken(j)
          /\ jobs' = [jobs EXCEPT ![j] = NewRow]
    /\ status' = [status EXCEPT ![d] = "Pending"]
    /\ UNCHANGED <<testSet, xml, events, outbox, taskVars, dianVars, interventions>>

\* Mutant of RetryDeadJob: the job need not be dead.
RetryAnyJob(j) ==
    /\ interventions < MaxInterventions
    /\ jobs[j].status # "free"
    /\ IF KindOf(j) = "transmit"
       THEN status[DocOf(j)] \in {"Pending", "ContingencyPending"}
       ELSE status[DocOf(j)] = "SentDian"
    /\ ~IndexTaken(j)
    /\ jobs' = [jobs EXCEPT ![j] = NewRow]
    /\ interventions' = interventions + 1
    /\ UNCHANGED <<docVars, taskVars, dianVars>>

\* AdminService over retry_dead_job.
RetryDeadJob(j) ==
    LET d == DocOf(j) IN
    /\ interventions < MaxInterventions
    /\ jobs[j].status = "dead"
    /\ IF KindOf(j) = "transmit"
       THEN status[d] \in {"Pending", "ContingencyPending"}
       ELSE status[d] = "SentDian"
    /\ ~IndexTaken(j)
    /\ status' = [status EXCEPT ![d] = IF KindOf(j) = "transmit" THEN "Pending"
                                                                 ELSE @]
    /\ jobs' = [jobs EXCEPT ![j] = NewRow]
    /\ interventions' = interventions + 1
    /\ UNCHANGED <<testSet, xml, events, outbox, taskVars, dianVars>>

\* The DIAN receives a request that the sender had given up on (external).
ReceiveLate(d) ==
    /\ wire[d]
    /\ wire' = [wire EXCEPT ![d] = FALSE]
    /\ \E v \in Received(d) : dian' = [dian EXCEPT ![d] = v]
    /\ UNCHANGED <<docVars, jobs, taskVars, sent, interventions>>

\* The DIAN finishes the validation of a test set (external).
Validate(d) ==
    /\ dian[d] = "received"
    /\ \E v \in {"accepted", "rejected"} : dian' = [dian EXCEPT ![d] = v]
    /\ UNCHANGED <<docVars, jobs, taskVars, wire, sent, interventions>>

\* The next step of a task, a failure of it aside.
Step(w) ==
    \/ Load(w) \/ Complete(w) \/ Release(w) \/ Retry(w) \/ Bury(w)
    \/ Prepare(w) \/ Query(w) \/ ZipFails(w)
    \/ SendBillSync(w) \/ SendTestSetAsync(w) \/ SendFails(w)
    \/ Accepted(w) \/ Rejected(w) \/ SentAsync(w) \/ Fail(w)
    \/ TransmissionFailed(w) \/ GetStatusZip(w) \/ PollUnresolved(w)

Next ==
    \/ \E d \in Doc : Issue(d) \/ RequeueContingency(d)
    \/ \E w \in Worker : Step(w) \/ Abandon(w)
    \/ \E w \in Worker, j \in JobId : Claim(w, j)
    \/ ClaimNothing
    \/ \E j \in JobId : LeaseExpires(j) \/ RetryDeadJob(j)
    \/ \E d \in Doc : ReceiveLate(d) \/ Validate(d)

Spec == Init /\ [][Next]_vars

-----------------------------------------------------------------------------
(* Liveness: workers keep claiming and stepping (claim_loop), leases pass, *)
(* the reconciler keeps running, and a breaker whose cooldown passes lets  *)
(* a task through sooner or later.  Nothing forces the administrator, the  *)
(* DIAN, a crash or a late request to act.                                 *)

Allowed(w) == Load(w) /\ pc'[w] \in {"prepare", "getzip"}

Fairness ==
    /\ \A w \in Worker :
          /\ WF_vars(Step(w))
          /\ SF_vars(Allowed(w))
    /\ \A j \in JobId :
          /\ WF_vars(\E w \in Worker : Claim(w, j))
          /\ WF_vars(LeaseExpires(j))
    /\ WF_vars(ClaimNothing)
    /\ \A d \in Doc : WF_vars(RequeueContingency(d))

-----------------------------------------------------------------------------
(* Properties of every execution, late tasks included.                     *)

\* The database never contradicts the DIAN on an acceptance: dian_accepted is
\* only written for a document that the DIAN has accepted, whichever of
\* SendBillSync, GetStatus or GetStatusZip said so, and however stale the
\* task that writes it.
AcceptedByDian ==
    \A d \in Doc : status[d] = "DianAccepted" => dian[d] = "accepted"

\* apply_transition writes the event with the status: the audit trail
\* (dian_events) of a document has a verdict exactly when its status is that
\* verdict, so it never holds two, and never one that a lost race rolled back.
AuditTrail ==
    \A d \in Doc :
       /\ "ACCEPTED" \in events[d] <=> status[d] = "DianAccepted"
       /\ "REJECTED" \in events[d] <=> status[d] = "DianRejected"
       /\ "PROCESSING_FAILED" \in events[d] <=> status[d] = "ProcessingFailed"
       /\ status[d] = "SentDian" => "SENT_ASYNC" \in events[d]

\* The outbox of apply_transition: a document in a final status has published
\* that status as its last notification, and no document has published a
\* final status that it is not in, or a second one.
NotifiedOnce ==
    \A d \in Doc :
       /\ IsTerminal(status[d]) =>
             outbox[d] # <<>> /\ outbox[d][Len(outbox[d])] = status[d]
       /\ \A i \in 1..Len(outbox[d]) :
             IsTerminal(outbox[d][i]) =>
                 i = Len(outbox[d]) /\ status[d] = outbox[d][i]

\* Every execution is one of the abstract specification: documents move along
\* the edges of the state machine only, each arrival with its notification.
Abstract ==
    INSTANCE DocumentLifecycle WITH Doc <- Doc, status <- status, outbox <- outbox

LifecycleRefined == Abstract!Spec

\* The store of the use cases' tests, on the tables of this one.
Memory ==
    INSTANCE InMemoryQueue WITH
        Doc <- Doc, MaxAttempts <- MaxAttempts, MaxRows <- MaxRows,
        MaxSignings <- MaxSignings, EventCode <- EventCode,
        status <- status, xml <- xml, events <- events, outbox <- outbox,
        jobs <- jobs

\* testing.rs says of InMemoryStore that it reproduces the adapter of
\* PostgreSQL, each operation of the ports atomic.  The reaping of jobs that
\* precedes a claim apart, it does: whatever the workers, the reconciler and
\* the administrator do at once, the tables move by operations of that store.
StoreIsInMemory ==
    /\ Memory!Init
    /\ [][\/ Memory!Next
          \/ jobs' = Reaped /\ UNCHANGED <<status, xml, events, outbox>>
          \/ \E j \in JobId : Memory!Claim(Reaped, j)]_Memory!store

(* Properties of the executions in which no task outlives its lease.       *)

\* Claim, lease, unique index and reconciler together: no two tasks work on
\* the same document at the same time.
Exclusive ==
    \A v, w \in Worker :
       v # w /\ pc[v] # "idle" /\ pc[w] # "idle" => Document(v) # Document(w)

\* What find_document returned is still true when the task acts on it several
\* calls later: no document is signed, sent or polled that has moved on.
LoadedStatusHolds ==
    \A w \in Worker :
       /\ pc[w] \in {"prepare", "query", "send", "unsent", "sent", "broken"} =>
             status[Document(w)] = "Pending"
       /\ pc[w] \in {"getzip", "unresolved"} =>
             status[Document(w)] = "SentDian"

HasJob(d, k, S) ==
    \E j \in JobId : DocOf(j) = d /\ KindOf(j) = k /\ jobs[j].status \in S

\* No document is forgotten: one that is not final has an active job that
\* will move it, or a dead one that the administrator sees; and one in
\* contingency is free for the reconciler.
NotForgotten ==
    \A d \in Doc :
       /\ status[d] = "Pending" =>
             HasJob(d, "transmit", {"queued", "running", "dead"})
       /\ status[d] = "SentDian" =>
             HasJob(d, "poll_status", {"queued", "running", "dead"})
       /\ status[d] = "ContingencyPending" =>
             /\ HasJob(d, "transmit", {"dead"})
             /\ ~HasJob(d, "transmit", {"queued", "running"})

\* The XML is stored before it is sent and reused by every later attempt: all
\* that the DIAN was ever sent for a document is its stored signed_xml.
SentIsStored == \A d \in Doc : sent[d] \subseteq {xml[d]}

\* processing_failed is a failure before transmission: no attempt, of this
\* job or of an earlier one, ever put the document on the wire.
FailedNeverSent ==
    \A d \in Doc :
       status[d] = "ProcessingFailed" => sent[d] = {} /\ dian[d] = "none"

\* The document has no job of that kind under way, and the last word of one is
\* the dead-letter queue.
Buried(d, k) == HasJob(d, k, {"dead"}) /\ ~HasJob(d, k, {"queued", "running"})

\* Whatever crashes, timeouts, failed sends and open breakers a document
\* meets, it leaves Pending and SentDian, or its job ends in the dead-letter
\* queue with no other left that is active: a document that was requeued from
\* contingency, and so has a dead job of before, does not stay for ever with
\* one that is queued or running.  And it leaves contingency while a job row
\* is left (MaxRows).
Settles ==
    \A d \in Doc :
       /\ status[d] = "Pending" ~> status[d] # "Pending" \/ Buried(d, "transmit")
       /\ status[d] = "SentDian" ~> status[d] # "SentDian" \/ Buried(d, "poll_status")
       /\ (status[d] = "ContingencyPending" /\ HasJob(d, "transmit", {"free"}))
             ~> status[d] # "ContingencyPending"

(* What the README says of the program, and the program does not do.       *)

\* README section 5.6: a document that exhausts TRANSMIT_MAX_ATTEMPTS goes to
\* contingency_pending and its job to dead; so a pending document has an
\* active job.
ExhaustedGoesToContingency ==
    \A d \in Doc :
       status[d] = "Pending" => HasJob(d, "transmit", {"queued", "running"})

\* README section 5.4: before a resend GetStatus is asked, and a document that
\* the DIAN already accepted is not transmitted again.
AsksBeforeResend ==
    \A w \in Worker :
       /\ pc[w] = "send"
       /\ Document(w) \notin testSet
       /\ dian[Document(w)] = "accepted"
       => task[w].asked
=============================================================================
