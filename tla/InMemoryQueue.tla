--------------------------- MODULE InMemoryQueue ---------------------------
(***************************************************************************)
(* The documents and jobs of InMemoryStore, the store that the tests of    *)
(* the use cases run on.  One mutex is the transaction, so each operation  *)
(* of the ports is one action.  Processing, over the tables of PostgreSQL, *)
(* is compared with it.                                                    *)
(*                                                                         *)
(* locked_until is read of running jobs only, and each claim sets it       *)
(* anew: leased is FALSE in every other status.                            *)
(***************************************************************************)
EXTENDS Lifecycle, Integers, Sequences

CONSTANTS Doc, MaxAttempts, MaxRows, MaxSignings, EventCode

VARIABLES
    status,   \* status of each document
    xml,      \* version of its signed_xml, 0 for None
    events,   \* codes of its events
    outbox,   \* notifications of it among the deliveries
    jobs      \* StoredJob of each id; "free" when the id is not in use

store == <<status, xml, events, outbox, jobs>>

JobKind == {"transmit", "poll_status"}

JobId == Doc \X JobKind \X (1..MaxRows)

StoredJob(s, a, l) == [status |-> s, attempts |-> a, leased |-> l]

Init ==
    /\ status = [d \in Doc |-> Absent]
    /\ xml = [d \in Doc |-> 0]
    /\ events = [d \in Doc |-> {}]
    /\ outbox = [d \in Doc |-> <<>>]
    /\ jobs = [j \in JobId |-> StoredJob("free", 0, FALSE)]

\* State::has_active_job
HasActiveJob(d, k) ==
    \E n \in 1..MaxRows : jobs[<<d, k, n>>].status \in {"queued", "running"}

\* State::insert_job: rows with one more queued job of the kind, for any id
\* that is not in use.
Inserted(rows, d, k) ==
    {[rows EXCEPT ![<<d, k, n>>] = StoredJob("queued", 0, FALSE)] :
        n \in {m \in 1..MaxRows : rows[<<d, k, m>>].status = "free"}}

\* issue_outbound, its document and its job.
IssueOutbound(d) ==
    /\ status[d] = Absent
    /\ status' = [status EXCEPT ![d] = "Pending"]
    /\ jobs' \in Inserted(jobs, d, "transmit")
    /\ UNCHANGED <<xml, events, outbox>>

\* store_artifacts
StoreArtifacts(d, v) ==
    /\ status[d] # Absent
    /\ xml' = [xml EXCEPT ![d] = v]
    /\ UNCHANGED <<status, events, outbox, jobs>>

\* record_event
RecordEvent(d, code) ==
    /\ events' = [events EXCEPT ![d] = @ \cup {code}]
    /\ UNCHANGED <<status, xml, outbox, jobs>>

\* apply_transition: the status and its notification; then the event, the
\* outcome of job j and perhaps a poll as follow-up.  When that one conflicts
\* with an active poll the rest is done already: the mutex does not roll back.
ApplyTransition(d, to) ==
    /\ status' = [status EXCEPT ![d] = to]
    /\ status[d] \in AllowedPredecessors(to)
    /\ outbox' = [outbox EXCEPT ![d] = @ \o EventFor(to)]
    /\ \E code \in EventCode : events' = [events EXCEPT ![d] = @ \cup {code}]
    /\ \E j \in JobId, outcome \in {"done", "dead"}, followUp \in BOOLEAN :
          LET closed == [jobs EXCEPT ![j].status = outcome, ![j].leased = FALSE]
          IN
          /\ jobs[j].status # "free"
          /\ IF followUp /\ ~HasActiveJob(d, "poll_status")
             THEN jobs' \in Inserted(closed, d, "poll_status")
             ELSE jobs' = closed
    /\ UNCHANGED xml

\* claim, its filters: due (at any time), or with an expired lease.
Ready(rows, j) ==
    /\ \/ rows[j].status = "queued"
       \/ rows[j].status = "running" /\ ~rows[j].leased
    /\ rows[j].attempts < MaxAttempts[j[2]]

\* claim, on one of the jobs that it returns.
Claim(rows, j) ==
    /\ Ready(rows, j)
    /\ jobs' = [rows EXCEPT ![j] = StoredJob("running", rows[j].attempts + 1, TRUE)]
    /\ UNCHANGED <<status, xml, events, outbox>>

\* complete, retry and bury: the status changes and nothing else does.
SetStatus(j, s) ==
    /\ jobs[j].status # "free"
    /\ jobs' = [jobs EXCEPT ![j] = StoredJob(s, jobs[j].attempts, FALSE)]
    /\ UNCHANGED <<status, xml, events, outbox>>

\* release
Release(j) ==
    /\ jobs[j].status # "free"
    /\ LET a == jobs[j].attempts - 1
       IN  jobs' = [jobs EXCEPT ![j] =
                      StoredJob("queued", IF a > 0 THEN a ELSE 0, FALSE)]
    /\ UNCHANGED <<status, xml, events, outbox>>

\* requeue_contingency, on one of its candidates.
RequeueContingency(d) ==
    /\ status[d] = "ContingencyPending"
    /\ ~HasActiveJob(d, "transmit")
    /\ status' = [status EXCEPT ![d] = "Pending"]
    /\ jobs' \in Inserted(jobs, d, "transmit")
    /\ UNCHANGED <<xml, events, outbox>>

\* retry_dead_job
RetryDeadJob(j) ==
    LET d == j[1] IN
    /\ jobs[j].status = "dead"
    /\ status[d] \in IF j[2] = "transmit" THEN {"Pending", "ContingencyPending"}
                                          ELSE {"SentDian"}
    /\ ~HasActiveJob(d, j[2])
    /\ status' = [status EXCEPT ![d] = IF j[2] = "transmit" THEN "Pending" ELSE @]
    /\ jobs' = [jobs EXCEPT ![j] = StoredJob("queued", 0, FALSE)]
    /\ UNCHANGED <<xml, events, outbox>>

\* Time passes locked_until.
LeasePasses(j) ==
    /\ jobs[j].leased
    /\ jobs' = [jobs EXCEPT ![j].leased = FALSE]
    /\ UNCHANGED <<status, xml, events, outbox>>

Next ==
    \/ \E d \in Doc :
          \/ IssueOutbound(d) \/ RequeueContingency(d)
          \/ \E v \in 1..MaxSignings : StoreArtifacts(d, v)
          \/ \E code \in EventCode : RecordEvent(d, code)
          \/ \E to \in DocumentStatus : ApplyTransition(d, to)
    \/ \E j \in JobId :
          \/ Claim(jobs, j) \/ Release(j) \/ RetryDeadJob(j) \/ LeasePasses(j)
          \/ \E s \in {"done", "queued", "dead"} : SetStatus(j, s)

Spec == Init /\ [][Next]_store
=============================================================================
