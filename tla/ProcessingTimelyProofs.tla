----------------------- MODULE ProcessingTimelyProofs -----------------------
(***************************************************************************)
(* Theorems about Processing while no task outlives its lease (~LateTasks, *)
(* which the worker checks at its start: JOB_TIMEOUT_SECS is less than     *)
(* JOB_LEASE_SECS), for every set of documents and task slots and every    *)
(* bound.                                                                  *)
(***************************************************************************)
EXTENDS ProcessingProofs

-----------------------------------------------------------------------------
(* The invariant of the queue.                                             *)

\* A task that works holds a job that runs, under a lease that lasts.
HoldersLeased ==
    \A w \in Worker :
       pc[w] # "idle" => jobs[JobOf(w)].status = "running" /\ jobs[JobOf(w)].leased

\* No two tasks hold the same job.
OneHolder ==
    \A v, w \in Worker :
       v # w /\ pc[v] # "idle" /\ pc[w] # "idle" => JobOf(v) # JobOf(w)

\* uq_jobs_active_per_document
OneActive ==
    \A i, j \in JobId :
       Active(i) /\ Active(j) /\ DocOf(i) = DocOf(j) /\ KindOf(i) = KindOf(j) => i = j

\* An active job is there to move its document.
Expected(k) == IF k = "transmit" THEN "Pending" ELSE "SentDian"

ActiveExpected ==
    \A j \in JobId : Active(j) => status[DocOf(j)] = Expected(KindOf(j))

\* A task is where the kind of its job takes it, and never has to close a job
\* whose document moved on.
TransmitOnly == {"prepare", "query", "send", "broken", "unsent", "sent"}
PollOnly     == {"getzip", "unresolved", "bury"}

RightPlace ==
    \A w \in Worker :
       /\ pc[w] # "close"
       /\ pc[w] \in TransmitOnly => KindOf(JobOf(w)) = "transmit"
       /\ pc[w] \in PollOnly => KindOf(JobOf(w)) = "poll_status"

QueueInv ==
    /\ HoldersLeased /\ OneHolder /\ OneActive /\ ActiveExpected /\ RightPlace
    /\ NotForgotten


-----------------------------------------------------------------------------
(* What one step may do to the queue.                                      *)

\* A task goes on: only where it is changes.
Continues(w) ==
    /\ UNCHANGED <<status, jobs>>
    /\ \A v \in Worker : task'[v].job = task[v].job
    /\ \A v \in Worker : v # w => pc'[v] = pc[v]
    /\ pc[w] # "idle" /\ pc'[w] \notin {"idle", "close"}
    /\ pc'[w] \in TransmitOnly => KindOf(JobOf(w)) = "transmit"
    /\ pc'[w] \in PollOnly => KindOf(JobOf(w)) = "poll_status"

\* A task ends and its document stays where it is: its job is queued again,
\* dead, or left to its lease.
Ends(w) ==
    /\ pc[w] # "idle" /\ End(w) /\ UNCHANGED status
    /\ \/ UNCHANGED jobs
       \/ \E s \in {"queued", "dead"}, a \in Nat :
             jobs' = [jobs EXCEPT ![JobOf(w)] =
                        [status |-> s, attempts |-> a, leased |-> FALSE]]

\* A task ends with its document in another status, its job closed and, after
\* an asynchronous send, a poll in its place.
Closed(w, s) == [jobs EXCEPT ![JobOf(w)] = Ended(JobOf(w), s)]

Finishes(w, to) ==
    /\ pc[w] # "idle" /\ End(w)
    /\ status' = [status EXCEPT ![Document(w)] = to]
    /\ \/ /\ to \in {"DianAccepted", "DianRejected", "ProcessingFailed"}
          /\ jobs' = Closed(w, "done")
       \/ /\ to = "ContingencyPending" /\ KindOf(JobOf(w)) = "transmit"
          /\ jobs' = Closed(w, "dead")
       \/ /\ to = "SentDian" /\ KindOf(JobOf(w)) = "transmit"
          /\ \E j \in JobId :
                /\ DocOf(j) = Document(w) /\ KindOf(j) = "poll_status"
                /\ jobs[j].status = "free"
                /\ jobs' = [Closed(w, "done") EXCEPT ![j] = NewRow]

\* A job enters the queue for a document that has no active job of its kind:
\* issued, requeued by the reconciler or by the administrator.
Enters(j) ==
    /\ UNCHANGED taskVars
    /\ jobs[j].status \in {"free", "dead"}
    /\ jobs' = [jobs EXCEPT ![j] = NewRow]
    /\ \/ /\ KindOf(j) = "transmit"
          /\ status[DocOf(j)] \in {Absent, "Pending", "ContingencyPending"}
          /\ ~IndexTaken(j) \/ status[DocOf(j)] # "Pending"
          /\ status' = [status EXCEPT ![DocOf(j)] = "Pending"]
       \/ /\ KindOf(j) = "poll_status"
          /\ status[DocOf(j)] = "SentDian" /\ ~IndexTaken(j)
          /\ UNCHANGED status

-----------------------------------------------------------------------------
(* Facts that follow from the invariant.                                   *)

\* The document of a working task is in the status its job expects.
LEMMA HeldExpected ==
    ASSUME TypeOK, QueueInv, NEW w \in Worker, pc[w] # "idle"
    PROVE  /\ JobOf(w) \in JobId /\ Document(w) \in Doc
           /\ KindOf(JobOf(w)) \in JobKind
           /\ Active(JobOf(w)) /\ jobs[JobOf(w)].status = "running"
           /\ jobs[JobOf(w)].leased
           /\ status[Document(w)] = Expected(KindOf(JobOf(w)))
  <1>1. JobOf(w) \in JobId /\ Document(w) \in Doc /\ KindOf(JobOf(w)) \in JobKind
    BY WorkingTask
  <1>2. jobs[JobOf(w)].status = "running" /\ jobs[JobOf(w)].leased
    BY DEF QueueInv, HoldersLeased
  <1>3. Active(JobOf(w))
    BY <1>2 DEF Active
  <1>4. QED
    BY <1>1, <1>2, <1>3 DEF QueueInv, ActiveExpected, Document, JobOf

\* So its transaction always applies.
LEMMA TransitionFinishes ==
    ASSUME TypeOK, QueueInv, NEW w \in Worker, pc[w] # "idle"
    PROVE  /\ Transition(w, "DianAccepted", "ACCEPTED", "done", FALSE)
                 => Finishes(w, "DianAccepted")
           /\ Transition(w, "DianRejected", "REJECTED", "done", FALSE)
                 => Finishes(w, "DianRejected")
           /\ KindOf(JobOf(w)) = "transmit" =>
                 /\ Transition(w, "SentDian", "SENT_ASYNC", "done", TRUE)
                       => Finishes(w, "SentDian")
                 /\ Transition(w, "ProcessingFailed", "PROCESSING_FAILED", "done", FALSE)
                       => Finishes(w, "ProcessingFailed")
                 /\ Transition(w, "ContingencyPending", "HTTP_ERROR", "dead", FALSE)
                       => Finishes(w, "ContingencyPending")
  <1>1. status[Document(w)] = Expected(KindOf(JobOf(w))) /\ KindOf(JobOf(w)) \in JobKind
    BY HeldExpected
  <1>2. /\ Applies(Document(w), "DianAccepted") /\ Applies(Document(w), "DianRejected")
        /\ KindOf(JobOf(w)) = "transmit" =>
              /\ Applies(Document(w), "SentDian")
              /\ Applies(Document(w), "ProcessingFailed")
              /\ Applies(Document(w), "ContingencyPending")
    BY <1>1, Predecessors DEF Applies, Expected
  <1>3. ASSUME Transition(w, "SentDian", "SENT_ASYNC", "done", TRUE),
               KindOf(JobOf(w)) = "transmit"
        PROVE  Finishes(w, "SentDian")
    BY <1>2, <1>3 DEF Transition, Finishes, Closed, IsNextRow
  <1>4. QED
    BY <1>2, <1>3 DEF Transition, Finishes, Closed

\* Each step of a task is one of the three.
LEMMA StepShape ==
    ASSUME TypeOK, QueueInv, NEW w \in Worker, Step(w)
    PROVE  Continues(w) \/ Ends(w) \/ \E to \in DocumentStatus : Finishes(w, to)
  <1> USE DEF docVars
  <1>0. /\ pc[w] # "idle" /\ pc[w] # "close"
        /\ pc \in [Worker -> Location] /\ task \in [Worker -> Task]
    <2>1. pc[w] # "idle"
      BY DEF Step, Load, Complete, Release, Retry, Bury, Prepare, Query, ZipFails,
             SendBillSync, SendTestSetAsync, SendFails, Accepted, Rejected,
             SentAsync, Fail, TransmissionFailed, GetStatusZip, PollUnresolved
    <2>2. QED
      BY <2>1 DEF QueueInv, RightPlace, TypeOK
  <1>1. /\ JobOf(w) \in JobId /\ KindOf(JobOf(w)) \in JobKind
        /\ status[Document(w)] = Expected(KindOf(JobOf(w)))
        /\ pc[w] \in TransmitOnly => KindOf(JobOf(w)) = "transmit"
        /\ pc[w] \in PollOnly => KindOf(JobOf(w)) = "poll_status"
    BY <1>0, HeldExpected DEF QueueInv, RightPlace
  <1>2. ASSUME NEW l \in Location, Goto(w, l), UNCHANGED <<status, jobs>>,
               l \notin {"idle", "close"},
               l \in TransmitOnly => KindOf(JobOf(w)) = "transmit",
               l \in PollOnly => KindOf(JobOf(w)) = "poll_status"
        PROVE  Continues(w)
    BY <1>0, <1>2 DEF Goto, Continues
  <1>3. CASE Load(w)
    <2>1. status[Document(w)] = IF KindOf(JobOf(w)) = "transmit" THEN "Pending" ELSE "SentDian"
      BY <1>1 DEF Expected
    <2>2. CASE Goto(w, "release")
      BY <1>2, <1>3, <2>2 DEF Load, Location, TransmitOnly, PollOnly
    <2>3. CASE ~Goto(w, "release")
      <3>1. /\ pc' = [pc EXCEPT ![w] = IF KindOf(JobOf(w)) = "transmit" THEN "prepare"
                                                                       ELSE "getzip"]
            /\ task' = [task EXCEPT ![w].xml = xml[Document(w)]]
            /\ UNCHANGED <<status, jobs>>
        BY <1>3, <2>1, <2>3 DEF Load
      <3>2. \A v \in Worker : task'[v].job = task[v].job
        BY <1>0, <3>1 DEF Task
      <3>3. QED
        BY <1>0, <1>1, <3>1, <3>2 DEF Continues, TransmitOnly, PollOnly, JobKind
    <2>4. QED
      BY <2>2, <2>3
  <1>4. CASE Complete(w)
    BY <1>0, <1>4 DEF Complete
  <1>5. CASE Release(w) \/ Retry(w)
    <2>1. jobs[JobOf(w)].attempts \in Nat
      BY <1>1 DEF TypeOK, JobRow
    <2>2. \E a \in Nat : SetQueued(JobOf(w), a)
      BY <1>5, <2>1 DEF Release, Retry
    <2>3. QED
      BY <1>0, <1>5, <2>2 DEF Release, Retry, SetQueued, Ends
  <1>6. CASE Bury(w)
    <2>1. jobs[JobOf(w)].attempts \in Nat
      BY <1>1 DEF TypeOK, JobRow
    <2>2. QED
      BY <1>0, <1>6, <2>1 DEF Bury, Ended, Ends
  <1>7. CASE Prepare(w)
    <2>1. pc[w] = "prepare" /\ KindOf(JobOf(w)) = "transmit" /\ UNCHANGED <<status, jobs>>
      BY <1>1, <1>7 DEF Prepare, TransmitOnly
    <2>2. AfterPrepare(w) \in {"query", "send"}
      BY DEF AfterPrepare
    <2>3. \E l \in {"query", "send", "broken"} : pc' = [pc EXCEPT ![w] = l]
      BY <1>7, <2>2 DEF Prepare, Goto
    <2>4. \A v \in Worker : task'[v].job = task[v].job
      <3>1. UNCHANGED task \/ task' = [task EXCEPT ![w].xml = xml[Document(w)] + 1]
        BY <1>7 DEF Prepare, Goto
      <3>2. QED
        BY <1>0, <3>1 DEF Task
    <2>5. QED
      BY <1>0, <2>1, <2>3, <2>4 DEF Continues, PollOnly
  <1>8. CASE Query(w)
    <2>1. pc[w] = "query" /\ KindOf(JobOf(w)) = "transmit" /\ UNCHANGED <<status, jobs>>
      BY <1>1, <1>8 DEF Query, TransmitOnly
    <2>2. \E l \in {"accepted", "send"} : pc' = [pc EXCEPT ![w] = l]
      BY <1>8 DEF Query
    <2>3. \A v \in Worker : task'[v].job = task[v].job
      BY <1>0, <1>8 DEF Query, Task
    <2>4. QED
      BY <1>0, <2>1, <2>2, <2>3 DEF Continues, PollOnly
  <1>9. CASE ZipFails(w) \/ SendBillSync(w) \/ SendTestSetAsync(w) \/ SendFails(w)
    <2>1. pc[w] = "send" /\ KindOf(JobOf(w)) = "transmit" /\ UNCHANGED <<status, jobs>>
      BY <1>1, <1>9 DEF ZipFails, SendBillSync, SendTestSetAsync, SendFails, TransmitOnly
    <2>2. \E l \in {"broken", "accepted", "rejected", "sent", "unsent"} : Goto(w, l)
      BY <1>9 DEF ZipFails, SendBillSync, SendTestSetAsync, SendFails
    <2>3. QED
      BY <1>2, <2>1, <2>2 DEF Location, PollOnly
  <1>10. CASE GetStatusZip(w)
    <2>1. /\ pc[w] = "getzip" /\ KindOf(JobOf(w)) = "poll_status"
          /\ UNCHANGED <<status, jobs>>
          /\ \E l \in {"accepted", "rejected", "unresolved"} : Goto(w, l)
      BY <1>1, <1>10 DEF GetStatusZip, PollOnly
    <2>2. QED
      BY <1>2, <2>1 DEF Location, TransmitOnly
  <1>11. CASE PollUnresolved(w)
    <2>1. /\ pc[w] = "unresolved" /\ KindOf(JobOf(w)) = "poll_status"
          /\ UNCHANGED <<status, jobs>>
          /\ \E l \in {"bury", "retry"} : Goto(w, l)
      BY <1>1, <1>11 DEF PollUnresolved, PollOnly
    <2>2. QED
      BY <1>2, <2>1 DEF Location, TransmitOnly
  <1>12. CASE Accepted(w) \/ Rejected(w)
    BY <1>0, <1>12, TransitionFinishes DEF Accepted, Rejected, DocumentStatus
  <1>13. CASE SentAsync(w)
    <2>1. KindOf(JobOf(w)) = "transmit"
      BY <1>1, <1>13 DEF SentAsync, TransmitOnly
    <2>2. QED
      BY <1>0, <1>13, <2>1, TransitionFinishes DEF SentAsync, DocumentStatus
  <1>14. CASE Fail(w)
    <2>1. KindOf(JobOf(w)) = "transmit"
      BY <1>1, <1>14 DEF Fail, TransmitOnly
    <2>2. QED
      BY <1>0, <1>14, <2>1, TransitionFinishes DEF Fail, DocumentStatus
  <1>15. CASE TransmissionFailed(w)
    <2>1. KindOf(JobOf(w)) = "transmit"
      BY <1>1, <1>15 DEF TransmissionFailed, TransmitOnly
    <2>2. CASE IsLastAttempt(w)
      BY <1>0, <1>15, <2>1, <2>2, TransitionFinishes DEF TransmissionFailed, DocumentStatus
    <2>3. CASE ~IsLastAttempt(w)
      BY <1>2, <1>15, <2>3 DEF TransmissionFailed, Location, TransmitOnly, PollOnly
    <2>4. QED
      BY <2>2, <2>3
  <1>16. QED
    BY <1>3, <1>4, <1>5, <1>6, <1>7, <1>8, <1>9, <1>10, <1>11, <1>12, <1>13, <1>14,
       <1>15 DEF Step

-----------------------------------------------------------------------------
(* The invariant is kept, shape by shape.                                  *)

\* A document that is still in its status, whose rows that were queued,
\* running or dead still are one of these, is not forgotten.
LEMMA StillRemembered ==
    ASSUME TypeOK, NotForgotten, NEW d \in Doc,
           status'[d] = status[d],
           \A j \in JobId :
              DocOf(j) = d =>
                 /\ jobs[j].status \in {"queued", "running", "dead"} =>
                       jobs'[j].status \in {"queued", "running", "dead"}
                 /\ status[d] = "ContingencyPending" /\ KindOf(j) = "transmit" =>
                       jobs'[j].status = jobs[j].status
    PROVE  /\ status'[d] = "Pending" =>
                 \E j \in JobId : /\ DocOf(j) = d /\ KindOf(j) = "transmit"
                                  /\ jobs'[j].status \in {"queued", "running", "dead"}
           /\ status'[d] = "SentDian" =>
                 \E j \in JobId : /\ DocOf(j) = d /\ KindOf(j) = "poll_status"
                                  /\ jobs'[j].status \in {"queued", "running", "dead"}
           /\ status'[d] = "ContingencyPending" =>
                 /\ \E j \in JobId : /\ DocOf(j) = d /\ KindOf(j) = "transmit"
                                     /\ jobs'[j].status \in {"dead"}
                 /\ ~ \E j \in JobId : /\ DocOf(j) = d /\ KindOf(j) = "transmit"
                                       /\ jobs'[j].status \in {"queued", "running"}
  BY DEF NotForgotten, HasJob

\* A task that moves on, with its job as it was, keeps the invariant of the
\* queue.
LEMMA ContinuesKeeps ==
    ASSUME TypeOK, QueueInv, NEW w \in Worker, Continues(w)
    PROVE  QueueInv'
  <1>1. /\ UNCHANGED <<status, jobs>>
        /\ \A v \in Worker : JobOf(v)' = JobOf(v)
        /\ \A v \in Worker : pc'[v] # "idle" <=> pc[v] # "idle"
    BY DEF Continues, JobOf
  <1>2. HoldersLeased' /\ OneHolder'
    BY <1>1 DEF QueueInv, HoldersLeased, OneHolder
  <1>3. OneActive' /\ ActiveExpected' /\ NotForgotten'
    BY <1>1 DEF QueueInv, OneActive, ActiveExpected, NotForgotten, HasJob, Active
  <1>4. RightPlace'
    BY <1>1 DEF QueueInv, RightPlace, Continues
  <1>5. QED
    BY <1>2, <1>3, <1>4 DEF QueueInv

\* What is left of the tasks when one of them ends.
LEMMA OthersStay ==
    ASSUME TypeOK, QueueInv, NEW w \in Worker, pc[w] # "idle", End(w)
    PROVE  /\ pc'[w] = "idle"
           /\ \A v \in Worker :
                 v # w => pc'[v] = pc[v] /\ JobOf(v)' = JobOf(v)
           /\ \A v \in Worker : v # w /\ pc[v] # "idle" => JobOf(v) # JobOf(w)
           /\ OneHolder' /\ RightPlace'
  <1>1. /\ pc'[w] = "idle"
        /\ \A v \in Worker : v # w => pc'[v] = pc[v] /\ JobOf(v)' = JobOf(v)
    BY DEF TypeOK, End, JobOf
  <1>2. \A v \in Worker : v # w /\ pc[v] # "idle" => JobOf(v) # JobOf(w)
    BY DEF QueueInv, OneHolder
  <1>3. OneHolder'
    BY <1>1 DEF QueueInv, OneHolder
  <1>4. RightPlace'
    BY <1>1 DEF QueueInv, RightPlace, TransmitOnly, PollOnly
  <1>5. QED
    BY <1>1, <1>2, <1>3, <1>4

\* A task that ends with its document as it was, its job left running, queued
\* again or buried, keeps the invariant of the queue.
LEMMA EndsKeeps ==
    ASSUME TypeOK, QueueInv, NEW w \in Worker, Ends(w)
    PROVE  QueueInv'
  <1>1. pc[w] # "idle" /\ End(w) /\ UNCHANGED status
    BY DEF Ends
  <1>2. JobOf(w) \in JobId /\ jobs[JobOf(w)].status = "running"
    BY <1>1, HeldExpected
  <1>3. /\ \A j \in JobId : j # JobOf(w) => jobs'[j] = jobs[j]
        /\ jobs'[JobOf(w)].status \in {"queued", "running", "dead"}
    BY <1>2 DEF Ends, TypeOK
  <1>4. HoldersLeased'
    <2> SUFFICES ASSUME NEW v \in Worker, pc'[v] # "idle"
                 PROVE  jobs'[JobOf(v)'].status = "running" /\ jobs'[JobOf(v)'].leased
      BY DEF HoldersLeased
    <2>1. v # w /\ pc[v] # "idle" /\ JobOf(v)' = JobOf(v) /\ JobOf(v) # JobOf(w)
      BY <1>1, OthersStay
    <2>2. QED
      BY <1>3, <2>1, HeldExpected
  <1>5. \A j \in JobId : Active(j)' => Active(j)
    BY <1>2, <1>3 DEF Active
  <1>6. OneActive' /\ ActiveExpected'
    BY <1>1, <1>5 DEF QueueInv, OneActive, ActiveExpected
  <1>7. NotForgotten'
    <2>1. ASSUME NEW j \in JobId
          PROVE  /\ jobs[j].status \in {"queued", "running", "dead"} =>
                       jobs'[j].status \in {"queued", "running", "dead"}
                 /\ status[DocOf(j)] = "ContingencyPending" /\ KindOf(j) = "transmit" =>
                       jobs'[j].status = jobs[j].status
      <3>1. CASE j # JobOf(w)
        BY <1>3, <3>1
      <3>2. CASE j = JobOf(w)
        <4>1. status[DocOf(j)] \in {"Pending", "SentDian"}
          BY <1>1, <3>2, HeldExpected DEF Expected, Document, JobOf
        <4>2. QED
          BY <1>3, <3>2, <4>1
      <3>3. QED
        BY <3>1, <3>2
    <2>2. \A d \in Doc : status'[d] = status[d]
      BY <1>1
    <2>3. QED
      BY <2>1, <2>2, StillRemembered DEF NotForgotten, HasJob, QueueInv
  <1>8. QED
    BY <1>1, <1>4, <1>6, <1>7, OthersStay DEF QueueInv

\* A guarded transition that closes its job, with or without a poll to
\* follow, keeps the invariant of the queue.
LEMMA FinishesKeeps ==
    ASSUME TypeOK, QueueInv, NEW w \in Worker, NEW to \in DocumentStatus, Finishes(w, to)
    PROVE  QueueInv'
  <1> DEFINE d == Document(w)
  <1>1. pc[w] # "idle" /\ End(w) /\ status' = [status EXCEPT ![d] = to]
    BY DEF Finishes
  <1>2. /\ JobOf(w) \in JobId /\ jobs[JobOf(w)].status = "running" /\ Active(JobOf(w))
        /\ d \in Doc /\ d = DocOf(JobOf(w)) /\ KindOf(JobOf(w)) \in JobKind
        /\ status[d] = Expected(KindOf(JobOf(w)))
    BY <1>1, HeldExpected DEF Document, JobOf
  <1> HIDE DEF d
  <1>3. /\ status'[d] = to /\ \A e \in Doc : e # d => status'[e] = status[e]
    BY <1>1, <1>2 DEF TypeOK
  \* The follow-up, when there is one, is a row of its own.
  <1>4. PICK p : /\ p \in JobId => /\ to = "SentDian" /\ DocOf(p) = d
                                   /\ KindOf(p) = "poll_status" /\ p # JobOf(w)
                                   /\ jobs[p].status = "free" /\ jobs'[p] = NewRow
                 /\ to = "SentDian" => p \in JobId
                 /\ \A j \in JobId : j # JobOf(w) /\ j # p => jobs'[j] = jobs[j]
                 /\ jobs'[JobOf(w)].status = IF to = "ContingencyPending" THEN "dead" ELSE "done"
                 /\ to = "ContingencyPending" => KindOf(JobOf(w)) = "transmit"
    <2>1. CASE to # "SentDian"
      <3>1. /\ \A j \in JobId : j # JobOf(w) => jobs'[j] = jobs[j]
            /\ jobs'[JobOf(w)].status = IF to = "ContingencyPending" THEN "dead" ELSE "done"
            /\ to = "ContingencyPending" => KindOf(JobOf(w)) = "transmit"
        BY <1>2, <2>1 DEF Finishes, Closed, Ended, TypeOK
      <3>2. NoJob \notin JobId
        BY ConstantsAssumption
      <3>3. QED
        BY <2>1, <3>1, <3>2
    <2>2. CASE to = "SentDian"
      <3>1. PICK j \in JobId :
                /\ DocOf(j) = d /\ KindOf(j) = "poll_status" /\ jobs[j].status = "free"
                /\ jobs' = [Closed(w, "done") EXCEPT ![j] = NewRow]
        BY <2>2 DEF Finishes, d
      <3>2. j # JobOf(w)
        BY <1>2, <3>1
      <3>3. /\ Closed(w, "done") \in [JobId -> JobRow]
            /\ Closed(w, "done")[JobOf(w)].status = "done"
            /\ \A i \in JobId : i # JobOf(w) => Closed(w, "done")[i] = jobs[i]
        BY <1>2 DEF Closed, Ended, TypeOK, JobRow, JobStatus
      <3>4. QED
        BY <1>2, <2>2, <3>1, <3>2, <3>3
    <2>3. QED
      BY <2>1, <2>2
  <1>5. \A j \in JobId : Active(j)' => (Active(j) /\ j # JobOf(w)) \/ j = p
    BY <1>2, <1>4 DEF Active
  \* No other job of the document was active: its status says so.
  <1>6. \A j \in JobId : Active(j) /\ DocOf(j) = d => j = JobOf(w)
    <2> SUFFICES ASSUME NEW j \in JobId, Active(j), DocOf(j) = d
                 PROVE  j = JobOf(w)
      OBVIOUS
    <2>1. KindOf(j) \in JobKind /\ status[d] = Expected(KindOf(j))
      BY JobIdParts DEF QueueInv, ActiveExpected
    <2>2. KindOf(j) = KindOf(JobOf(w))
      BY <1>2, <2>1 DEF Expected, JobKind
    <2>3. QED
      BY <1>2, <2>2 DEF QueueInv, OneActive
  <1>7. HoldersLeased'
    <2> SUFFICES ASSUME NEW v \in Worker, pc'[v] # "idle"
                 PROVE  jobs'[JobOf(v)'].status = "running" /\ jobs'[JobOf(v)'].leased
      BY DEF HoldersLeased
    <2>1. v # w /\ pc[v] # "idle" /\ JobOf(v)' = JobOf(v) /\ JobOf(v) # JobOf(w)
      BY <1>1, OthersStay
    <2>2. JobOf(v) \in JobId /\ jobs[JobOf(v)].status = "running" /\ jobs[JobOf(v)].leased
      BY <2>1, HeldExpected
    <2>3. JobOf(v) # p
      BY <1>4, <2>2
    <2>4. QED
      BY <1>4, <2>1, <2>2, <2>3
  <1>8. OneActive'
    BY <1>4, <1>5, <1>6 DEF QueueInv, OneActive
  <1>9. ActiveExpected'
    <2> SUFFICES ASSUME NEW j \in JobId, Active(j)'
                 PROVE  status'[DocOf(j)] = Expected(KindOf(j))
      BY DEF ActiveExpected
    <2>1. DocOf(j) \in Doc
      BY JobIdParts
    <2>2. CASE j = p
      BY <1>3, <1>4, <2>2 DEF Expected
    <2>3. CASE j # p
      BY <1>3, <1>5, <1>6, <2>1, <2>3 DEF QueueInv, ActiveExpected
    <2>4. QED
      BY <2>2, <2>3
  <1>10. NotForgotten'
    <2> SUFFICES ASSUME NEW e \in Doc
                 PROVE
           /\ status'[e] = "Pending" =>
                 \E j \in JobId : /\ DocOf(j) = e /\ KindOf(j) = "transmit"
                                  /\ jobs'[j].status \in {"queued", "running", "dead"}
           /\ status'[e] = "SentDian" =>
                 \E j \in JobId : /\ DocOf(j) = e /\ KindOf(j) = "poll_status"
                                  /\ jobs'[j].status \in {"queued", "running", "dead"}
           /\ status'[e] = "ContingencyPending" =>
                 /\ \E j \in JobId : /\ DocOf(j) = e /\ KindOf(j) = "transmit"
                                     /\ jobs'[j].status \in {"dead"}
                 /\ ~ \E j \in JobId : /\ DocOf(j) = e /\ KindOf(j) = "transmit"
                                       /\ jobs'[j].status \in {"queued", "running"}
      BY DEF NotForgotten, HasJob
    <2>1. CASE e # d
      <3>1. \A j \in JobId : DocOf(j) = e => jobs'[j] = jobs[j]
        BY <1>2, <1>4, <2>1
      <3>2. QED
        BY <1>3, <2>1, <3>1, StillRemembered DEF QueueInv
    <2>2. CASE e = d
      <3>1. to \in {"DianAccepted", "DianRejected", "ProcessingFailed",
                    "ContingencyPending", "SentDian"}
        BY DEF Finishes
      <3>2. CASE to = "SentDian"
        BY <1>3, <1>4, <2>2, <3>2 DEF NewRow
      <3>3. CASE to = "ContingencyPending"
        BY <1>2, <1>3, <1>4, <1>5, <1>6, <2>2, <3>3 DEF Active
      <3>4. QED
        BY <1>3, <2>2, <3>1, <3>2, <3>3
    <2>3. QED
      BY <2>1, <2>2
  <1>11. QED
    BY <1>1, <1>7, <1>8, <1>9, <1>10, OthersStay DEF QueueInv

\* The insertions of jobs are of this shape.
LEMMA EntersShape ==
    ASSUME TypeOK, QueueInv
    PROVE  /\ \A d \in Doc : Issue(d) => \E j \in JobId : Enters(j)
           /\ \A d \in Doc : RequeueContingency(d) => \E j \in JobId : Enters(j)
           /\ \A j \in JobId : RetryDeadJob(j) => Enters(j)
  <1>1. ASSUME NEW d \in Doc, Issue(d)
        PROVE  \E j \in JobId : Enters(j)
    BY <1>1 DEF Issue, Enters, IsNextRow, Absent
  <1>2. ASSUME NEW d \in Doc, RequeueContingency(d)
        PROVE  \E j \in JobId : Enters(j)
    BY <1>2 DEF RequeueContingency, Enters, IsNextRow
  <1>3. ASSUME NEW j \in JobId, RetryDeadJob(j)
        PROVE  Enters(j)
    <2>1. KindOf(j) \in {"transmit", "poll_status"}
      BY JobIdParts DEF JobKind
    <2>2. CASE KindOf(j) = "transmit"
      BY <1>3, <2>2 DEF RetryDeadJob, Enters
    <2>3. CASE KindOf(j) = "poll_status"
      BY <1>3, <2>3 DEF RetryDeadJob, Enters, TypeOK
    <2>4. QED
      BY <2>1, <2>2, <2>3
  <1>4. QED
    BY <1>1, <1>2, <1>3

\* A document that enters the queue, by being issued, requeued or retried,
\* keeps the invariant of the queue.
LEMMA EntersKeeps ==
    ASSUME TypeOK, QueueInv, NEW j \in JobId, Enters(j)
    PROVE  QueueInv'
  <1>1. /\ UNCHANGED <<pc, task>> /\ jobs[j].status \in {"free", "dead"}
        /\ jobs'[j] = NewRow /\ \A i \in JobId : i # j => jobs'[i] = jobs[i]
        /\ DocOf(j) \in Doc /\ KindOf(j) \in JobKind
    BY JobIdParts DEF Enters, TypeOK, taskVars
  <1>2. /\ \A d \in Doc : d # DocOf(j) => status'[d] = status[d]
        /\ status'[DocOf(j)] = Expected(KindOf(j))
        /\ KindOf(j) = "poll_status" => status[DocOf(j)] = "SentDian"
        /\ KindOf(j) = "transmit" =>
              status[DocOf(j)] \in {Absent, "Pending", "ContingencyPending"}
    BY <1>1 DEF Enters, Expected, TypeOK
  \* No other job of the document is active.
  <1>3. \A i \in JobId : Active(i) => DocOf(i) # DocOf(j)
    <2> SUFFICES ASSUME NEW i \in JobId, Active(i), DocOf(i) = DocOf(j)
                 PROVE  FALSE
      OBVIOUS
    <2>1. KindOf(i) \in JobKind /\ status[DocOf(j)] = Expected(KindOf(i)) /\ i # j
      BY <1>1, JobIdParts DEF QueueInv, ActiveExpected, Active
    <2>2. KindOf(i) = KindOf(j) /\ (KindOf(j) = "transmit" => status[DocOf(j)] = "Pending")
      BY <1>1, <1>2, <2>1 DEF Expected, JobKind, Absent
    <2>3. ~IndexTaken(j)
      BY <1>1, <2>2 DEF Enters
    <2>4. QED
      BY <2>1, <2>2, <2>3 DEF IndexTaken
  <1>4. HoldersLeased' /\ OneHolder' /\ RightPlace'
    <2>1. \A w \in Worker : pc[w] # "idle" => JobOf(w) # j /\ jobs'[JobOf(w)] = jobs[JobOf(w)]
      BY <1>1, HeldExpected
    <2>2. QED
      BY <1>1, <2>1 DEF QueueInv, HoldersLeased, OneHolder, RightPlace, JobOf
  <1>5. \A i \in JobId : Active(i)' => Active(i) \/ i = j
    BY <1>1 DEF Active
  <1>6. OneActive' /\ ActiveExpected'
    BY <1>2, <1>3, <1>5, JobIdParts DEF QueueInv, OneActive, ActiveExpected
  <1>7. NotForgotten'
    <2> SUFFICES ASSUME NEW e \in Doc
                 PROVE
           /\ status'[e] = "Pending" =>
                 \E i \in JobId : /\ DocOf(i) = e /\ KindOf(i) = "transmit"
                                  /\ jobs'[i].status \in {"queued", "running", "dead"}
           /\ status'[e] = "SentDian" =>
                 \E i \in JobId : /\ DocOf(i) = e /\ KindOf(i) = "poll_status"
                                  /\ jobs'[i].status \in {"queued", "running", "dead"}
           /\ status'[e] = "ContingencyPending" =>
                 /\ \E i \in JobId : /\ DocOf(i) = e /\ KindOf(i) = "transmit"
                                     /\ jobs'[i].status \in {"dead"}
                 /\ ~ \E i \in JobId : /\ DocOf(i) = e /\ KindOf(i) = "transmit"
                                       /\ jobs'[i].status \in {"queued", "running"}
      BY DEF NotForgotten, HasJob
    <2>1. CASE e # DocOf(j)
      <3>1. \A i \in JobId : DocOf(i) = e => jobs'[i] = jobs[i]
        BY <1>1, <2>1
      <3>2. QED
        BY <1>2, <2>1, <3>1, StillRemembered DEF QueueInv
    <2>2. CASE e = DocOf(j)
      BY <1>1, <1>2, <2>2 DEF Expected, NewRow, JobKind
    <2>3. QED
      BY <2>1, <2>2
  <1>8. QED
    BY <1>4, <1>6, <1>7 DEF QueueInv

\* Statement one of claim and the end of a lease leave what tasks hold alone
\* and make no job active; a job they bury stays in sight.
LEMMA PassiveKeeps ==
    ASSUME TypeOK, QueueInv, UNCHANGED <<status, pc, task>>,
           \A j \in JobId : /\ Active(j)' => Active(j)
                            /\ jobs[j].status = "running" /\ jobs[j].leased
                                 /\ (\E w \in Worker : Holds(w, j)) => jobs'[j] = jobs[j]
                            /\ jobs[j].status \in {"queued", "running", "dead"} =>
                                 jobs'[j].status \in {"queued", "running", "dead"}
                            /\ ~Active(j) => jobs'[j].status = jobs[j].status
    PROVE  QueueInv'
  <1>1. HoldersLeased' /\ OneHolder' /\ RightPlace'
    <2>1. \A w \in Worker : pc[w] # "idle" => jobs'[JobOf(w)] = jobs[JobOf(w)]
      BY HeldExpected DEF Holds, JobOf
    <2>2. QED
      BY <2>1 DEF QueueInv, HoldersLeased, OneHolder, RightPlace, JobOf
  <1>2. OneActive' /\ ActiveExpected'
    BY DEF QueueInv, OneActive, ActiveExpected
  <1>3. NotForgotten'
    <2>1. ASSUME NEW j \in JobId, status[DocOf(j)] = "ContingencyPending",
                 KindOf(j) = "transmit"
          PROVE  jobs'[j].status = jobs[j].status
      <3>1. ~Active(j)
        BY <2>1 DEF QueueInv, ActiveExpected, Expected
      <3>2. QED
        BY <3>1
    <2>2. QED
      BY <2>1, StillRemembered DEF NotForgotten, HasJob, QueueInv
  <1>4. QED
    BY <1>1, <1>2, <1>3 DEF QueueInv

\* The reaping UPDATE buries jobs whose lease has expired, and touches no
\* other.
LEMMA ReapedRows ==
    ASSUME TypeOK, NEW j \in JobId
    PROVE  /\ Reaped[j] = jobs[j] \/ (Expired(j) /\ Reaped[j].status = "dead")
           /\ Reaped \in [JobId -> JobRow]
  BY JobsType DEF Reaped, Ended

\* A claim takes a job that nobody holds.
LEMMA ClaimKeeps ==
    ASSUME TypeOK, QueueInv, NEW w \in Worker, NEW j \in JobId, Claim(w, j)
    PROVE  QueueInv'
  <1>1. /\ pc[w] = "idle" /\ (jobs[j].status = "queued" \/ Expired(j))
        /\ UNCHANGED status
        /\ pc'[w] = "load" /\ task'[w].job = j
        /\ \A v \in Worker : v # w => pc'[v] = pc[v] /\ task'[v] = task[v]
    BY DEF Claim, Claimable, TypeOK, docVars
  <1>2. /\ jobs'[j].status = "running" /\ jobs'[j].leased
        /\ \A i \in JobId : i # j =>
              jobs'[i] = jobs[i] \/ (Expired(i) /\ jobs'[i].status = "dead")
    BY ReapedRows DEF Claim
  \* No task holds the job that is claimed, and none loses its own.
  <1>3. \A v \in Worker : pc[v] # "idle" => JobOf(v) # j /\ jobs'[JobOf(v)] = jobs[JobOf(v)]
    BY <1>1, <1>2, HeldExpected DEF Expired
  <1>4. \A i \in JobId : Active(i)' => Active(i)
    BY <1>1, <1>2 DEF Active, Expired
  <1>5. HoldersLeased' /\ OneHolder' /\ RightPlace'
    <2>1. \A v \in Worker : v # w => pc'[v] = pc[v] /\ JobOf(v)' = JobOf(v)
      BY <1>1 DEF JobOf
    <2>2. JobOf(w)' = j
      BY <1>1 DEF JobOf
    <2>3. HoldersLeased'
      BY <1>2, <1>3, <2>1, <2>2 DEF QueueInv, HoldersLeased
    <2>4. OneHolder'
      BY <1>1, <1>3, <2>1, <2>2 DEF QueueInv, OneHolder
    <2>5. RightPlace'
      BY <1>1, <2>1 DEF QueueInv, RightPlace, TransmitOnly, PollOnly
    <2>6. QED
      BY <2>3, <2>4, <2>5
  <1>6. OneActive' /\ ActiveExpected'
    BY <1>1, <1>4 DEF QueueInv, OneActive, ActiveExpected
  <1>7. NotForgotten'
    <2>1. ASSUME NEW i \in JobId
          PROVE  /\ jobs[i].status \in {"queued", "running", "dead"} =>
                       jobs'[i].status \in {"queued", "running", "dead"}
                 /\ status[DocOf(i)] = "ContingencyPending" /\ KindOf(i) = "transmit" =>
                       jobs'[i].status = jobs[i].status
      <3>1. status[DocOf(i)] = "ContingencyPending" /\ KindOf(i) = "transmit" => ~Active(i)
        BY DEF QueueInv, ActiveExpected, Expected
      <3>2. QED
        BY <1>1, <1>2, <3>1 DEF Active, Expired
    <2>2. QED
      BY <1>1, <2>1, StillRemembered DEF NotForgotten, HasJob, QueueInv
  <1>8. QED
    BY <1>5, <1>6, <1>7 DEF QueueInv

\* Every step keeps the invariant of the queue.
LEMMA NextQueue ==
    ASSUME ~LateTasks, TypeOK, QueueInv, [Next]_vars
    PROVE  QueueInv'
  <1> USE DEF docVars, taskVars
  <1>1. ASSUME NEW w \in Worker, Step(w)
        PROVE  QueueInv'
    BY <1>1, StepShape, ContinuesKeeps, EndsKeeps, FinishesKeeps
  <1>2. ASSUME NEW w \in Worker, Abandon(w)
        PROVE  QueueInv'
    BY <1>2, EndsKeeps DEF Abandon, Ends
  <1>3. ASSUME NEW d \in Doc, Issue(d) \/ RequeueContingency(d)
        PROVE  QueueInv'
    BY <1>3, EntersShape, EntersKeeps
  <1>4. ASSUME NEW j \in JobId, RetryDeadJob(j)
        PROVE  QueueInv'
    BY <1>4, EntersShape, EntersKeeps
  <1>5. CASE ClaimNothing
    BY <1>5, ReapedRows, PassiveKeeps DEF ClaimNothing, Active, Expired
  <1>6. ASSUME NEW j \in JobId, LeaseExpires(j)
        PROVE  QueueInv'
    <2>1. /\ UNCHANGED <<status, pc, task>> /\ \A w \in Worker : ~Holds(w, j)
          /\ jobs'[j].status = jobs[j].status
          /\ \A i \in JobId : i # j => jobs'[i] = jobs[i]
      BY <1>6 DEF LeaseExpires, TypeOK, JobRow
    <2>2. QED
      BY <2>1, PassiveKeeps DEF Active
  <1>7. CASE \/ \E d \in Doc : ReceiveLate(d) \/ Validate(d)
             \/ UNCHANGED vars
    <2>1. UNCHANGED <<status, jobs, pc, task>>
      BY <1>7 DEF ReceiveLate, Validate, vars
    <2>2. QED
      BY <2>1, PassiveKeeps DEF Active
  <1>8. QED
    BY <1>1, <1>2, <1>3, <1>4, <1>5, <1>6, <1>7, ClaimKeeps DEF Next

\* The invariant of the queue holds of the empty queue.
LEMMA InitQueue == Init => QueueInv
  BY DEF Init, QueueInv, HoldersLeased, OneHolder, OneActive, ActiveExpected, Active,
         RightPlace, TransmitOnly, PollOnly, NotForgotten, HasJob, FreeRow, Absent

\* The invariant of the queue holds while no task outlives its lease.
LEMMA QueueInvariant ==
    ASSUME ~LateTasks
    PROVE  Spec => []QueueInv
  <1>1. TypeOK /\ QueueInv /\ [Next]_vars => QueueInv'
    BY NextQueue
  <1>2. QED
    BY <1>1, InitQueue, TypeCorrect, PTL DEF Spec

-----------------------------------------------------------------------------
(* What the invariant of the queue says.                                   *)

\* Two working tasks work on two documents: their jobs are both active, of one
\* document they would be of different kinds, and its status is the one that
\* only one kind expects.
LEMMA OwnDocument ==
    ASSUME TypeOK, QueueInv, NEW v \in Worker, NEW w \in Worker,
           v # w, pc[v] # "idle", pc[w] # "idle"
    PROVE  Document(v) # Document(w)
  <1> SUFFICES ASSUME Document(v) = Document(w)
               PROVE  FALSE
    OBVIOUS
  <1>1. Expected(KindOf(JobOf(v))) = Expected(KindOf(JobOf(w)))
    BY HeldExpected
  <1>2. KindOf(JobOf(v)) = KindOf(JobOf(w))
    BY <1>1, HeldExpected DEF Expected, JobKind
  <1>3. JobOf(v) = JobOf(w)
    BY <1>2, HeldExpected DEF QueueInv, OneActive, Document, JobOf
  <1>4. QED
    BY <1>3 DEF QueueInv, OneHolder

\* While no task outlives its lease, claim, the unique index and the status
\* that each kind of job expects keep two tasks off the same document.
THEOREM ExclusiveHolds ==
    ASSUME ~LateTasks
    PROVE  Spec => []Exclusive
  <1>1. TypeOK /\ QueueInv => Exclusive
    BY OwnDocument DEF Exclusive
  <1>2. QED
    BY <1>1, QueueInvariant, TypeCorrect, PTL

\* While no task outlives its lease, the status that a task loaded still holds
\* when it signs, sends, polls or fails its document.
THEOREM LoadedStatusHoldsHolds ==
    ASSUME ~LateTasks
    PROVE  Spec => []LoadedStatusHolds
  <1>1. TypeOK /\ QueueInv => LoadedStatusHolds
    <2> SUFFICES ASSUME TypeOK, QueueInv, NEW w \in Worker
                 PROVE  /\ pc[w] \in TransmitOnly => status[Document(w)] = "Pending"
                        /\ pc[w] \in {"getzip", "unresolved"} =>
                              status[Document(w)] = "SentDian"
      BY DEF LoadedStatusHolds, TransmitOnly
    <2>1. /\ pc[w] \in TransmitOnly => KindOf(JobOf(w)) = "transmit"
          /\ pc[w] \in {"getzip", "unresolved"} => KindOf(JobOf(w)) = "poll_status"
      BY DEF QueueInv, RightPlace, PollOnly
    <2>2. QED
      BY <2>1, HeldExpected DEF Expected, TransmitOnly
  <1>2. QED
    BY <1>1, QueueInvariant, TypeCorrect, PTL

\* While no task outlives its lease, no document is forgotten by the queue:
\* one that is not final has an active job or a dead one in sight, and one in
\* contingency is free for the reconciler.
THEOREM NotForgottenHolds ==
    ASSUME ~LateTasks
    PROVE  Spec => []NotForgotten
  <1>1. QueueInv => NotForgotten
    BY DEF QueueInv
  <1>2. QED
    BY <1>1, QueueInvariant, PTL

-----------------------------------------------------------------------------
(* What is sent.                                                           *)

\* A task that will sign or send has in memory what is stored, and has it
\* signed when it sends; one that is about to fail its document found nothing
\* sent.
LoadedXml(w) ==
    /\ pc[w] \in {"prepare", "query", "send"} => task[w].xml = xml[Document(w)]
    /\ pc[w] \in {"query", "send"} => task[w].xml # 0
    /\ pc[w] = "broken" => sent[Document(w)] = {}

\* What was sent is the signed XML that is stored, and the DIAN knows nothing
\* of a document that was not sent.
OnTheWire(d) ==
    /\ sent[d] \subseteq {xml[d]} \ {0}
    /\ sent[d] = {} => dian[d] = "none" /\ ~wire[d]
    /\ status[d] = "ProcessingFailed" => sent[d] = {}

SentInv ==
    /\ \A w \in Worker : LoadedXml(w)
    /\ \A d \in Doc : OnTheWire(d)

\* A step that touches one task and its document keeps the invariant when it
\* keeps their parts of it: no other task works on that document.
LEMMA OwnStepKeeps ==
    ASSUME TypeOK, QueueInv, SentInv, NEW w \in Worker, pc[w] # "idle",
           NEW d \in Doc, d = Document(w),
           \A v \in Worker : v # w => pc'[v] = pc[v] /\ task'[v] = task[v],
           \A e \in Doc : e # d =>
              /\ status'[e] = status[e] /\ xml'[e] = xml[e] /\ sent'[e] = sent[e]
              /\ dian'[e] = dian[e] /\ wire'[e] = wire[e],
           LoadedXml(w)', OnTheWire(d)'
    PROVE  SentInv'
  <1>1. ASSUME NEW v \in Worker, v # w
        PROVE  LoadedXml(v)'
    <2>1. CASE pc[v] = "idle"
      BY <1>1, <2>1 DEF LoadedXml
    <2>2. CASE pc[v] # "idle"
      <3>1. Document(v) \in Doc /\ Document(v) # Document(w)
        BY <1>1, <2>2, OwnDocument, HeldExpected
      <3>2. Document(v)' = Document(v)
        BY <1>1 DEF Document
      <3>3. QED
        BY <1>1, <3>1, <3>2 DEF LoadedXml, SentInv
    <2>3. QED
      BY <2>1, <2>2
  <1>2. ASSUME NEW e \in Doc, e # d
        PROVE  OnTheWire(e)'
    BY <1>2 DEF OnTheWire, SentInv
  <1>3. QED
    BY <1>1, <1>2 DEF SentInv

\* Each step of a task keeps the invariant.
LEMMA StepSent ==
    ASSUME TypeOK, QueueInv, SentInv, NEW w \in Worker, Step(w)
    PROVE  SentInv'
  <1> USE DEF docVars, dianVars
  <1>1. /\ pc[w] # "idle" /\ pc[w] # "close"
        /\ pc \in [Worker -> Location] /\ task \in [Worker -> Task]
        /\ status \in [Doc -> Status] /\ xml \in [Doc -> Version]
        /\ dian \in [Doc -> Verdict] /\ wire \in [Doc -> BOOLEAN]
        /\ sent \in [Doc -> SUBSET Version]
    <2>1. pc[w] # "idle"
      BY DEF Step, Load, Complete, Release, Retry, Bury, Prepare, Query, ZipFails,
             SendBillSync, SendTestSetAsync, SendFails, Accepted, Rejected,
             SentAsync, Fail, TransmissionFailed, GetStatusZip, PollUnresolved
    <2>2. QED
      BY <2>1 DEF QueueInv, RightPlace, TypeOK
  <1>2. PICK d \in Doc : d = Document(w)
    BY <1>1, HeldExpected
  <1>3. /\ status[d] # "ProcessingFailed" /\ LoadedXml(w) /\ OnTheWire(d)
        /\ xml[d] \in Nat /\ task[w].xml \in Nat
    BY <1>1, <1>2, HeldExpected DEF Expected, SentInv, Version, Task
  \* A step that leaves the documents, the DIAN and what was sent alone.
  <1>4. ASSUME UNCHANGED <<status, xml, sent, dian, wire>>,
               NEW l, pc' = [pc EXCEPT ![w] = l],
               \A v \in Worker : v # w => task'[v] = task[v],
               LoadedXml(w)'
        PROVE  SentInv'
    <2>1. OnTheWire(d)'
      BY <1>3, <1>4 DEF OnTheWire
    <2>2. QED
      BY <1>1, <1>2, <1>4, <2>1, OwnStepKeeps
  \* ... and takes its task where the invariant asks nothing of it.
  <1>5. ASSUME UNCHANGED <<status, xml, sent, dian, wire>>,
               NEW l, l \notin {"prepare", "query", "send", "broken"},
               pc' = [pc EXCEPT ![w] = l],
               \A v \in Worker : v # w => task'[v] = task[v]
        PROVE  SentInv'
    <2>1. LoadedXml(w)'
      BY <1>1, <1>5 DEF LoadedXml
    <2>2. QED
      BY <1>4, <1>5, <2>1
  <1>6. ASSUME Goto(w, "close") \/ Goto(w, "release") \/ Goto(w, "retry") \/ Goto(w, "bury")
                  \/ Goto(w, "accepted") \/ Goto(w, "rejected") \/ Goto(w, "unresolved")
                  \/ End(w),
               UNCHANGED <<status, xml, sent, dian, wire>>
        PROVE  SentInv'
    BY <1>1, <1>5, <1>6 DEF Goto, End
  <1>7. CASE Load(w)
    <2>1. CASE Goto(w, "close") \/ Goto(w, "release")
      BY <1>6, <1>7, <2>1 DEF Load
    <2>2. CASE ~(Goto(w, "close") \/ Goto(w, "release"))
      <3>1. /\ \E l \in {"prepare", "getzip"} : pc' = [pc EXCEPT ![w] = l]
            /\ task' = [task EXCEPT ![w].xml = xml[Document(w)]]
            /\ UNCHANGED <<status, xml, sent, dian, wire>>
        BY <1>7, <2>2 DEF Load
      <3>2. task'[w].xml = xml[d] /\ Document(w)' = d
        BY <1>1, <1>2, <3>1 DEF Document, Task
      <3>3. LoadedXml(w)'
        BY <1>1, <3>1, <3>2 DEF LoadedXml
      <3>4. QED
        BY <1>1, <1>4, <3>1, <3>3
    <2>3. QED
      BY <2>1, <2>2
  <1>8. CASE Complete(w) \/ Release(w) \/ Retry(w) \/ Bury(w)
    BY <1>6, <1>8 DEF Complete, Release, Retry, Bury
  <1>9. CASE Prepare(w)
    <2>1. /\ pc[w] = "prepare" /\ task[w].xml = xml[d]
          /\ UNCHANGED <<status, sent, dian, wire>>
          /\ AfterPrepare(w) \in {"query", "send"}
      BY <1>2, <1>3, <1>9 DEF Prepare, LoadedXml, AfterPrepare
    <2>2. CASE task[w].xml # 0
      <3>1. UNCHANGED <<xml, task>> /\ pc' = [pc EXCEPT ![w] = AfterPrepare(w)]
        BY <1>9, <2>2 DEF Prepare, Goto
      <3>2. LoadedXml(w)'
        BY <1>1, <1>2, <2>1, <2>2, <3>1 DEF LoadedXml, Document
      <3>3. QED
        BY <1>4, <2>1, <3>1, <3>2
    \* Nothing was signed, so nothing was sent.
    <2>3. CASE task[w].xml = 0
      <3>1. sent[d] = {}
        BY <1>3, <2>1, <2>3 DEF OnTheWire
      <3>2. /\ \E l \in {"query", "send", "broken"} : pc' = [pc EXCEPT ![w] = l]
            /\ xml' = xml \/ xml' = [xml EXCEPT ![d] = @ + 1]
            /\ task' = task \/ task' = [task EXCEPT ![w].xml = xml[d] + 1]
            /\ \/ pc'[w] = "broken"
               \/ xml'[d] = xml[d] + 1 /\ task'[w].xml = xml[d] + 1
        BY <1>1, <1>2, <1>9, <2>1, <2>3 DEF Prepare, Goto, Task
      <3>3. Document(w)' = d /\ \A v \in Worker : v # w => task'[v] = task[v]
        BY <1>1, <1>2, <3>2 DEF Document, Task
      <3>4. LoadedXml(w)'
        BY <1>1, <1>3, <2>1, <3>1, <3>2, <3>3 DEF LoadedXml
      <3>5. OnTheWire(d)'
        BY <1>3, <2>1, <3>1 DEF OnTheWire
      <3>6. QED
        BY <1>1, <1>2, <2>1, <3>2, <3>3, <3>4, <3>5, OwnStepKeeps
    <2>4. QED
      BY <2>2, <2>3
  <1>10. CASE Query(w)
    <2>1. /\ UNCHANGED <<status, xml, sent, dian, wire>> /\ pc[w] = "query"
          /\ \E l \in {"accepted", "send"} : pc' = [pc EXCEPT ![w] = l]
          /\ task' = [task EXCEPT ![w].asked = TRUE]
      BY <1>10 DEF Query
    <2>2. task'[w].xml = task[w].xml /\ Document(w)' = d
      BY <1>1, <1>2, <2>1 DEF Document, Task
    <2>3. LoadedXml(w)'
      BY <1>1, <1>2, <1>3, <2>1, <2>2 DEF LoadedXml
    <2>4. QED
      BY <1>1, <1>4, <2>1, <2>3
  <1>11. CASE ZipFails(w)
    <2>1. /\ UNCHANGED <<status, xml, sent, dian, wire, task>> /\ pc[w] = "send"
          /\ pc' = [pc EXCEPT ![w] = "broken"] /\ task[w].xml \notin sent[d]
      BY <1>2, <1>11 DEF ZipFails, Goto
    <2>2. sent[d] = {}
      BY <1>2, <1>3, <2>1 DEF LoadedXml, OnTheWire
    <2>3. LoadedXml(w)'
      BY <1>1, <1>2, <2>1, <2>2 DEF LoadedXml, Document
    <2>4. QED
      BY <1>4, <2>1, <2>3
  <1>12. CASE SendBillSync(w) \/ SendTestSetAsync(w) \/ SendFails(w)
    <2>1. /\ UNCHANGED <<status, xml, task>> /\ pc[w] = "send"
          /\ \E l \in {"accepted", "rejected", "sent", "unsent"} : pc' = [pc EXCEPT ![w] = l]
          /\ sent' = [sent EXCEPT ![d] = @ \cup {task[w].xml}]
      BY <1>2, <1>12 DEF SendBillSync, SendTestSetAsync, SendFails, Goto
    <2>2. \A e \in Doc : e # d => dian'[e] = dian[e] /\ wire'[e] = wire[e]
      BY <1>1, <1>2, <1>12 DEF SendBillSync, SendTestSetAsync, SendFails
    <2>3. LoadedXml(w)'
      BY <1>1, <2>1 DEF LoadedXml
    <2>4. OnTheWire(d)'
      <3>1. task[w].xml = xml[d] /\ xml[d] # 0
        BY <1>2, <1>3, <2>1 DEF LoadedXml
      <3>2. sent'[d] = sent[d] \cup {xml[d]}
        BY <1>1, <2>1, <3>1
      <3>3. QED
        BY <1>3, <2>1, <3>1, <3>2 DEF OnTheWire
    <2>5. QED
      BY <1>1, <1>2, <2>1, <2>2, <2>3, <2>4, OwnStepKeeps
  <1>13. CASE Accepted(w) \/ Rejected(w) \/ SentAsync(w) \/ Fail(w)
              \/ (TransmissionFailed(w) /\ IsLastAttempt(w))
    <2>1. /\ UNCHANGED <<sent, dian, wire, xml>>
          /\ \/ Goto(w, "close") /\ UNCHANGED status
             \/ /\ End(w)
                /\ \E to : /\ status' = [status EXCEPT ![d] = to]
                           /\ to = "ProcessingFailed" => pc[w] = "broken"
      BY <1>2, <1>13 DEF Accepted, Rejected, SentAsync, Fail, TransmissionFailed, Transition
    <2>2. CASE Goto(w, "close") /\ UNCHANGED status
      BY <1>6, <2>1, <2>2
    <2>3. CASE ~(Goto(w, "close") /\ UNCHANGED status)
      <3>1. /\ pc'[w] = "idle"
            /\ \A v \in Worker : v # w => pc'[v] = pc[v] /\ task'[v] = task[v]
            /\ \A e \in Doc : e # d => status'[e] = status[e]
            /\ status'[d] = "ProcessingFailed" => sent[d] = {}
        BY <1>1, <1>2, <1>3, <2>1, <2>3 DEF End, LoadedXml
      <3>2. LoadedXml(w)' /\ OnTheWire(d)'
        BY <1>3, <2>1, <3>1 DEF LoadedXml, OnTheWire
      <3>3. QED
        BY <1>1, <1>2, <2>1, <3>1, <3>2, OwnStepKeeps
    <2>4. QED
      BY <2>2, <2>3
  <1>14. CASE \/ TransmissionFailed(w) /\ ~IsLastAttempt(w)
              \/ GetStatusZip(w) \/ PollUnresolved(w)
    BY <1>6, <1>14 DEF TransmissionFailed, GetStatusZip, PollUnresolved
  <1>15. QED
    BY <1>7, <1>8, <1>9, <1>10, <1>11, <1>12, <1>13, <1>14 DEF Step

\* Every step keeps the invariant: the reconciler and the administrator move
\* documents that were not failed, and the DIAN receives what was sent.
LEMMA NextSent ==
    ASSUME TypeOK, QueueInv, SentInv, [Next]_vars
    PROVE  SentInv'
  <1> USE DEF docVars, taskVars, dianVars
  <1>1. ASSUME NEW w \in Worker, Abandon(w)
        PROVE  SentInv'
    <2>1. /\ UNCHANGED <<status, xml, sent, dian, wire>>
          /\ pc'[w] = "idle"
          /\ \A v \in Worker : v # w => pc'[v] = pc[v] /\ task'[v] = task[v]
      BY <1>1 DEF Abandon, End, TypeOK
    <2>2. \A v \in Worker : LoadedXml(v)'
      BY <2>1 DEF SentInv, LoadedXml, Document
    <2>3. QED
      BY <2>1, <2>2 DEF SentInv, OnTheWire
  <1>2. ASSUME NEW w \in Worker, NEW j \in JobId, Claim(w, j)
        PROVE  SentInv'
    <2>1. /\ UNCHANGED <<status, xml, sent, dian, wire>>
          /\ pc'[w] = "load"
          /\ \A v \in Worker : v # w => pc'[v] = pc[v] /\ task'[v] = task[v]
      BY <1>2 DEF Claim, TypeOK
    <2>2. \A v \in Worker : LoadedXml(v)'
      BY <2>1 DEF SentInv, LoadedXml, Document
    <2>3. QED
      BY <2>1, <2>2 DEF SentInv, OnTheWire
  <1>3. CASE \/ ClaimNothing \/ \E j \in JobId : LeaseExpires(j) \/ RetryDeadJob(j)
             \/ \E d \in Doc : Issue(d) \/ RequeueContingency(d)
             \/ UNCHANGED vars
    <2>1. /\ UNCHANGED <<pc, task, xml, sent, dian, wire>>
          /\ \A d \in Doc : status'[d] = "ProcessingFailed" => status[d] = "ProcessingFailed"
      BY <1>3 DEF ClaimNothing, LeaseExpires, RetryDeadJob, Issue, RequeueContingency,
                  vars, TypeOK
    <2>2. QED
      BY <2>1 DEF SentInv, LoadedXml, OnTheWire, Document
  <1>4. ASSUME NEW d \in Doc, ReceiveLate(d) \/ Validate(d)
        PROVE  SentInv'
    <2>1. /\ UNCHANGED <<pc, task, status, xml, sent>>
          /\ \A e \in Doc : e # d => dian'[e] = dian[e] /\ wire'[e] = wire[e]
          /\ wire[d] \/ dian[d] = "received"
      BY <1>4 DEF ReceiveLate, Validate, TypeOK
    <2>2. sent[d] # {}
      BY <2>1 DEF SentInv, OnTheWire
    <2>3. QED
      BY <2>1, <2>2 DEF SentInv, LoadedXml, OnTheWire, Document
  <1>5. QED
    BY <1>1, <1>2, <1>3, <1>4, StepSent DEF Next

\* What was sent is what is stored, in every reachable state.
LEMMA SentInvariant ==
    ASSUME ~LateTasks
    PROVE  Spec => []SentInv
  <1>1. Init => SentInv
    BY DEF Init, SentInv, LoadedXml, OnTheWire, Absent
  <1>2. TypeOK /\ QueueInv /\ SentInv /\ [Next]_vars => SentInv'
    BY NextSent
  <1>3. QED
    BY <1>1, <1>2, TypeCorrect, QueueInvariant, PTL DEF Spec

\* While no task outlives its lease, all that the DIAN was ever sent for a
\* document, over every attempt, crash and resend, is its stored signed_xml.
THEOREM SentIsStoredHolds ==
    ASSUME ~LateTasks
    PROVE  Spec => []SentIsStored
  <1>1. SentInv => SentIsStored
    BY DEF SentInv, OnTheWire, SentIsStored
  <1>2. QED
    BY <1>1, SentInvariant, PTL

\* While no task outlives its lease, a document is failed only if no attempt
\* ever put it on the wire: nothing failed can turn out accepted.
THEOREM FailedNeverSentHolds ==
    ASSUME ~LateTasks
    PROVE  Spec => []FailedNeverSent
  <1>1. SentInv => FailedNeverSent
    BY DEF SentInv, OnTheWire, FailedNeverSent
  <1>2. QED
    BY <1>1, SentInvariant, PTL
=============================================================================
