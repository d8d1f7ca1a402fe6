-------------------------- MODULE ProcessingProofs --------------------------
(***************************************************************************)
(* Theorems about Processing for every set of documents and task slots and *)
(* every bound.                                                            *)
(***************************************************************************)
EXTENDS Processing, SequenceTheorems, TLAPS

-----------------------------------------------------------------------------
(* Facts about the definitions the model is built from.                    *)

\* A job row belongs to a document and has one of the two kinds.
LEMMA JobIdParts ==
    ASSUME NEW j \in JobId
    PROVE  DocOf(j) \in Doc /\ KindOf(j) \in JobKind
  BY DEF JobId, DocOf, KindOf

\* The edges of the state machine, status by status.
LEMMA Predecessors ==
    /\ AllowedPredecessors("Pending") = {"ContingencyPending"}
    /\ AllowedPredecessors("SentDian") = {"Pending", "ContingencyPending"}
    /\ AllowedPredecessors("DianAccepted") =
          {"Pending", "SentDian", "ContingencyPending"}
    /\ AllowedPredecessors("DianRejected") =
          {"Pending", "SentDian", "ContingencyPending"}
    /\ AllowedPredecessors("ContingencyPending") = {"Pending"}
    /\ AllowedPredecessors("ProcessingFailed") = {"Pending", "ContingencyPending"}
  BY DEF AllowedPredecessors, Edge, DocumentStatus

\* A notification is the empty sequence or the status itself.
LEMMA EventForType ==
    ASSUME NEW to
    PROVE  /\ to \in Notified => EventFor(to) = <<to>>
           /\ to \notin Notified => EventFor(to) = <<>>
           /\ EventFor(to) \in Seq(Notified)
  <1>1. CASE to \in Notified
    BY <1>1 DEF EventFor
  <1>2. CASE to \notin Notified
    BY <1>2 DEF EventFor
  <1>3. QED
    BY <1>1, <1>2

\* A row of the jobs table, field by field.
LEMMA JobRowType ==
    ASSUME NEW s \in JobStatus, NEW a \in Nat, NEW l \in BOOLEAN
    PROVE  [status |-> s, attempts |-> a, leased |-> l] \in JobRow
  BY DEF JobRow

-----------------------------------------------------------------------------
(* Type correctness.                                                       *)

\* Every step leaves the types alone: End, Goto and the writes to the jobs
\* table, that most actions share, first.
LEMMA EndType ==
    ASSUME TypeOK, NEW w \in Worker, End(w)
    PROVE  /\ pc' \in [Worker -> Location]
           /\ task' \in [Worker -> Task]
           /\ \A v \in Worker : pc'[v] # "idle" => task'[v].job \in JobId
  BY ConstantsAssumption DEF TypeOK, End, NoTask, Task, Location, Version

\* A task that moves on stays well typed, with the job that it has.
LEMMA GotoType ==
    ASSUME TypeOK, NEW w \in Worker, NEW l \in Location, pc[w] # "idle", Goto(w, l)
    PROVE  /\ pc' \in [Worker -> Location]
           /\ task' \in [Worker -> Task]
           /\ \A v \in Worker : pc'[v] # "idle" => task'[v].job \in JobId
  BY DEF TypeOK, Goto

\* A task that goes on with a signed XML loaded or made, or with its question
\* to the DIAN asked.
LEMMA UpdateType ==
    ASSUME TypeOK, NEW w \in Worker, NEW l \in Location, pc[w] # "idle",
           pc' = [pc EXCEPT ![w] = l],
           \/ \E v \in Version : task' = [task EXCEPT ![w].xml = v]
           \/ task' = [task EXCEPT ![w].asked = TRUE]
    PROVE  /\ pc' \in [Worker -> Location]
           /\ task' \in [Worker -> Task]
           /\ \A u \in Worker : pc'[u] # "idle" => task'[u].job \in JobId
  <1>1. pc' \in [Worker -> Location]
    BY DEF TypeOK
  <1>2. task' \in [Worker -> Task] /\ \A u \in Worker : task'[u].job = task[u].job
    <2>1. CASE \E v \in Version : task' = [task EXCEPT ![w].xml = v]
      <3>1. PICK v \in Version : task' = [task EXCEPT ![w].xml = v]
        BY <2>1
      <3>2. /\ [task[w] EXCEPT !.xml = v] \in Task
            /\ [task[w] EXCEPT !.xml = v].job = task[w].job
        BY DEF TypeOK, Task
      <3>3. QED
        BY <3>1, <3>2 DEF TypeOK
    <2>2. CASE task' = [task EXCEPT ![w].asked = TRUE]
      BY <2>2 DEF TypeOK, Task
    <2>3. QED
      BY <2>1, <2>2
  <1>3. QED
    BY <1>1, <1>2 DEF TypeOK

\* The rows that claim, the closing of a job and an insertion leave behind.
LEMMA JobsType ==
    ASSUME TypeOK
    PROVE  /\ Reaped \in [JobId -> JobRow]
           /\ \A j \in JobId : \A s \in JobStatus :
                 [jobs EXCEPT ![j] = Ended(j, s)] \in [JobId -> JobRow]
           /\ \A f \in [JobId -> JobRow] : \A j \in JobId :
                 [f EXCEPT ![j] = NewRow] \in [JobId -> JobRow]
           /\ \A j \in JobId, a \in Nat : SetQueued(j, a) => jobs' \in [JobId -> JobRow]
  <1>1. Reaped \in [JobId -> JobRow]
    BY DEF TypeOK, Reaped, JobRow, JobStatus, Ended
  <1>2. ASSUME NEW j \in JobId, NEW s \in JobStatus
        PROVE  [jobs EXCEPT ![j] = Ended(j, s)] \in [JobId -> JobRow]
    BY DEF TypeOK, JobRow, Ended
  <1>3. ASSUME NEW f \in [JobId -> JobRow], NEW j \in JobId
        PROVE  [f EXCEPT ![j] = NewRow] \in [JobId -> JobRow]
    BY DEF NewRow, JobRow, JobStatus
  <1>4. ASSUME NEW j \in JobId, NEW a \in Nat, SetQueued(j, a)
        PROVE  jobs' \in [JobId -> JobRow]
    BY <1>4 DEF TypeOK, SetQueued, JobRow, JobStatus
  <1>5. QED
    BY <1>1, <1>2, <1>3, <1>4

\* The job of a working task is a row, its document a document.
LEMMA WorkingTask ==
    ASSUME TypeOK, NEW w \in Worker, pc[w] # "idle"
    PROVE  /\ JobOf(w) \in JobId
           /\ Document(w) \in Doc
           /\ KindOf(JobOf(w)) \in JobKind
           /\ task[w].attempts \in Nat
           /\ task[w].xml \in Version
  <1>1. task[w].job \in JobId /\ task[w] \in Task
    BY DEF TypeOK
  <1>2. DocOf(task[w].job) \in Doc /\ KindOf(task[w].job) \in JobKind
    BY <1>1, JobIdParts
  <1>3. QED
    BY <1>1, <1>2 DEF JobOf, Document, Task

\* Transition keeps the types, whether the UPDATE applies or not.
LEMMA TransitionType ==
    ASSUME TypeOK, NEW w \in Worker, pc[w] # "idle",
           NEW to \in DocumentStatus, NEW code \in EventCode,
           NEW outcome \in JobStatus, NEW followUp \in BOOLEAN,
           Transition(w, to, code, outcome, followUp),
           UNCHANGED <<dianVars, interventions>>
    PROVE  TypeOK'
  <1>1. JobOf(w) \in JobId /\ Document(w) \in Doc
    BY WorkingTask
  <1>2. CASE ~Applies(Document(w), to)
    <2>1. Goto(w, "close") /\ UNCHANGED <<docVars, jobs>>
      BY <1>2 DEF Transition
    <2>2. QED
      BY <2>1, GotoType DEF TypeOK, docVars, dianVars, Location
  <1>3. CASE Applies(Document(w), to)
    <2> DEFINE closed == [jobs EXCEPT ![JobOf(w)] = Ended(JobOf(w), outcome)]
    <2>1. /\ status' = [status EXCEPT ![Document(w)] = to]
          /\ outbox' = [outbox EXCEPT ![Document(w)] = @ \o EventFor(to)]
          /\ events' = [events EXCEPT ![Document(w)] = @ \cup {code}]
          /\ \/ jobs' = closed
             \/ \E j \in JobId : jobs' = [closed EXCEPT ![j] = NewRow]
          /\ End(w)
          /\ UNCHANGED <<testSet, xml>>
      BY <1>3 DEF Transition
    <2>2. jobs' \in [JobId -> JobRow]
      <3>1. closed \in [JobId -> JobRow]
        BY <1>1, JobsType
      <3> HIDE DEF closed
      <3>2. ASSUME NEW j \in JobId
            PROVE  [closed EXCEPT ![j] = NewRow] \in [JobId -> JobRow]
        BY <3>1, JobsType
      <3>3. QED
        BY <2>1, <3>1, <3>2
    <2>3. outbox' \in [Doc -> Seq(Notified)]
      <3>1. outbox[Document(w)] \o EventFor(to) \in Seq(Notified)
        BY <1>1, EventForType DEF TypeOK
      <3>2. QED
        BY <2>1, <3>1 DEF TypeOK
    <2>4. status' \in [Doc -> Status] /\ events' \in [Doc -> SUBSET EventCode]
      BY <2>1 DEF TypeOK, Status
    <2>5. QED
      BY <2>1, <2>2, <2>3, <2>4, EndType DEF TypeOK, dianVars
  <1>4. QED
    BY <1>2, <1>3

\* Types are kept by a step of a task.
LEMMA StepType ==
    ASSUME TypeOK, NEW w \in Worker, Step(w)
    PROVE  TypeOK'
  <1> USE DEF docVars, taskVars, dianVars
  <1>0. /\ pc[w] # "idle" /\ JobOf(w) \in JobId /\ Document(w) \in Doc
        /\ task[w].xml \in Version
    <2>1. pc[w] # "idle"
      BY DEF Step, Load, Complete, Release, Retry, Bury, Prepare, Query, ZipFails,
             SendBillSync, SendTestSetAsync, SendFails, Accepted, Rejected,
             SentAsync, Fail, TransmissionFailed, GetStatusZip, PollUnresolved
    <2>2. QED
      BY <2>1, WorkingTask
  <1>1. CASE Load(w)
    <2>1. UNCHANGED <<docVars, jobs, dianVars, interventions>>
      BY <1>1 DEF Load
    <2>2. \/ Goto(w, "close") \/ Goto(w, "release")
          \/ /\ \E l \in {"prepare", "getzip"} : pc' = [pc EXCEPT ![w] = l]
             /\ task' = [task EXCEPT ![w].xml = xml[Document(w)]]
      <3> DEFINE l == IF KindOf(JobOf(w)) = "transmit" THEN "prepare" ELSE "getzip"
      <3>1. l \in {"prepare", "getzip"}
        OBVIOUS
      <3>2. \/ Goto(w, "close") \/ Goto(w, "release")
            \/ /\ pc' = [pc EXCEPT ![w] = l]
               /\ task' = [task EXCEPT ![w].xml = xml[Document(w)]]
        BY <1>1 DEF Load
      <3> HIDE DEF l
      <3>3. QED
        BY <3>1, <3>2
    <2>3. CASE Goto(w, "close")
      BY <1>0, <2>1, <2>3, GotoType DEF TypeOK, Location
    <2>4. CASE Goto(w, "release")
      BY <1>0, <2>1, <2>4, GotoType DEF TypeOK, Location
    <2>5. CASE /\ \E l \in {"prepare", "getzip"} : pc' = [pc EXCEPT ![w] = l]
               /\ task' = [task EXCEPT ![w].xml = xml[Document(w)]]
      <3>1. PICK l \in {"prepare", "getzip"} : pc' = [pc EXCEPT ![w] = l]
        BY <2>5
      <3>2. l \in Location /\ xml[Document(w)] \in Version
        BY <1>0 DEF TypeOK, Location
      <3>3. QED
        BY <1>0, <2>1, <2>5, <3>1, <3>2, UpdateType DEF TypeOK
    <2>6. QED
      BY <2>2, <2>3, <2>4, <2>5
  <1>2. CASE Complete(w) \/ Bury(w)
    <2>1. jobs' \in [JobId -> JobRow]
      BY <1>0, <1>2, JobsType DEF Complete, Bury, JobStatus
    <2>2. QED
      BY <1>2, <2>1, EndType DEF TypeOK, Complete, Bury
  <1>3. CASE Release(w) \/ Retry(w)
    <2>1. jobs[JobOf(w)].attempts \in Nat
      BY <1>0 DEF TypeOK, JobRow
    <2>2. jobs' \in [JobId -> JobRow]
      <3>1. ASSUME NEW a \in Nat, SetQueued(JobOf(w), a)
            PROVE  jobs' \in [JobId -> JobRow]
        BY <1>0, <3>1, JobsType
      <3>2. QED
        BY <1>3, <2>1, <3>1 DEF Release, Retry
    <2>3. QED
      BY <1>3, <2>2, EndType DEF TypeOK, Release, Retry
  <1>4. CASE Prepare(w)
    <2>1. AfterPrepare(w) \in Location \ {"idle"}
      BY DEF AfterPrepare, Location
    <2>2. CASE xml' = xml /\ Goto(w, AfterPrepare(w))
      BY <1>0, <1>4, <2>1, <2>2, GotoType DEF TypeOK, Prepare
    <2>3. CASE /\ xml[Document(w)] < MaxSignings
               /\ xml' = [xml EXCEPT ![Document(w)] = @ + 1]
               /\ pc' = [pc EXCEPT ![w] = AfterPrepare(w)]
               /\ task' = [task EXCEPT ![w].xml = xml[Document(w)] + 1]
      <3>1. xml[Document(w)] + 1 \in Version
        BY <1>0, <2>3, ConstantsAssumption DEF TypeOK, Version
      <3>2. QED
        <4>1. xml' \in [Doc -> Version]
          BY <1>0, <2>3, <3>1 DEF TypeOK
        <4>2. QED
          BY <1>0, <1>4, <2>1, <2>3, <3>1, <4>1, UpdateType DEF TypeOK, Prepare
    <2>4. CASE /\ Goto(w, "broken")
               /\ \/ UNCHANGED xml
                  \/ /\ xml[Document(w)] < MaxSignings
                     /\ xml' = [xml EXCEPT ![Document(w)] = @ + 1]
      <3>1. xml' \in [Doc -> Version]
        <4>1. CASE xml' = xml
          BY <4>1 DEF TypeOK
        <4>2. CASE /\ xml[Document(w)] < MaxSignings
                   /\ xml' = [xml EXCEPT ![Document(w)] = @ + 1]
          BY <1>0, <4>2, ConstantsAssumption DEF TypeOK, Version
        <4>3. QED
          BY <2>4, <4>1, <4>2
      <3>2. UNCHANGED <<testSet, status, events, outbox, jobs, dianVars, interventions>>
        BY <1>4 DEF Prepare
      <3>3. QED
        BY <1>0, <2>4, <3>1, <3>2, GotoType DEF TypeOK, Location
    <2>5. QED
      BY <1>4, <2>2, <2>3, <2>4 DEF Prepare
  <1>5. CASE Query(w)
    <2>1. /\ \E l \in {"accepted", "send"} : pc' = [pc EXCEPT ![w] = l]
          /\ task' = [task EXCEPT ![w].asked = TRUE]
          /\ UNCHANGED <<docVars, jobs, dianVars, interventions>>
      BY <1>5 DEF Query
    <2>2. PICK l \in {"accepted", "send"} : pc' = [pc EXCEPT ![w] = l]
      BY <2>1
    <2>3. QED
      BY <1>0, <2>1, <2>2, UpdateType DEF TypeOK, Location
  <1>6. CASE ZipFails(w) \/ GetStatusZip(w) \/ PollUnresolved(w)
    <2>1. CASE ZipFails(w)
      BY <1>0, <2>1, GotoType DEF TypeOK, ZipFails, Location
    <2>2. CASE GetStatusZip(w)
      BY <1>0, <2>2, GotoType DEF TypeOK, GetStatusZip, Location
    <2>3. CASE PollUnresolved(w)
      <3>1. events' \in [Doc -> SUBSET EventCode]
        BY <1>0, <2>3 DEF TypeOK, PollUnresolved, EventCode
      <3>2. QED
        BY <1>0, <2>3, <3>1, GotoType DEF TypeOK, PollUnresolved, Location
    <2>4. QED
      BY <1>6, <2>1, <2>2, <2>3
  <1>7. CASE SendBillSync(w) \/ SendTestSetAsync(w) \/ SendFails(w)
    <2>1. sent' \in [Doc -> SUBSET Version]
      <3>1. sent' = [sent EXCEPT ![Document(w)] = @ \cup {task[w].xml}]
        BY <1>7 DEF SendBillSync, SendTestSetAsync, SendFails
      <3>2. sent \in [Doc -> SUBSET Version]
        BY DEF TypeOK
      <3>3. QED
        BY <1>0, <3>1, <3>2
    <2>2. dian' \in [Doc -> Verdict]
      BY <1>0, <1>7
         DEF TypeOK, SendBillSync, SendTestSetAsync, SendFails, Received, Verdict
    <2>3. wire' \in [Doc -> BOOLEAN]
      BY <1>0, <1>7 DEF TypeOK, SendBillSync, SendTestSetAsync, SendFails
    <2>4. \E l \in {"accepted", "rejected", "sent", "unsent"} : Goto(w, l)
      BY <1>7 DEF SendBillSync, SendTestSetAsync, SendFails
    <2>5. QED
      BY <1>0, <1>7, <2>1, <2>2, <2>3, <2>4, GotoType
         DEF TypeOK, SendBillSync, SendTestSetAsync, SendFails, Location
  <1>8. CASE Accepted(w) \/ Rejected(w) \/ SentAsync(w) \/ Fail(w)
    BY <1>0, <1>8, TransitionType
       DEF Accepted, Rejected, SentAsync, Fail, DocumentStatus, EventCode, JobStatus
  <1>9. CASE TransmissionFailed(w)
    <2>1. CASE IsLastAttempt(w)
      BY <1>0, <1>9, <2>1, TransitionType
         DEF TransmissionFailed, DocumentStatus, EventCode, JobStatus
    <2>2. CASE ~IsLastAttempt(w)
      <3>1. events' \in [Doc -> SUBSET EventCode]
        BY <1>0, <1>9, <2>2 DEF TypeOK, TransmissionFailed, EventCode
      <3>2. QED
        BY <1>0, <1>9, <2>2, <3>1, GotoType DEF TypeOK, TransmissionFailed, Location
    <2>3. QED
      BY <2>1, <2>2
  <1>10. QED
    BY <1>1, <1>2, <1>3, <1>4, <1>5, <1>6, <1>7, <1>8, <1>9 DEF Step

\* Types are kept by every step.
LEMMA NextType ==
    ASSUME TypeOK, [Next]_vars
    PROVE  TypeOK'
  <1> USE DEF docVars, taskVars, dianVars
  <1>1. ASSUME NEW d \in Doc, Issue(d)
        PROVE  TypeOK'
    <2>1. status' \in [Doc -> Status] /\ testSet' \subseteq Doc
      BY <1>1 DEF TypeOK, Issue, Status, DocumentStatus
    <2>2. jobs' \in [JobId -> JobRow]
      <3>1. PICK j \in JobId : jobs' = [jobs EXCEPT ![j] = NewRow]
        BY <1>1 DEF Issue
      <3>2. QED
        BY <3>1, JobsType DEF TypeOK
    <2>3. QED
      BY <1>1, <2>1, <2>2 DEF TypeOK, Issue
  <1>2. ASSUME NEW d \in Doc, RequeueContingency(d)
        PROVE  TypeOK'
    <2>1. status' \in [Doc -> Status]
      BY <1>2 DEF TypeOK, RequeueContingency, Status, DocumentStatus
    <2>2. jobs' \in [JobId -> JobRow]
      BY <1>2, JobsType DEF TypeOK, RequeueContingency
    <2>3. QED
      BY <1>2, <2>1, <2>2 DEF TypeOK, RequeueContingency
  <1>3. ASSUME NEW w \in Worker, Abandon(w)
        PROVE  TypeOK'
    BY <1>3, EndType DEF TypeOK, Abandon
  <1>4. ASSUME NEW w \in Worker, NEW j \in JobId, Claim(w, j)
        PROVE  TypeOK'
    <2> DEFINE row == [status   |-> "running",
                       attempts |-> jobs[j].attempts + 1, leased |-> TRUE]
               claimed == [job |-> j, attempts |-> jobs[j].attempts + 1,
                           xml |-> 0, asked |-> FALSE]
    <2>1. jobs[j].attempts + 1 \in Nat
      BY DEF TypeOK, JobRow
    <2>2. row \in JobRow
      BY <2>1, JobRowType DEF JobStatus
    <2>3. claimed \in Task /\ claimed.job = j
      BY <2>1, ConstantsAssumption DEF Task, Version
    <2>4. /\ jobs' = [Reaped EXCEPT ![j] = row]
          /\ pc' = [pc EXCEPT ![w] = "load"]
          /\ task' = [task EXCEPT ![w] = claimed]
          /\ UNCHANGED <<docVars, dianVars, interventions>>
      BY <1>4 DEF Claim
    <2> HIDE DEF row, claimed
    <2>5. jobs' \in [JobId -> JobRow]
      BY <2>2, <2>4, JobsType
    <2>6. /\ pc' \in [Worker -> Location]
          /\ task' \in [Worker -> Task]
          /\ \A v \in Worker : pc'[v] # "idle" => task'[v].job \in JobId
      BY <2>3, <2>4 DEF TypeOK, Location
    <2>7. QED
      BY <2>4, <2>5, <2>6 DEF TypeOK
  <1>5. CASE ClaimNothing
    BY <1>5, JobsType DEF TypeOK, ClaimNothing
  <1>6. ASSUME NEW j \in JobId, LeaseExpires(j)
        PROVE  TypeOK'
    <2>1. jobs' \in [JobId -> JobRow]
      BY <1>6 DEF TypeOK, LeaseExpires, JobRow
    <2>2. QED
      BY <1>6, <2>1 DEF TypeOK, LeaseExpires
  <1>7. ASSUME NEW j \in JobId, RetryDeadJob(j)
        PROVE  TypeOK'
    <2>1. DocOf(j) \in Doc
      BY JobIdParts
    <2>2. status' \in [Doc -> Status]
      BY <1>7, <2>1 DEF TypeOK, RetryDeadJob, Status, DocumentStatus
    <2>3. jobs' \in [JobId -> JobRow]
      BY <1>7, JobsType DEF TypeOK, RetryDeadJob
    <2>4. interventions' \in 0..MaxInterventions
      BY <1>7, ConstantsAssumption DEF TypeOK, RetryDeadJob
    <2>5. QED
      BY <1>7, <2>2, <2>3, <2>4 DEF TypeOK, RetryDeadJob
  <1>8. ASSUME NEW d \in Doc, ReceiveLate(d) \/ Validate(d)
        PROVE  TypeOK'
    <2>1. dian' \in [Doc -> Verdict]
      BY <1>8 DEF TypeOK, ReceiveLate, Validate, Received, Verdict
    <2>2. wire' \in [Doc -> BOOLEAN]
      BY <1>8 DEF TypeOK, ReceiveLate, Validate
    <2>3. QED
      BY <1>8, <2>1, <2>2 DEF TypeOK, ReceiveLate, Validate
  <1>9. CASE UNCHANGED vars
    BY <1>9 DEF vars, TypeOK
  <1>10. QED
    BY <1>1, <1>2, <1>3, <1>4, <1>5, <1>6, <1>7, <1>8, <1>9, StepType DEF Next

\* Every reachable state is well typed: in particular a job row never loses
\* more attempts than it had (release), and a task that is not idle holds the
\* job that claim gave it.
THEOREM TypeCorrect == Spec => []TypeOK
  <1>1. Init => TypeOK
    BY ConstantsAssumption
       DEF Init, TypeOK, Status, Version, FreeRow, JobRow, JobStatus, Location,
           Task, NoTask, Verdict
  <1>2. TypeOK /\ [Next]_vars => TypeOK'
    BY NextType
  <1>3. QED
    BY <1>1, <1>2, PTL DEF Spec


-----------------------------------------------------------------------------
(* What one step may do to a document.                                     *)

\* The UPDATE of apply_transition with its notification and its event.
Moves(d, to, code) ==
    /\ status[d] \in AllowedPredecessors(to)
    /\ status' = [status EXCEPT ![d] = to]
    /\ outbox' = [outbox EXCEPT ![d] = @ \o EventFor(to)]
    /\ events' = [events EXCEPT ![d] = @ \cup {code}]

\* A change of the document d: a transition with its own event, an insertion
\* or a requeue, or an event that changes no status.
DocumentChange(d) ==
    \/ /\ Moves(d, "DianAccepted", "ACCEPTED")
       /\ \E w \in Worker : pc[w] = "accepted" /\ Document(w) = d
    \/ Moves(d, "DianRejected", "REJECTED")
    \/ Moves(d, "SentDian", "SENT_ASYNC")
    \/ Moves(d, "ProcessingFailed", "PROCESSING_FAILED")
    \/ Moves(d, "ContingencyPending", "HTTP_ERROR")
    \/ /\ status[d] \in {Absent, "ContingencyPending"}
       /\ status' = [status EXCEPT ![d] = "Pending"]
       /\ UNCHANGED <<outbox, events>>
    \/ /\ \E code \in {"HTTP_ERROR", "POLLING_EXHAUSTED"} :
             events' = [events EXCEPT ![d] = @ \cup {code}]
       /\ UNCHANGED <<status, outbox>>

\* Transition moves the document of its task, or changes no document.
LEMMA TransitionMoves ==
    ASSUME NEW w, NEW to, NEW code, NEW outcome, NEW followUp,
           Transition(w, to, code, outcome, followUp)
    PROVE  \/ Moves(Document(w), to, code)
           \/ UNCHANGED <<status, outbox, events>>
  BY DEF Transition, Moves, Applies, docVars

\* The last step of a task is the only one that moves its document.
LEMMA StepDocument ==
    ASSUME TypeOK, NEW w \in Worker, Step(w)
    PROVE  \/ UNCHANGED <<status, outbox, events>>
           \/ \E d \in Doc : DocumentChange(d)
  <1> USE DEF docVars
  <1>1. CASE \/ Load(w) \/ Complete(w) \/ Release(w) \/ Retry(w) \/ Bury(w)
             \/ Prepare(w) \/ Query(w) \/ ZipFails(w) \/ GetStatusZip(w)
             \/ SendBillSync(w) \/ SendTestSetAsync(w) \/ SendFails(w)
    BY <1>1 DEF Load, Complete, Release, Retry, Bury, Prepare, Query, ZipFails,
                GetStatusZip, SendBillSync, SendTestSetAsync, SendFails
  <1>2. CASE Accepted(w)
    <2>1. pc[w] = "accepted" /\ Document(w) \in Doc
      BY <1>2, WorkingTask DEF Accepted
    <2>2. \/ Moves(Document(w), "DianAccepted", "ACCEPTED")
          \/ UNCHANGED <<status, outbox, events>>
      BY <1>2, TransitionMoves DEF Accepted
    <2>3. QED
      BY <2>1, <2>2 DEF DocumentChange
  <1>3. CASE Rejected(w)
    <2>1. Document(w) \in Doc
      BY <1>3, WorkingTask DEF Rejected
    <2>2. \/ Moves(Document(w), "DianRejected", "REJECTED")
          \/ UNCHANGED <<status, outbox, events>>
      BY <1>3, TransitionMoves DEF Rejected
    <2>3. QED
      BY <2>1, <2>2 DEF DocumentChange
  <1>4. CASE SentAsync(w)
    <2>1. Document(w) \in Doc
      BY <1>4, WorkingTask DEF SentAsync
    <2>2. \/ Moves(Document(w), "SentDian", "SENT_ASYNC")
          \/ UNCHANGED <<status, outbox, events>>
      BY <1>4, TransitionMoves DEF SentAsync
    <2>3. QED
      BY <2>1, <2>2 DEF DocumentChange
  <1>5. CASE Fail(w)
    <2>1. Document(w) \in Doc
      BY <1>5, WorkingTask DEF Fail
    <2>2. \/ Moves(Document(w), "ProcessingFailed", "PROCESSING_FAILED")
          \/ UNCHANGED <<status, outbox, events>>
      BY <1>5, TransitionMoves DEF Fail
    <2>3. QED
      BY <2>1, <2>2 DEF DocumentChange
  <1>6. CASE TransmissionFailed(w)
    <2>1. Document(w) \in Doc
      BY <1>6, WorkingTask DEF TransmissionFailed
    <2>2. CASE IsLastAttempt(w)
      <3>1. \/ Moves(Document(w), "ContingencyPending", "HTTP_ERROR")
            \/ UNCHANGED <<status, outbox, events>>
        BY <1>6, <2>2, TransitionMoves DEF TransmissionFailed
      <3>2. QED
        BY <2>1, <3>1 DEF DocumentChange
    <2>3. CASE ~IsLastAttempt(w)
      BY <1>6, <2>1, <2>3 DEF TransmissionFailed, DocumentChange
    <2>4. QED
      BY <2>2, <2>3
  <1>7. CASE PollUnresolved(w)
    <2>1. Document(w) \in Doc
      BY <1>7, WorkingTask DEF PollUnresolved
    <2>2. QED
      BY <1>7, <2>1 DEF PollUnresolved, DocumentChange
  <1>8. QED
    BY <1>1, <1>2, <1>3, <1>4, <1>5, <1>6, <1>7 DEF Step

\* Every step changes one document in one of the listed ways, or none.
LEMMA NextDocument ==
    ASSUME TypeOK, [Next]_vars
    PROVE  \/ UNCHANGED <<status, outbox, events>>
           \/ \E d \in Doc : DocumentChange(d)
  <1> USE DEF docVars
  <1>1. ASSUME NEW d \in Doc, Issue(d) \/ RequeueContingency(d)
        PROVE  DocumentChange(d)
    BY <1>1 DEF Issue, RequeueContingency, DocumentChange
  <1>2. ASSUME NEW j \in JobId, RetryDeadJob(j)
        PROVE  DocumentChange(DocOf(j)) \/ UNCHANGED <<status, outbox, events>>
    <2>1. CASE KindOf(j) = "transmit" /\ status[DocOf(j)] = "ContingencyPending"
      BY <1>2, <2>1 DEF RetryDeadJob, DocumentChange
    <2>2. CASE KindOf(j) # "transmit" \/ status[DocOf(j)] # "ContingencyPending"
      BY <1>2, <2>2, JobIdParts DEF RetryDeadJob, TypeOK
    <2>3. QED
      BY <2>1, <2>2
  <1>3. CASE \/ \E w \in Worker : Abandon(w)
             \/ \E w \in Worker, j \in JobId : Claim(w, j)
             \/ ClaimNothing
             \/ \E j \in JobId : LeaseExpires(j)
             \/ \E d \in Doc : ReceiveLate(d) \/ Validate(d)
             \/ UNCHANGED vars
    BY <1>3 DEF Abandon, Claim, ClaimNothing, LeaseExpires, ReceiveLate, Validate,
                vars
  <1>4. QED
    BY <1>1, <1>2, <1>3, StepDocument, JobIdParts DEF Next


-----------------------------------------------------------------------------
(* Properties of every execution, late tasks included.                     *)

\* The audit trail of a document has a verdict exactly when its status is
\* that verdict: apply_transition writes the two together, and no other
\* recording of an event (record_event) or change of status writes one.
THEOREM AuditTrailHolds == Spec => []AuditTrail
  <1>1. Init => AuditTrail
    BY DEF Init, AuditTrail, Absent
  <1>2. ASSUME TypeOK, AuditTrail, [Next]_vars
        PROVE  AuditTrail'
    <2>1. CASE UNCHANGED <<status, outbox, events>>
      BY <1>2, <2>1 DEF AuditTrail
    <2>2. ASSUME NEW d \in Doc, DocumentChange(d)
          PROVE  AuditTrail'
      <3> USE <1>2 DEF TypeOK, AuditTrail
      <3>1. CASE Moves(d, "DianAccepted", "ACCEPTED")
        BY <3>1, Predecessors DEF Moves
      <3>2. CASE Moves(d, "DianRejected", "REJECTED")
        BY <3>2, Predecessors DEF Moves
      <3>3. CASE Moves(d, "SentDian", "SENT_ASYNC")
        BY <3>3, Predecessors DEF Moves
      <3>4. CASE Moves(d, "ProcessingFailed", "PROCESSING_FAILED")
        BY <3>4, Predecessors DEF Moves
      <3>5. CASE Moves(d, "ContingencyPending", "HTTP_ERROR")
        BY <3>5, Predecessors DEF Moves
      <3>6. CASE /\ status[d] \in {Absent, "ContingencyPending"}
                 /\ status' = [status EXCEPT ![d] = "Pending"]
                 /\ UNCHANGED <<outbox, events>>
        BY <3>6 DEF Absent
      <3>7. CASE /\ \E code \in {"HTTP_ERROR", "POLLING_EXHAUSTED"} :
                       events' = [events EXCEPT ![d] = @ \cup {code}]
                 /\ UNCHANGED <<status, outbox>>
        BY <3>7
      <3>8. QED
        BY <2>2, <3>1, <3>2, <3>3, <3>4, <3>5, <3>6, <3>7 DEF DocumentChange
    <2>3. QED
      BY <1>2, <2>1, <2>2, NextDocument
  <1>3. QED
    BY <1>1, <1>2, TypeCorrect, PTL DEF Spec

\* What one more notification does to the outbox of a document that has not
\* published a final status.
LEMMA AppendedOutbox ==
    ASSUME NEW s \in Seq(Notified), NEW to
    PROVE  /\ s \o EventFor(to) \in Seq(Notified)
           /\ to \notin Notified => s \o EventFor(to) = s
           /\ to \in Notified =>
                 /\ Len(s \o EventFor(to)) = Len(s) + 1
                 /\ (s \o EventFor(to))[Len(s) + 1] = to
                 /\ \A i \in 1..Len(s) : (s \o EventFor(to))[i] = s[i]
  <1>1. CASE to \notin Notified
    BY <1>1, EventForType, ConcatEmptySeq
  <1>2. CASE to \in Notified
    <2>1. EventFor(to) = <<to>> /\ <<to>> \in Seq(Notified)
      BY <1>2, EventForType
    <2>2. QED
      BY <1>2, <2>1, ConcatProperties
  <1>3. QED
    BY <1>1, <1>2

\* The notification of a transition to a final status comes last, and only
\* that transition publishes it.
THEOREM NotifiedOnceHolds == Spec => []NotifiedOnce
  <1>1. Init => NotifiedOnce
    BY DEF Init, NotifiedOnce, IsTerminal, Absent
  <1>2. ASSUME TypeOK, NotifiedOnce, [Next]_vars
        PROVE  NotifiedOnce'
    <2>1. CASE UNCHANGED <<status, outbox>>
      BY <1>2, <2>1 DEF NotifiedOnce, IsTerminal
    <2>2. ASSUME NEW d \in Doc, NEW to \in DocumentStatus, NEW code,
                 to \in Notified \/ to = "SentDian", Moves(d, to, code)
          PROVE  NotifiedOnce'
      <3>1. /\ status[d] \in {"Pending", "SentDian", "ContingencyPending"}
            /\ status' = [status EXCEPT ![d] = to]
            /\ outbox' = [outbox EXCEPT ![d] = @ \o EventFor(to)]
        BY <2>2, Predecessors DEF Moves, Notified
      <3>2. \A i \in 1..Len(outbox[d]) : ~IsTerminal(outbox[d][i])
        BY <1>2, <3>1 DEF NotifiedOnce, IsTerminal
      <3>3. outbox[d] \in Seq(Notified) /\ Len(outbox[d]) \in Nat
        BY <1>2 DEF TypeOK
      <3> SUFFICES ASSUME NEW e \in Doc
                   PROVE  /\ IsTerminal(status'[e]) =>
                                outbox'[e] # <<>> /\ outbox'[e][Len(outbox'[e])] = status'[e]
                          /\ \A i \in 1..Len(outbox'[e]) :
                                IsTerminal(outbox'[e][i]) =>
                                    i = Len(outbox'[e]) /\ status'[e] = outbox'[e][i]
        BY DEF NotifiedOnce, IsTerminal
      <3>4. CASE e # d
        BY <1>2, <3>1, <3>4 DEF NotifiedOnce, IsTerminal, TypeOK
      <3>5. CASE e = d /\ to = "SentDian"
        <4>1. outbox'[d] = outbox[d] /\ status'[d] = "SentDian"
          BY <1>2, <3>1, <3>3, <3>5, AppendedOutbox DEF TypeOK, Notified
        <4>2. QED
          BY <3>2, <3>5, <4>1 DEF IsTerminal
      <3>6. CASE e = d /\ to \in Notified
        <4>1. /\ outbox'[d] = outbox[d] \o EventFor(to) /\ status'[d] = to
              /\ outbox'[d] \in Seq(Notified)
          BY <1>2, <3>1, <3>3, AppendedOutbox DEF TypeOK
        <4>2. /\ Len(outbox'[d]) = Len(outbox[d]) + 1
              /\ outbox'[d][Len(outbox[d]) + 1] = to
              /\ \A i \in 1..Len(outbox[d]) : outbox'[d][i] = outbox[d][i]
          BY <3>3, <3>6, <4>1, AppendedOutbox
        <4>3. outbox'[d] # <<>>
          BY <3>3, <4>2
        <4>4. ASSUME NEW i \in 1..Len(outbox'[d]), IsTerminal(outbox'[d][i])
              PROVE  i = Len(outbox'[d])
          <5>1. i \notin 1..Len(outbox[d])
            BY <3>2, <4>2, <4>4
          <5>2. QED
            BY <3>3, <4>2, <5>1
        <4>5. QED
          BY <3>6, <4>1, <4>2, <4>3, <4>4
      <3>7. QED
        BY <2>2, <3>4, <3>5, <3>6
    <2>3. ASSUME NEW d \in Doc, status[d] \in {Absent, "ContingencyPending"},
                 status' = [status EXCEPT ![d] = "Pending"], UNCHANGED outbox
          PROVE  NotifiedOnce'
      BY <1>2, <2>3 DEF NotifiedOnce, IsTerminal, TypeOK, Absent
    <2>4. ASSUME NEW d \in Doc, DocumentChange(d)
          PROVE  NotifiedOnce'
      BY <2>1, <2>2, <2>3, <2>4 DEF DocumentChange, DocumentStatus, Notified
    <2>5. QED
      BY <1>2, <2>1, <2>4, NextDocument
  <1>3. QED
    BY <1>1, <1>2, TypeCorrect, PTL DEF Spec

\* The instance of the abstract specification has the same state machine.
LEMMA SameLifecycle ==
    /\ Abstract!Absent = Absent
    /\ Abstract!DocumentStatus = DocumentStatus
    /\ \A to : Abstract!AllowedPredecessors(to) = AllowedPredecessors(to)
    /\ \A to : Abstract!EventFor(to) = EventFor(to)
  BY DEF Abstract!Absent, Absent, Abstract!DocumentStatus, DocumentStatus,
         Abstract!AllowedPredecessors, AllowedPredecessors, Abstract!Edge, Edge,
         Abstract!EventFor, EventFor, Abstract!Notified, Notified

\* Processing implements DocumentLifecycle: whatever the tasks, the queue, the
\* reconciler and the administrator do, late or not, documents move along the
\* edges of the state machine only, each arrival with its notification.
THEOREM Refinement == Spec => LifecycleRefined
  <1>1. Init => Abstract!Init
    BY SameLifecycle DEF Init, Abstract!Init
  <1>2. ASSUME TypeOK, [Next]_vars
        PROVE  [Abstract!Next]_Abstract!vars
    <2>1. CASE UNCHANGED <<status, outbox>>
      BY <2>1 DEF Abstract!vars
    <2>2. ASSUME NEW d \in Doc, NEW to \in DocumentStatus, NEW code, Moves(d, to, code)
          PROVE  Abstract!Next
      <3>1. Abstract!Move(d, to)
        BY <2>2, SameLifecycle DEF Moves, Abstract!Move
      <3>2. QED
        BY <3>1, SameLifecycle DEF Abstract!Next
    <2>3. ASSUME NEW d \in Doc, status[d] = Absent,
                 status' = [status EXCEPT ![d] = "Pending"], UNCHANGED outbox
          PROVE  Abstract!Next
      BY <2>3, SameLifecycle DEF Abstract!Next, Abstract!Issue
    <2>4. ASSUME NEW d \in Doc, status[d] = "ContingencyPending",
                 status' = [status EXCEPT ![d] = "Pending"], UNCHANGED outbox
          PROVE  Abstract!Next
      <3>1. outbox' = [outbox EXCEPT ![d] = @ \o EventFor("Pending")]
        <4>1. outbox[d] \in Seq(Notified) /\ "Pending" \notin Notified
          BY <1>2 DEF TypeOK, Notified
        <4>2. outbox[d] \o EventFor("Pending") = outbox[d]
          BY <4>1, AppendedOutbox
        <4>3. QED
          BY <1>2, <2>4, <4>2 DEF TypeOK
      <3>2. Abstract!Move(d, "Pending")
        BY <2>4, <3>1, Predecessors, SameLifecycle DEF Abstract!Move
      <3>3. QED
        BY <3>2, SameLifecycle DEF Abstract!Next, DocumentStatus
    <2>5. ASSUME NEW d \in Doc, DocumentChange(d)
          PROVE  Abstract!Next \/ UNCHANGED <<status, outbox>>
      BY <2>2, <2>3, <2>4, <2>5 DEF DocumentChange, DocumentStatus
    <2>6. QED
      BY <1>2, <2>1, <2>5, NextDocument
  <1>3. QED
    BY <1>1, <1>2, TypeCorrect, PTL DEF Spec, LifecycleRefined, Abstract!Spec


-----------------------------------------------------------------------------
(* The verdict of the DIAN.                                                *)

\* An acceptance by the DIAN is final: a duplicate does not undo it.
LEMMA AcceptedIsFinal ==
    ASSUME TypeOK, [Next]_vars, NEW d \in Doc, dian[d] = "accepted"
    PROVE  dian'[d] = "accepted"
  <1> USE DEF dianVars
  <1>1. ASSUME NEW w \in Worker, Step(w)
        PROVE  dian'[d] = "accepted"
    <2>1. CASE SendBillSync(w) \/ SendTestSetAsync(w)
      BY <2>1 DEF TypeOK, SendBillSync, SendTestSetAsync, Received
    <2>2. CASE ~SendBillSync(w) /\ ~SendTestSetAsync(w)
      BY <1>1, <2>2
         DEF Step, Load, Complete, Release, Retry, Bury, Prepare, Query, ZipFails,
             SendFails, Accepted, Rejected, SentAsync, Fail, TransmissionFailed,
             GetStatusZip, PollUnresolved
    <2>3. QED
      BY <2>1, <2>2
  <1>2. ASSUME NEW e \in Doc, ReceiveLate(e) \/ Validate(e)
        PROVE  dian'[d] = "accepted"
    BY <1>2 DEF TypeOK, ReceiveLate, Validate, Received
  <1>3. CASE \/ \E e \in Doc : Issue(e) \/ RequeueContingency(e)
             \/ \E w \in Worker : Abandon(w)
             \/ \E w \in Worker, j \in JobId : Claim(w, j)
             \/ ClaimNothing
             \/ \E j \in JobId : LeaseExpires(j) \/ RetryDeadJob(j)
             \/ UNCHANGED vars
    BY <1>3 DEF Issue, RequeueContingency, Abandon, Claim, ClaimNothing,
                LeaseExpires, RetryDeadJob, vars
  <1>4. QED
    BY <1>1, <1>2, <1>3 DEF Next

\* Where a task stands, and what it holds, changes by its own steps only; a
\* task that is about to write an acceptance has just been told of it.
LEMMA ReachesAccepted ==
    ASSUME TypeOK, [Next]_vars, NEW w \in Worker, pc'[w] = "accepted"
    PROVE  \/ pc[w] = "accepted" /\ task'[w] = task[w]
           \/ task'[w].job = task[w].job /\ dian'[Document(w)] = "accepted"
  <1> USE DEF taskVars
  <1>1. ASSUME NEW v \in Worker, Transition(v, "DianAccepted", "ACCEPTED", "done", FALSE)
                \/ Transition(v, "DianRejected", "REJECTED", "done", FALSE)
                \/ Transition(v, "SentDian", "SENT_ASYNC", "done", TRUE)
                \/ Transition(v, "ProcessingFailed", "PROCESSING_FAILED", "done", FALSE)
                \/ Transition(v, "ContingencyPending", "HTTP_ERROR", "dead", FALSE)
        PROVE  pc[w] = "accepted" /\ task'[w] = task[w]
    <2>1. End(v) \/ Goto(v, "close")
      BY <1>1 DEF Transition
    <2>2. QED
      BY <2>1 DEF TypeOK, End, Goto
  <1>2. ASSUME NEW v \in Worker, Step(v)
        PROVE  \/ pc[w] = "accepted" /\ task'[w] = task[w]
               \/ task'[w].job = task[w].job /\ dian'[Document(w)] = "accepted"
    <2>1. CASE \/ Complete(v) \/ Release(v) \/ Retry(v) \/ Bury(v) \/ ZipFails(v)
               \/ SendTestSetAsync(v) \/ SendFails(v) \/ PollUnresolved(v)
      BY <2>1 DEF TypeOK, Complete, Release, Retry, Bury, ZipFails, SendTestSetAsync,
                  SendFails, PollUnresolved, End, Goto
    <2>2. CASE Load(v)
      BY <2>2 DEF TypeOK, Load, Goto
    <2>3. CASE Prepare(v)
      BY <2>3 DEF TypeOK, Prepare, Goto, AfterPrepare
    <2>4. CASE Query(v)
      <3>1. CASE v = w
        <4>1. dian[Document(w)] = "accepted" /\ dian' = dian
          BY <2>4, <3>1 DEF TypeOK, Query, dianVars
        <4>2. task'[w].job = task[w].job
          BY <2>4, <3>1 DEF TypeOK, Query, Task
        <4>3. QED
          BY <4>1, <4>2
      <3>2. CASE v # w
        BY <2>4, <3>2 DEF TypeOK, Query
      <3>3. QED
        BY <3>1, <3>2
    <2>5. CASE SendBillSync(v)
      <3>1. CASE v = w
        <4>1. pc[w] = "send" /\ task' = task
          BY <2>5, <3>1 DEF SendBillSync, Goto
        <4>2. Document(w) \in Doc
          BY <4>1, WorkingTask
        <4>3. dian'[Document(w)] = "accepted"
          BY <2>5, <3>1, <4>2 DEF TypeOK, SendBillSync, Goto
        <4>4. QED
          BY <4>1, <4>3
      <3>2. CASE v # w
        BY <2>5, <3>2 DEF TypeOK, SendBillSync, Goto
      <3>3. QED
        BY <3>1, <3>2
    <2>6. CASE GetStatusZip(v)
      BY <2>6 DEF TypeOK, GetStatusZip, Goto, dianVars
    <2>7. CASE Accepted(v) \/ Rejected(v) \/ SentAsync(v) \/ Fail(v)
      BY <1>1, <2>7 DEF Accepted, Rejected, SentAsync, Fail
    <2>8. CASE TransmissionFailed(v)
      <3>1. CASE IsLastAttempt(v)
        BY <1>1, <2>8, <3>1 DEF TransmissionFailed
      <3>2. CASE ~IsLastAttempt(v)
        BY <2>8, <3>2 DEF TypeOK, TransmissionFailed, Goto
      <3>3. QED
        BY <3>1, <3>2
    <2>9. QED
      BY <1>2, <2>1, <2>2, <2>3, <2>4, <2>5, <2>6, <2>7, <2>8 DEF Step
  <1>3. ASSUME NEW v \in Worker, Abandon(v)
        PROVE  pc[w] = "accepted" /\ task'[w] = task[w]
    BY <1>3 DEF TypeOK, Abandon, End
  <1>4. ASSUME NEW v \in Worker, NEW j \in JobId, Claim(v, j)
        PROVE  pc[w] = "accepted" /\ task'[w] = task[w]
    BY <1>4 DEF TypeOK, Claim
  <1>5. CASE \/ \E d \in Doc : Issue(d) \/ RequeueContingency(d)
             \/ ClaimNothing
             \/ \E j \in JobId : LeaseExpires(j) \/ RetryDeadJob(j)
             \/ \E d \in Doc : ReceiveLate(d) \/ Validate(d)
             \/ UNCHANGED vars
    BY <1>5 DEF Issue, RequeueContingency, ClaimNothing, LeaseExpires, RetryDeadJob,
                ReceiveLate, Validate, vars
  <1>6. QED
    BY <1>2, <1>3, <1>4, <1>5 DEF Next

\* AcceptedByDian made inductive: a task that is about to write dian_accepted
\* has the acceptance of its document.
AcceptedInv ==
    /\ AcceptedByDian
    /\ \A w \in Worker : pc[w] = "accepted" => dian[Document(w)] = "accepted"

\* dian_accepted is only written for a document that the DIAN has accepted,
\* even by a task that lost its lease, and never contradicted later.
THEOREM AcceptedByDianHolds == Spec => []AcceptedByDian
  <1>1. Init => AcceptedInv
    BY DEF Init, AcceptedInv, AcceptedByDian, Absent
  <1>2. ASSUME TypeOK, AcceptedInv, [Next]_vars
        PROVE  AcceptedInv'
    <2>1. ASSUME NEW w \in Worker, pc'[w] = "accepted"
          PROVE  dian'[DocOf(task'[w].job)] = "accepted"
      <3>1. CASE pc[w] = "accepted" /\ task'[w] = task[w]
        <4>1. Document(w) \in Doc /\ dian[Document(w)] = "accepted"
          BY <1>2, <3>1, WorkingTask DEF AcceptedInv
        <4>2. dian'[Document(w)] = "accepted"
          BY <1>2, <4>1, AcceptedIsFinal
        <4>3. QED
          BY <3>1, <4>2 DEF Document
      <3>2. CASE task'[w].job = task[w].job /\ dian'[Document(w)] = "accepted"
        BY <3>2 DEF Document
      <3>3. QED
        BY <1>2, <2>1, <3>1, <3>2, ReachesAccepted
    <2>2. ASSUME NEW d \in Doc, status'[d] = "DianAccepted"
          PROVE  dian'[d] = "accepted"
      <3>1. CASE status[d] = "DianAccepted"
        BY <1>2, <3>1, AcceptedIsFinal DEF AcceptedInv, AcceptedByDian
      <3>2. CASE status[d] # "DianAccepted"
        <4>1. PICK e \in Doc : DocumentChange(e)
          BY <1>2, <2>2, <3>2, NextDocument
        <4>2. Moves(e, "DianAccepted", "ACCEPTED") /\ e = d
          BY <1>2, <2>2, <3>2, <4>1 DEF TypeOK, DocumentChange, Moves
        <4>3. PICK w \in Worker : pc[w] = "accepted" /\ Document(w) = e
          BY <1>2, <2>2, <3>2, <4>1, <4>2 DEF DocumentChange, Moves, TypeOK
        <4>4. dian[d] = "accepted"
          BY <1>2, <4>2, <4>3 DEF AcceptedInv
        <4>5. QED
          BY <1>2, <4>4, AcceptedIsFinal
      <3>3. QED
        BY <3>1, <3>2
    <2>3. QED
      BY <2>1, <2>2 DEF AcceptedInv, AcceptedByDian, Document
  <1>3. AcceptedInv => AcceptedByDian
    BY DEF AcceptedInv
  <1>4. QED
    BY <1>1, <1>2, <1>3, TypeCorrect, PTL DEF Spec

-----------------------------------------------------------------------------
(* The in-memory store.                                                    *)

\* A task works on a job that is there, and a job on a document that is.
StoreInv ==
    /\ \A w \in Worker : pc[w] # "idle" => jobs[JobOf(w)].status # "free"
    /\ \A j \in JobId : jobs[j].status # "free" => status[DocOf(j)] # Absent

\* What a step of the store of the tests is, and the reaping that precedes a
\* claim.
MemoryStep ==
    \/ Memory!Next
    \/ jobs' = Reaped /\ UNCHANGED <<status, xml, events, outbox>>
    \/ \E j \in JobId : Memory!Claim(Reaped, j)
    \/ UNCHANGED Memory!store

\* The definitions of the instance are those of Processing.
LEMMA SameStore ==
    /\ Memory!JobId = JobId /\ Memory!Absent = Absent
    /\ Memory!DocumentStatus = DocumentStatus
    /\ \A to : Memory!AllowedPredecessors(to) = AllowedPredecessors(to)
    /\ \A to : Memory!EventFor(to) = EventFor(to)
    /\ \A s, a, l :
          Memory!StoredJob(s, a, l) = [status |-> s, attempts |-> a, leased |-> l]
  BY DEF Memory!JobId, JobId, Memory!JobKind, JobKind, Memory!Absent, Absent,
         Memory!DocumentStatus, DocumentStatus,
         Memory!AllowedPredecessors, AllowedPredecessors, Memory!Edge, Edge,
         Memory!EventFor, EventFor, Memory!Notified, Notified, Memory!StoredJob

\* The row number is the third part of a job's identity.
LEMMA RowParts ==
    ASSUME NEW j \in JobId
    PROVE  j[3] \in 1..MaxRows /\ j = <<DocOf(j), KindOf(j), j[3]>>
  BY DEF JobId, DocOf, KindOf

\* uq_jobs_active_per_document and State::has_active_job see the same jobs.
LEMMA NoActiveJob ==
    ASSUME NEW j \in JobId, ~Active(j), ~IndexTaken(j)
    PROVE  ~Memory!HasActiveJob(DocOf(j), KindOf(j))
  <1> SUFFICES ASSUME NEW n \in 1..MaxRows
               PROVE  ~(jobs[<<DocOf(j), KindOf(j), n>>].status \in {"queued", "running"})
    BY DEF Memory!HasActiveJob
  <1> DEFINE i == <<DocOf(j), KindOf(j), n>>
  <1>1. i \in JobId /\ DocOf(i) = DocOf(j) /\ KindOf(i) = KindOf(j)
    BY JobIdParts DEF JobId, DocOf, KindOf
  <1>2. ~Active(i)
    BY <1>1 DEF IndexTaken
  <1>3. QED
    BY <1>2 DEF Active

\* An insertion takes a row that is not in use.
LEMMA InsertedRow ==
    ASSUME NEW rows, NEW j \in JobId, rows[j].status = "free"
    PROVE  [rows EXCEPT ![j] = NewRow] \in Memory!Inserted(rows, DocOf(j), KindOf(j))
  <1>1. j[3] \in 1..MaxRows /\ j = <<DocOf(j), KindOf(j), j[3]>>
    BY RowParts
  <1>2. NewRow = Memory!StoredJob("queued", 0, FALSE)
    BY SameStore DEF NewRow
  <1>3. QED
    BY <1>1, <1>2 DEF Memory!Inserted

\* The invariant of the store when tasks keep their jobs, no row and no
\* document is deleted, and a new row is one of a document that is there.
LEMMA StoreKeeps ==
    ASSUME TypeOK, StoreInv,
           \A w \in Worker : pc'[w] # "idle" =>
              \/ pc[w] # "idle" /\ JobOf(w)' = JobOf(w)
              \/ jobs'[JobOf(w)'].status # "free",
           \A j \in JobId : jobs[j].status # "free" => jobs'[j].status # "free",
           \A d \in Doc : status[d] # Absent => status'[d] # Absent,
           \A j \in JobId : jobs[j].status = "free" /\ jobs'[j].status # "free"
                               => status'[DocOf(j)] # Absent
    PROVE  StoreInv'
  <1>1. ASSUME NEW w \in Worker, pc'[w] # "idle"
        PROVE  jobs'[JobOf(w)'].status # "free"
    <2>1. CASE pc[w] # "idle" /\ JobOf(w)' = JobOf(w)
      BY <2>1, WorkingTask DEF StoreInv
    <2>2. QED
      BY <1>1, <2>1
  <1>2. ASSUME NEW j \in JobId, jobs'[j].status # "free"
        PROVE  status'[DocOf(j)] # Absent
    BY <1>2, JobIdParts DEF StoreInv
  <1>3. QED
    BY <1>1, <1>2 DEF StoreInv

\* A task keeps its job until it ends.
TasksKept ==
    \A v \in Worker : pc'[v] # "idle" => pc[v] # "idle" /\ JobOf(v)' = JobOf(v)

\* A task that moves on keeps its job.
LEMMA GotoKept ==
    ASSUME TypeOK, NEW w \in Worker, pc[w] # "idle", NEW l, pc' = [pc EXCEPT ![w] = l],
           \/ UNCHANGED task
           \/ \E v \in Version : task' = [task EXCEPT ![w].xml = v]
           \/ task' = [task EXCEPT ![w].asked = TRUE]
    PROVE  TasksKept
  <1>1. \A v \in Worker : pc'[v] # "idle" => pc[v] # "idle"
    BY DEF TypeOK
  <1>2. \A v \in Worker : task'[v].job = task[v].job
    <2>1. CASE UNCHANGED task
      BY <2>1
    <2>2. ASSUME NEW v \in Version, task' = [task EXCEPT ![w].xml = v]
          PROVE  \A u \in Worker : task'[u].job = task[u].job
      BY <2>2 DEF TypeOK, Task
    <2>3. CASE task' = [task EXCEPT ![w].asked = TRUE]
      BY <2>3 DEF TypeOK, Task
    <2>4. QED
      BY <2>1, <2>2, <2>3
  <1>3. QED
    BY <1>1, <1>2 DEF TasksKept, JobOf

\* A task that ends leaves the others with their jobs.
LEMMA EndKept ==
    ASSUME TypeOK, NEW w \in Worker, End(w)
    PROVE  TasksKept
  BY DEF TypeOK, End, TasksKept, JobOf

\* A step of a task that changes no row, and no status.
LEMMA TaskOnly ==
    ASSUME TypeOK, StoreInv, TasksKept, UNCHANGED <<status, jobs>>
    PROVE  StoreInv'
  BY StoreKeeps DEF TasksKept

\* complete, retry, release and bury: one row changes, and stays a row.
LEMMA RowSet ==
    ASSUME TypeOK, StoreInv, TasksKept, UNCHANGED <<status, xml, events, outbox>>,
           NEW j \in JobId, NEW row \in JobRow, row.status # "free",
           jobs' = [jobs EXCEPT ![j] = row], jobs[j].status # "free"
    PROVE  StoreInv'
  <1>1. \A i \in JobId : jobs[i].status # "free" <=> jobs'[i].status # "free"
    BY DEF TypeOK
  <1>2. QED
    BY <1>1, StoreKeeps DEF TasksKept

\* Closing, burying, retrying and releasing a job are operations of the in-
\* memory store on a row that is there.
LEMMA RowSteps ==
    ASSUME TypeOK, StoreInv, NEW w \in Worker,
           Complete(w) \/ Bury(w) \/ Retry(w) \/ Release(w)
    PROVE  MemoryStep /\ StoreInv'
  <1> USE DEF docVars
  <1>1. PICK j \in JobId : j = JobOf(w) /\ jobs[j].status # "free"
    BY WorkingTask DEF StoreInv, Complete, Bury, Retry, Release
  <1>2. UNCHANGED <<status, xml, events, outbox>> /\ TasksKept
    BY EndKept DEF Complete, Bury, Retry, Release
  <1>3. jobs[j] \in JobRow /\ jobs[j].attempts \in Nat
    BY DEF TypeOK, JobRow
  \* The attempts of release are those of the other store.
  <1>4. PICK a \in Nat : a = IF jobs[j].attempts > 0 THEN jobs[j].attempts - 1 ELSE 0
    BY <1>3
  <1>5. a = IF jobs[j].attempts - 1 > 0 THEN jobs[j].attempts - 1 ELSE 0
    BY <1>3, <1>4
  <1>6. ASSUME NEW s \in {"done", "queued", "dead"}, NEW b \in Nat,
               jobs' = [jobs EXCEPT ![j] = [status |-> s, attempts |-> b, leased |-> FALSE]],
               b = jobs[j].attempts \/ (s = "queued" /\ b = a)
        PROVE  MemoryStep /\ StoreInv'
    <2>1. [status |-> s, attempts |-> b, leased |-> FALSE] \in JobRow
      BY JobRowType DEF JobStatus
    <2>2. StoreInv'
      BY <1>1, <1>2, <1>6, <2>1, RowSet
    <2>3. CASE b = jobs[j].attempts
      <3>1. Memory!SetStatus(j, s)
        BY <1>1, <1>2, <1>6, <2>3, SameStore DEF Memory!SetStatus
      <3>2. QED
        BY <2>2, <3>1, SameStore DEF MemoryStep, Memory!Next
    <2>4. CASE s = "queued" /\ b = a
      <3>1. Memory!Release(j)
        BY <1>1, <1>2, <1>5, <1>6, <2>4, SameStore DEF Memory!Release
      <3>2. QED
        BY <2>2, <3>1, SameStore DEF MemoryStep, Memory!Next
    <2>5. QED
      BY <1>6, <2>3, <2>4
  <1>7. CASE UNCHANGED jobs
    BY <1>2, <1>7, TaskOnly DEF MemoryStep, Memory!store
  <1>8. CASE Complete(w) \/ Bury(w)
    BY <1>1, <1>3, <1>6, <1>8 DEF Complete, Bury, Ended
  <1>9. CASE Retry(w)
    BY <1>1, <1>3, <1>6, <1>7, <1>9 DEF Retry, SetQueued
  <1>10. CASE Release(w)
    <2>1. SetQueued(j, a)
      BY <1>1, <1>4, <1>10 DEF Release
    <2>2. QED
      BY <1>6, <1>7, <2>1 DEF SetQueued
  <1>11. QED
    BY <1>8, <1>9, <1>10

\* A row is its three fields.
LEMMA RowEqual ==
    ASSUME NEW q \in JobRow, NEW r \in JobRow, q.status = r.status,
           q.attempts = r.attempts, q.leased = r.leased
    PROVE  q = r
  BY DEF JobRow

\* apply_transition, when the document is where the task expects it.
LEMMA TransitionInMemory ==
    ASSUME TypeOK, StoreInv, NEW w \in Worker, pc[w] # "idle",
           NEW to \in DocumentStatus, NEW code \in EventCode,
           NEW outcome \in {"done", "dead"}, NEW followUp \in BOOLEAN,
           Transition(w, to, code, outcome, followUp)
    PROVE  MemoryStep /\ StoreInv'
  <1>1. PICK j \in JobId, d \in Doc :
           j = JobOf(w) /\ d = Document(w) /\ jobs[j].status # "free"
    BY WorkingTask DEF StoreInv
  <1>2. CASE ~Applies(d, to)
    <2>1. UNCHANGED <<status, xml, events, outbox, jobs>> /\ Goto(w, "close")
      BY <1>1, <1>2 DEF Transition, docVars
    <2>2. TasksKept
      BY <2>1, GotoKept DEF Goto
    <2>3. QED
      BY <2>1, <2>2, TaskOnly DEF MemoryStep, Memory!store
  <1>3. CASE Applies(d, to)
    <2> DEFINE closed == [jobs EXCEPT ![j] = Ended(j, outcome)]
    <2>1. /\ status' = [status EXCEPT ![d] = to]
          /\ outbox' = [outbox EXCEPT ![d] = @ \o EventFor(to)]
          /\ events' = [events EXCEPT ![d] = @ \cup {code}]
          /\ End(w) /\ UNCHANGED xml
      BY <1>1, <1>3 DEF Transition
    <2>2. \/ jobs' = closed
          \/ /\ followUp
             /\ \E p \in JobId : /\ DocOf(p) = d /\ KindOf(p) = "poll_status"
                                 /\ IsNextRow(p) /\ ~IndexTaken(p)
                                 /\ jobs' = [closed EXCEPT ![p] = NewRow]
      BY <1>1, <1>3 DEF Transition
    <2>3. /\ closed \in [JobId -> JobRow] /\ closed[j].status # "free"
          /\ \A i \in JobId \ {j} : closed[i] = jobs[i]
          /\ closed = [jobs EXCEPT ![j].status = outcome, ![j].leased = FALSE]
      <3>1. jobs[j] \in JobRow /\ jobs \in [JobId -> JobRow]
        BY DEF TypeOK
      <3>2. Ended(j, outcome) \in JobRow /\ Ended(j, outcome).status = outcome
        BY <3>1 DEF Ended, JobRow, JobStatus
      <3>3. Ended(j, outcome) = [jobs[j] EXCEPT !.status = outcome, !.leased = FALSE]
        <4> DEFINE row == [jobs[j] EXCEPT !.status = outcome, !.leased = FALSE]
        <4>1. /\ row \in JobRow /\ row.status = outcome /\ row.leased = FALSE
              /\ row.attempts = jobs[j].attempts
          BY <3>1 DEF JobRow, JobStatus
        <4>2. /\ Ended(j, outcome).leased = FALSE
              /\ Ended(j, outcome).attempts = jobs[j].attempts
          BY DEF Ended
        <4>3. QED
          BY <3>2, <4>1, <4>2, RowEqual
      <3>4. closed \in [JobId -> JobRow] /\ closed[j] = Ended(j, outcome)
        BY <3>1, <3>2
      <3>5. closed = [jobs EXCEPT ![j].status = outcome, ![j].leased = FALSE]
        <4>1. [jobs EXCEPT ![j].status = outcome, ![j].leased = FALSE]
                 = [jobs EXCEPT ![j] = [jobs[j] EXCEPT !.status = outcome, !.leased = FALSE]]
          BY <3>1
        <4>2. QED
          BY <3>3, <4>1
      <3>6. \A i \in JobId \ {j} : closed[i] = jobs[i]
        BY <3>1
      <3>7. QED
        BY <3>2, <3>4, <3>5, <3>6
    <2>4. TasksKept
      BY <2>1, EndKept
    <2>5. status'[d] = to /\ to # Absent /\ \A e \in Doc \ {d} : status'[e] = status[e]
      BY <2>1 DEF TypeOK, DocumentStatus, Absent
    <2> HIDE DEF closed
    <2>6. CASE jobs' = closed
      <3>1. StoreInv'
        <4>1. \A i \in JobId : jobs[i].status # "free" <=> jobs'[i].status # "free"
          BY <1>1, <2>3, <2>6
        <4>2. QED
          BY <2>4, <2>5, <4>1, StoreKeeps DEF TasksKept
      <3>2. Memory!ApplyTransition(d, to)
        <4>1. \E i \in JobId, o \in {"done", "dead"}, f \in BOOLEAN :
                 LET c == [jobs EXCEPT ![i].status = o, ![i].leased = FALSE]
                 IN  /\ jobs[i].status # "free"
                     /\ IF f /\ ~Memory!HasActiveJob(d, "poll_status")
                        THEN jobs' \in Memory!Inserted(c, d, "poll_status")
                        ELSE jobs' = c
          <5>1. FALSE \in BOOLEAN /\ outcome \in {"done", "dead"}
            OBVIOUS
          <5>2. QED
            BY <1>1, <2>3, <2>6, <5>1
        <4>2. QED
          BY <1>3, <2>1, <4>1, SameStore DEF Memory!ApplyTransition, Applies
      <3>3. QED
        BY <3>1, <3>2, SameStore DEF MemoryStep, Memory!Next
    <2>7. ASSUME NEW p \in JobId, DocOf(p) = d, KindOf(p) = "poll_status", IsNextRow(p),
                 ~IndexTaken(p), jobs' = [closed EXCEPT ![p] = NewRow]
          PROVE  MemoryStep /\ StoreInv'
      <3>1. jobs[p].status = "free" /\ p # j /\ closed[p].status = "free"
        BY <1>1, <2>3, <2>7 DEF IsNextRow
      <3>2. ~Memory!HasActiveJob(d, "poll_status")
        BY <2>7, <3>1, NoActiveJob DEF Active
      <3>3. jobs' \in Memory!Inserted(closed, d, "poll_status")
        BY <2>7, <3>1, InsertedRow
      <3>4. Memory!ApplyTransition(d, to)
        <4>1. \E i \in JobId, o \in {"done", "dead"}, f \in BOOLEAN :
                 LET c == [jobs EXCEPT ![i].status = o, ![i].leased = FALSE]
                 IN  /\ jobs[i].status # "free"
                     /\ IF f /\ ~Memory!HasActiveJob(d, "poll_status")
                        THEN jobs' \in Memory!Inserted(c, d, "poll_status")
                        ELSE jobs' = c
          <5>1. TRUE \in BOOLEAN /\ outcome \in {"done", "dead"}
            OBVIOUS
          <5>2. QED
            BY <1>1, <2>3, <3>2, <3>3, <5>1
        <4>2. QED
          BY <1>3, <2>1, <4>1, SameStore DEF Memory!ApplyTransition, Applies
      <3>5. StoreInv'
        <4>1. \A i \in JobId : i # p => (jobs[i].status # "free" <=> jobs'[i].status # "free")
          BY <1>1, <2>3, <2>7
        <4>2. QED
          BY <2>4, <2>5, <2>7, <3>1, <4>1, StoreKeeps DEF TasksKept
      <3>6. QED
        BY <3>4, <3>5, SameStore DEF MemoryStep, Memory!Next
    <2>8. QED
      BY <2>2, <2>6, <2>7
  <1>4. QED
    BY <1>1, <1>2, <1>3

\* The steps of a task, one by one.
LEMMA StepInMemory ==
    ASSUME TypeOK, StoreInv, NEW w \in Worker, Step(w) \/ Abandon(w)
    PROVE  MemoryStep /\ StoreInv'
  <1> USE DEF docVars
  <1>0. pc[w] # "idle"
    BY DEF Step, Load, Complete, Release, Retry, Bury, Prepare, Query, ZipFails,
           SendBillSync, SendTestSetAsync, SendFails, Accepted, Rejected,
           SentAsync, Fail, TransmissionFailed, GetStatusZip, PollUnresolved, Abandon
  <1>1. PICK d \in Doc : d = Document(w) /\ status[d] # Absent
    <2>1. JobOf(w) \in JobId /\ Document(w) \in Doc /\ Document(w) = DocOf(JobOf(w))
      BY <1>0, WorkingTask DEF Document, JobOf
    <2>2. QED
      BY <1>0, <2>1 DEF StoreInv
  <1>2. ASSUME TasksKept, UNCHANGED <<status, jobs>>, UNCHANGED <<xml, events, outbox>>
        PROVE  MemoryStep /\ StoreInv'
    BY <1>2, TaskOnly DEF MemoryStep, Memory!store
  <1>3. ASSUME NEW l, Goto(w, l)
        PROVE  TasksKept
    BY <1>0, <1>3, GotoKept DEF Goto
  <1>4. CASE Load(w)
    <2>1. UNCHANGED <<status, jobs>> /\ UNCHANGED <<xml, events, outbox>>
      BY <1>4 DEF Load
    <2>2. CASE Goto(w, "close") \/ Goto(w, "release")
      BY <1>2, <1>3, <2>1, <2>2
    <2>3. CASE ~Goto(w, "close") /\ ~Goto(w, "release")
      <3>1. PICK l : pc' = [pc EXCEPT ![w] = l]
        BY <1>4, <2>3 DEF Load
      <3>2. task' = [task EXCEPT ![w].xml = xml[d]] /\ xml[d] \in Version
        BY <1>1, <1>4, <2>3 DEF Load, TypeOK
      <3>3. QED
        BY <1>0, <1>2, <2>1, <3>1, <3>2, GotoKept
    <2>4. QED
      BY <2>2, <2>3
  <1>5. CASE Complete(w) \/ Bury(w) \/ Retry(w) \/ Release(w)
    BY <1>5, RowSteps
  <1>6. CASE Prepare(w)
    <2>1. UNCHANGED <<status, jobs>> /\ UNCHANGED <<events, outbox>>
      BY <1>6 DEF Prepare
    <2>2. /\ \/ UNCHANGED xml
             \/ xml[d] < MaxSignings /\ xml' = [xml EXCEPT ![d] = @ + 1]
          /\ \/ Goto(w, AfterPrepare(w)) \/ Goto(w, "broken")
             \/ /\ pc' = [pc EXCEPT ![w] = AfterPrepare(w)]
                /\ xml[d] < MaxSignings /\ task' = [task EXCEPT ![w].xml = xml[d] + 1]
      BY <1>1, <1>6 DEF Prepare
    <2>3. xml[d] < MaxSignings => xml[d] + 1 \in 1..MaxSignings /\ xml[d] + 1 \in Version
      BY <1>1, ConstantsAssumption DEF TypeOK, Version
    <2>4. TasksKept
      BY <1>0, <1>3, <2>2, <2>3, GotoKept
    <2>5. CASE UNCHANGED xml
      BY <1>2, <2>1, <2>4, <2>5
    <2>6. CASE xml[d] < MaxSignings /\ xml' = [xml EXCEPT ![d] = @ + 1]
      <3>1. Memory!StoreArtifacts(d, xml[d] + 1)
        BY <1>1, <2>1, <2>6, SameStore DEF Memory!StoreArtifacts
      <3>2. Memory!Next
        BY <2>3, <2>6, <3>1 DEF Memory!Next
      <3>3. QED
        BY <2>1, <2>4, <3>2, TaskOnly DEF MemoryStep
    <2>7. QED
      BY <2>2, <2>5, <2>6
  <1>7. CASE Query(w)
    <2>1. PICK l : pc' = [pc EXCEPT ![w] = l]
      BY <1>7 DEF Query
    <2>2. QED
      BY <1>0, <1>2, <1>7, <2>1, GotoKept DEF Query
  <1>8. CASE ZipFails(w) \/ SendBillSync(w) \/ SendTestSetAsync(w) \/ SendFails(w)
                \/ GetStatusZip(w)
    <2>1. UNCHANGED <<status, jobs>> /\ UNCHANGED <<xml, events, outbox>>
      BY <1>8 DEF ZipFails, SendBillSync, SendTestSetAsync, SendFails, GetStatusZip
    <2>2. \E l \in Location : Goto(w, l)
      BY <1>8 DEF ZipFails, SendBillSync, SendTestSetAsync, SendFails, GetStatusZip, Location
    <2>3. QED
      BY <1>2, <1>3, <2>1, <2>2
  <1>9. CASE Accepted(w) \/ Rejected(w) \/ SentAsync(w) \/ Fail(w)
    BY <1>0, <1>9, TransitionInMemory
       DEF Accepted, Rejected, SentAsync, Fail, DocumentStatus, EventCode
  <1>10. ASSUME NEW code \in EventCode, events' = [events EXCEPT ![d] = @ \cup {code}],
                UNCHANGED <<status, jobs>>, UNCHANGED <<xml, outbox>>, TasksKept
         PROVE  MemoryStep /\ StoreInv'
    <2>1. Memory!RecordEvent(d, code)
      BY <1>10 DEF Memory!RecordEvent
    <2>2. QED
      BY <1>10, <2>1, TaskOnly DEF MemoryStep, Memory!Next
  <1>11. CASE TransmissionFailed(w)
    <2>1. CASE IsLastAttempt(w)
      BY <1>0, <1>11, <2>1, TransitionInMemory
         DEF TransmissionFailed, DocumentStatus, EventCode
    <2>2. CASE ~IsLastAttempt(w)
      BY <1>1, <1>3, <1>10, <1>11, <2>2 DEF TransmissionFailed, EventCode
    <2>3. QED
      BY <2>1, <2>2
  <1>12. CASE PollUnresolved(w)
    <2>1. UNCHANGED <<status, jobs>> /\ UNCHANGED <<xml, outbox>> /\ TasksKept
      BY <1>3, <1>12 DEF PollUnresolved
    <2>2. CASE UNCHANGED events
      BY <1>2, <2>1, <2>2
    <2>3. CASE events' = [events EXCEPT ![d] = @ \cup {"POLLING_EXHAUSTED"}]
      BY <1>10, <2>1, <2>3 DEF EventCode
    <2>4. QED
      BY <1>1, <1>12, <2>2, <2>3 DEF PollUnresolved
  <1>13. CASE Abandon(w)
    BY <1>2, <1>13, EndKept DEF Abandon
  <1>14. QED
    BY <1>4, <1>5, <1>6, <1>7, <1>8, <1>9, <1>11, <1>12, <1>13 DEF Step

\* A job that appears, or is queued again, on a document that is pending or
\* sent, when no other job of its kind is active.
LEMMA QueueInMemory ==
    ASSUME TypeOK, StoreInv
    PROVE  /\ \A d \in Doc : Issue(d) => MemoryStep /\ StoreInv'
           /\ \A d \in Doc : RequeueContingency(d) => MemoryStep /\ StoreInv'
           /\ \A j \in JobId : RetryDeadJob(j) => MemoryStep /\ StoreInv'
  <1> USE DEF taskVars
  <1>1. ASSUME NEW j \in JobId, jobs' = [jobs EXCEPT ![j] = NewRow], UNCHANGED <<pc, task>>,
               \A d \in Doc : status[d] # Absent => status'[d] # Absent,
               status'[DocOf(j)] # Absent
        PROVE  StoreInv'
    <2>1. /\ jobs'[j].status # "free" /\ \A i \in JobId \ {j} : jobs'[i] = jobs[i]
      BY <1>1 DEF TypeOK, NewRow
    <2>2. QED
      BY <1>1, <2>1, StoreKeeps DEF JobOf
  <1>2. ASSUME NEW d \in Doc, Issue(d)
        PROVE  MemoryStep /\ StoreInv'
    <2>1. PICK j \in JobId : /\ DocOf(j) = d /\ KindOf(j) = "transmit" /\ IsNextRow(j)
                             /\ jobs' = [jobs EXCEPT ![j] = NewRow]
      BY <1>2 DEF Issue
    <2>2. jobs' \in Memory!Inserted(jobs, d, "transmit")
      BY <2>1, InsertedRow DEF IsNextRow
    <2>3. Memory!IssueOutbound(d)
      BY <1>2, <2>2, SameStore DEF Issue, Memory!IssueOutbound
    <2>4. StoreInv'
      BY <1>1, <1>2, <2>1 DEF Issue, TypeOK, Absent
    <2>5. QED
      BY <2>3, <2>4 DEF MemoryStep, Memory!Next
  <1>3. ASSUME NEW d \in Doc, RequeueContingency(d)
        PROVE  MemoryStep /\ StoreInv'
    <2>1. PICK j \in JobId : /\ DocOf(j) = d /\ KindOf(j) = "transmit" /\ IsNextRow(j)
                             /\ ~IndexTaken(j) /\ jobs' = [jobs EXCEPT ![j] = NewRow]
      BY <1>3 DEF RequeueContingency
    <2>2. jobs' \in Memory!Inserted(jobs, d, "transmit")
      BY <2>1, InsertedRow DEF IsNextRow
    <2>3. ~Memory!HasActiveJob(d, "transmit")
      BY <2>1, NoActiveJob DEF IsNextRow, Active
    <2>4. Memory!RequeueContingency(d)
      BY <1>3, <2>2, <2>3 DEF RequeueContingency, Memory!RequeueContingency
    <2>5. StoreInv'
      BY <1>1, <1>3, <2>1 DEF RequeueContingency, TypeOK, Absent
    <2>6. QED
      BY <2>4, <2>5 DEF MemoryStep, Memory!Next
  <1>4. ASSUME NEW j \in JobId, RetryDeadJob(j)
        PROVE  MemoryStep /\ StoreInv'
    <2>1. DocOf(j) \in Doc /\ KindOf(j) \in {"transmit", "poll_status"}
      BY JobIdParts DEF JobKind
    <2>2. ~Memory!HasActiveJob(j[1], j[2])
      BY <1>4, NoActiveJob DEF RetryDeadJob, Active, DocOf, KindOf
    <2>3. NewRow = Memory!StoredJob("queued", 0, FALSE)
      BY SameStore DEF NewRow
    <2>4. Memory!RetryDeadJob(j)
      BY <1>4, <2>1, <2>2, <2>3 DEF RetryDeadJob, Memory!RetryDeadJob, DocOf, KindOf
    <2>5. /\ status'[DocOf(j)] # Absent
          /\ \A d \in Doc : status[d] # Absent => status'[d] # Absent
      BY <1>4, <2>1 DEF RetryDeadJob, TypeOK, Absent
    <2>6. StoreInv'
      BY <1>1, <1>4, <2>5 DEF RetryDeadJob
    <2>7. QED
      BY <2>4, <2>6, SameStore DEF MemoryStep, Memory!Next
  <1>5. QED
    BY <1>2, <1>3, <1>4

\* claim, with and without a job, and the passing of a lease.
LEMMA ClaimInMemory ==
    ASSUME TypeOK, StoreInv
    PROVE  /\ \A w \in Worker, j \in JobId : Claim(w, j) => MemoryStep /\ StoreInv'
           /\ ClaimNothing => MemoryStep /\ StoreInv'
           /\ \A j \in JobId : LeaseExpires(j) => MemoryStep /\ StoreInv'
  <1> USE DEF docVars, taskVars
  <1>1. /\ Reaped \in [JobId -> JobRow]
        /\ \A i \in JobId : jobs[i].status # "free" <=> Reaped[i].status # "free"
    BY JobsType DEF Reaped, Ended, Expired
  <1>2. ASSUME NEW w \in Worker, NEW j \in JobId, Claim(w, j)
        PROVE  MemoryStep /\ StoreInv'
    <2>1. Reaped[j] = jobs[j]
      BY <1>2 DEF Claim, Claimable, Reaped
    <2>2. /\ jobs[j].status = "queued" \/ (jobs[j].status = "running" /\ ~jobs[j].leased)
          /\ jobs[j].attempts < MaxAttempts[j[2]]
      <3>1. KindOf(j) \in JobKind /\ jobs[j].attempts \in Nat /\ MaxAttempts[KindOf(j)] \in Nat
        BY JobIdParts, ConstantsAssumption DEF TypeOK, JobRow
      <3>2. QED
        BY <1>2, <3>1 DEF Claim, Claimable, Expired, Exhausted, KindOf
    <2>3. jobs' = [Reaped EXCEPT ![j] = [status |-> "running",
                     attempts |-> Reaped[j].attempts + 1, leased |-> TRUE]]
      BY <1>2, <2>1 DEF Claim
    <2>4. Memory!Claim(Reaped, j)
      BY <1>2, <2>1, <2>2, <2>3, SameStore DEF Claim, Memory!Claim, Memory!Ready
    <2>5. /\ jobs'[j].status = "running"
          /\ \A i \in JobId \ {j} : jobs'[i] = Reaped[i]
      BY <1>1, <2>3
    <2>6. pc'[w] = "load" /\ task'[w].job = j
      BY <1>2 DEF Claim, TypeOK
    <2>7. \A v \in Worker : v # w => pc'[v] = pc[v] /\ task'[v] = task[v]
      BY <1>2 DEF Claim, TypeOK
    <2>8. UNCHANGED status /\ (jobs[j].status # "free")
      BY <1>2, <2>2 DEF Claim
    <2>9. StoreInv'
      BY <1>1, <2>5, <2>6, <2>7, <2>8, StoreKeeps DEF JobOf
    <2>10. QED
      BY <2>4, <2>9 DEF MemoryStep
  <1>3. ASSUME ClaimNothing
        PROVE  MemoryStep /\ StoreInv'
    <2>1. jobs' = Reaped /\ UNCHANGED <<status, xml, events, outbox>> /\ UNCHANGED <<pc, task>>
      BY <1>3 DEF ClaimNothing
    <2>2. StoreInv'
      BY <1>1, <2>1, StoreKeeps DEF JobOf
    <2>3. QED
      BY <2>1, <2>2 DEF MemoryStep
  <1>4. ASSUME NEW j \in JobId, LeaseExpires(j)
        PROVE  MemoryStep /\ StoreInv'
    <2>1. Memory!LeasePasses(j)
      BY <1>4 DEF LeaseExpires, Memory!LeasePasses
    <2>2. \A i \in JobId : jobs'[i].status = jobs[i].status
      BY <1>4 DEF LeaseExpires, TypeOK, JobRow
    <2>3. StoreInv'
      BY <1>4, <2>2, StoreKeeps DEF LeaseExpires, JobOf
    <2>4. QED
      BY <2>1, <2>3, SameStore DEF MemoryStep, Memory!Next
  <1>5. QED
    BY <1>2, <1>3, <1>4

\* Every step is one of the in-memory store, a reaping, or leaves the store
\* alone.
LEMMA NextInMemory ==
    ASSUME TypeOK, StoreInv, [Next]_vars
    PROVE  MemoryStep /\ StoreInv'
  <1>1. ASSUME UNCHANGED <<docVars, jobs, taskVars>>
        PROVE  MemoryStep /\ StoreInv'
    BY <1>1 DEF docVars, taskVars, MemoryStep, Memory!store, StoreInv, JobOf
  <1>2. ASSUME NEW d \in Doc, ReceiveLate(d) \/ Validate(d)
        PROVE  MemoryStep /\ StoreInv'
    BY <1>1, <1>2 DEF ReceiveLate, Validate
  <1>3. CASE UNCHANGED vars
    BY <1>1, <1>3 DEF vars
  <1>4. QED
    BY <1>2, <1>3, StepInMemory, QueueInMemory, ClaimInMemory DEF Next

\* testing.rs on InMemoryStore: the tables of PostgreSQL move by its
\* operations, the reaping that precedes a claim apart, whatever the workers,
\* the reconciler and the administrator do at once, late tasks included.
THEOREM StoreIsInMemoryHolds == Spec => StoreIsInMemory
  <1>1. Init => StoreInv
    BY DEF Init, StoreInv, FreeRow
  <1>2. Init => Memory!Init
    BY SameStore DEF Init, Memory!Init, FreeRow
  <1>3. TypeOK /\ StoreInv /\ [Next]_vars => StoreInv'
    BY NextInMemory
  <1>4. TypeOK /\ StoreInv /\ [Next]_vars =>
           [\/ Memory!Next
            \/ jobs' = Reaped /\ UNCHANGED <<status, xml, events, outbox>>
            \/ \E j \in JobId : Memory!Claim(Reaped, j)]_(Memory!store)
    BY NextInMemory DEF MemoryStep
  <1>5. QED
    BY <1>1, <1>2, <1>3, <1>4, TypeCorrect, PTL DEF Spec, StoreIsInMemory
=============================================================================
