----------------------------- MODULE Lifecycle -----------------------------
(***************************************************************************)
(* The document state machine of core-domain: the statuses, the edges      *)
(* between them and the webhook event each arrival publishes.  A table of  *)
(* definitions without state, shared by the abstract specification         *)
(* DocumentLifecycle and by the detailed one, Processing.                  *)
(***************************************************************************)

\* A document that has not been inserted yet has no row and no status.
Absent == "Absent"

\* DocumentStatus (draft and contingency_sent are never entered).
DocumentStatus ==
    {"Draft", "Pending", "SentDian", "DianAccepted", "DianRejected",
     "ContingencyPending", "ContingencySent", "ProcessingFailed"}

Status == DocumentStatus \cup {Absent}

\* The edges of the state machine, as <<from, to>>.
Edge ==
    {<<"ContingencyPending", "Pending">>,
     <<"Pending", "SentDian">>,           <<"ContingencyPending", "SentDian">>,
     <<"Pending", "DianAccepted">>,       <<"Pending", "DianRejected">>,
     <<"SentDian", "DianAccepted">>,      <<"SentDian", "DianRejected">>,
     <<"ContingencyPending", "DianAccepted">>,
     <<"ContingencyPending", "DianRejected">>,
     <<"Pending", "ContingencyPending">>,
     <<"Pending", "ProcessingFailed">>,
     <<"ContingencyPending", "ProcessingFailed">>}

\* DocumentStatus::allowed_predecessors
AllowedPredecessors(to) == {from \in DocumentStatus : <<from, to>> \in Edge}

\* DocumentStatus::is_terminal
IsTerminal(s) == s \in {"DianAccepted", "DianRejected", "ProcessingFailed"}

\* webhooks::event_for: the statuses whose arrival is notified.  The event
\* names (document.accepted, document.rejected, document.contingency and
\* document.failed) are one to one with them: a notification is the status.
Notified ==
    {"DianAccepted", "DianRejected", "ContingencyPending", "ProcessingFailed"}

\* Mutant of EventFor: document.failed is forgotten.
EventForForgets(to) ==
    IF to \in Notified \ {"ProcessingFailed"} THEN <<to>> ELSE <<>>

\* What apply_transition adds to the outbox on arrival at a status.
EventFor(to) == IF to \in Notified THEN <<to>> ELSE <<>>
=============================================================================
