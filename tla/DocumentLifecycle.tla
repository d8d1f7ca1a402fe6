------------------------- MODULE DocumentLifecycle -------------------------
(***************************************************************************)
(* What the document store promises to everyone who reads it: a document   *)
(* is issued as Pending, then moves only along the edges of the state      *)
(* machine, and every arrival that a webhook may be subscribed to is       *)
(* published in the same step, neither lost nor ahead of the change.       *)
(* Processing implements this specification whatever its workers do.       *)
(***************************************************************************)
EXTENDS Lifecycle, Sequences

CONSTANT Doc

VARIABLES status,   \* documents.status
          outbox    \* notifications enqueued for the document, in order

vars == <<status, outbox>>

Init ==
    /\ status = [d \in Doc |-> Absent]
    /\ outbox = [d \in Doc |-> <<>>]

\* issue_outbound inserts the document.
Issue(d) ==
    /\ status[d] = Absent
    /\ status' = [status EXCEPT ![d] = "Pending"]
    /\ UNCHANGED outbox

\* One edge of the state machine, with its notification.
Move(d, to) ==
    /\ status[d] \in AllowedPredecessors(to)
    /\ status' = [status EXCEPT ![d] = to]
    /\ outbox' = [outbox EXCEPT ![d] = @ \o EventFor(to)]

Next == \E d \in Doc : Issue(d) \/ \E to \in DocumentStatus : Move(d, to)

Spec == Init /\ [][Next]_vars
=============================================================================
