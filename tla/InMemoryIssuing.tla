-------------------------- MODULE InMemoryIssuing --------------------------
(***************************************************************************)
(* issue_outbound and add_numbering_range of InMemoryStore, the store that *)
(* the tests of the use cases run on: under its mutex each is one action,  *)
(* at one instant of the clock.  Issuance, the statements of the adapter   *)
(* of PostgreSQL, is compared with it.                                     *)
(***************************************************************************)
EXTENDS Integers

CONSTANTS Request, Range, RangeInfo, Key, NoKey, NoRange, NoRequest

VARIABLES
    now,         \* the clock
    registered,  \* ranges
    counter,     \* current_counter of each
    number,      \* documents: the number of each, 0 when there is none
    origin,      \* documents: numbering_range_id
    keyRow,      \* idempotency: the document of each key
    call         \* what each request asks for

store == <<registered, counter, number, origin, keyRow>>

Init ==
    /\ registered = {}
    /\ counter = [x \in Range |-> 0]
    /\ number = [r \in Request |-> 0]
    /\ origin = [r \in Request |-> NoRange]
    /\ keyRow = [k \in Key |-> NoRequest]

\* add_numbering_range
AddNumberingRange(x) ==
    /\ \A y \in registered :
          \/ RangeInfo[y].series # RangeInfo[x].series
          \/ RangeInfo[y].validFrom >= RangeInfo[x].validTo
          \/ RangeInfo[x].validFrom >= RangeInfo[y].validTo
    /\ x \notin registered
    /\ registered' = registered \cup {x}
    /\ counter' = [counter EXCEPT ![x] = RangeInfo[x].last]
    /\ UNCHANGED <<number, origin, keyRow>>

\* The filter of issue_outbound on the ranges, at instant t.
InForce(r, t) ==
    {x \in registered :
        /\ RangeInfo[x].series = call[r].series
        /\ RangeInfo[x].validFrom <= t /\ t <= RangeInfo[x].validTo}

\* next_number of a range in force: after the counter, from from_number on.
NextNumber(x) ==
    IF counter[x] < RangeInfo[x].from THEN RangeInfo[x].from ELSE counter[x] + 1

\* issue_outbound after its range is chosen: a key that is not bound, a number
\* of the range that was asked for or left to it and no document has; counter,
\* document and key change together.
Created(r, x) ==
    LET n == NextNumber(x)  k == call[r].key IN
    /\ k # NoKey => keyRow[k] = NoRequest
    /\ call[r].asked \in {0, n}
    /\ n <= RangeInfo[x].to
    /\ \A q \in Request : number[q] = n => call[q].series # call[r].series
    /\ number[r] = 0
    /\ counter' = [counter EXCEPT ![x] = n]
    /\ number' = [number EXCEPT ![r] = n]
    /\ origin' = [origin EXCEPT ![r] = x]
    /\ keyRow' = [i \in Key |-> IF i = k THEN r ELSE keyRow[i]]
    /\ UNCHANGED registered

\* issue_outbound, with t for Utc::now(), from the latest range to come into force.
IssueOutbound(r, t) ==
    \E x \in InForce(r, t) :
       /\ \A y \in InForce(r, t) : RangeInfo[y].validFrom <= RangeInfo[x].validFrom
       /\ Created(r, x)

Next ==
    \/ \E x \in Range : AddNumberingRange(x)
    \/ \E r \in Request, t \in 0..now : IssueOutbound(r, t)

Spec == Init /\ [][Next]_store
=============================================================================
