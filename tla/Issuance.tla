------------------------------ MODULE Issuance ------------------------------
(***************************************************************************)
(* The issuing of documents: IssueService::issue over                      *)
(* PgStore::issue_outbound, the numbering resolutions                      *)
(* (register_numbering_range over add_numbering_range) and next_number.    *)
(*                                                                         *)
(* A step of a request is one SQL statement of issue_outbound, at read     *)
(* committed: what a transaction wrote is seen by others when it commits,  *)
(* and until then its row locks and its unique keys make the others wait.  *)
(* A document has the identity of the request that issues it (Uuid::new).  *)
(* Requests have passed the validation of their payload, which depends on  *)
(* nothing else; the tenant is one, since nothing is shared between two.   *)
(***************************************************************************)
EXTENDS Integers, FiniteSets

CONSTANTS
    Request,     \* calls to the API
    Call,        \* what a call may ask for
    Range,       \* numbering resolutions that may be registered
    RangeInfo,   \* [Range -> Resolution]: what each one says
    Key,         \* Idempotency-Key values
    NoKey,       \* a call without the header
    NoRange,     \* a transaction that has not selected a range
    NoRequest,   \* an idempotency key without a row
    MaxTime      \* bound: the last instant of the clock

\* A numbering range as registered: series stands for the document type and
\* the prefix, last is last_issued_number, 0 when it was not given.
Resolution == [series : STRING, from : Nat, to : Nat, last : Nat,
               validFrom : Nat, validTo : Nat]

\* asked = 0: the server assigns the number (issue_support_document).  The
\* body, as request_hash sees it, is the series, the number and the content.
Calls == [key : Key \cup {NoKey}, series : STRING, asked : Nat, content : STRING]

\* The guards of register_numbering_range; the last number that the DIAN can
\* authorise is far from i32::MAX, so that next_number does not overflow.
ASSUME RangeAssumption ==
    /\ RangeInfo \in [Range -> Resolution]
    /\ \A x \in Range :
          LET i == RangeInfo[x] IN
          /\ 1 <= i.from /\ i.from <= i.to /\ i.to < 2147483647
          /\ i.validFrom < i.validTo
          /\ i.last = 0 \/ i.last \in (i.from - 1)..i.to
    /\ NoRange \notin Range

ASSUME CallAssumption ==
    /\ Call \subseteq Calls
    /\ NoKey \notin Key
    /\ NoRequest \notin Request
    /\ MaxTime \in Nat

VARIABLES
    now,         \* the clock, of the application and of the database
    registered,  \* rows of numbering_ranges
    counter,     \* current_counter of each
    number,      \* document_number of each document, 0 when it has no row
    origin,      \* numbering_range_id of each document
    keyRow,      \* idempotency_keys: the document that each key is bound to
    call,        \* what each request asks for
    pc,          \* where each request is
    tx,          \* what it holds in memory
    reply        \* what it was answered, and with which document

tables == <<registered, counter, number, origin, keyRow>>
vars   == <<now, tables, call, pc, tx, reply>>

-----------------------------------------------------------------------------
Location == {"new", "find", "begin", "select", "lock", "insert", "key",
             "commit", "refind", "done"}

\* DomainError::Validation is invalid (the numbering) or mismatch (the key);
\* internal is an error of the database, or no answer at all.
Answer == {"none", "created", "replayed", "invalid", "mismatch", "conflict",
           "internal"}

NoTx    == [began |-> 0, range |-> NoRange, number |-> 0]
NoReply == [answer |-> "none", document |-> NoRequest]

TypeOK ==
    /\ now \in 0..MaxTime
    /\ registered \subseteq Range
    /\ counter \in [Range -> Nat]
    /\ number \in [Request -> Nat]
    /\ origin \in [Request -> Range \cup {NoRange}]
    /\ keyRow \in [Key -> Request \cup {NoRequest}]
    /\ call \in [Request -> Call]
    /\ pc \in [Request -> Location]
    /\ tx \in [Request -> [began : Nat, range : Range \cup {NoRange}, number : Nat]]
    /\ reply \in [Request -> [answer : Answer, document : Request \cup {NoRequest}]]

Init ==
    /\ now = 0
    /\ registered = {}
    /\ counter = [x \in Range |-> 0]
    /\ number = [r \in Request |-> 0]
    /\ origin = [r \in Request |-> NoRange]
    /\ keyRow = [k \in Key |-> NoRequest]
    /\ call \in [Request -> Call]
    /\ pc = [r \in Request |-> "new"]
    /\ tx = [r \in Request |-> NoTx]
    /\ reply = [r \in Request |-> NoReply]

-----------------------------------------------------------------------------
(* Numbering resolutions.                                                  *)

\* The NOT EXISTS of add_numbering_range: the ends may touch.
Overlaps(x, y) ==
    LET i == RangeInfo[x]  k == RangeInfo[y] IN
    /\ i.series = k.series
    /\ i.validFrom < k.validTo /\ k.validFrom < i.validTo

\* Mutant of RegisterRange: the counter starts one before the last issued.
RegisterRangeBefore(x) ==
    /\ x \notin registered
    /\ \A y \in registered : ~Overlaps(y, x)
    /\ registered' = registered \cup {x}
    /\ counter' = [counter EXCEPT ![x] = RangeInfo[x].last - 1]
    /\ UNCHANGED <<now, number, origin, keyRow, call, pc, tx, reply>>

\* register_numbering_range: the lock on the tenant makes it one step.
RegisterRange(x) ==
    /\ x \notin registered
    /\ \A y \in registered : ~Overlaps(y, x)
    /\ registered' = registered \cup {x}
    /\ counter' = [counter EXCEPT ![x] = RangeInfo[x].last]
    /\ UNCHANGED <<now, number, origin, keyRow, call, pc, tx, reply>>

\* Time passes.
Tick ==
    /\ now < MaxTime
    /\ now' = now + 1
    /\ UNCHANGED <<tables, call, pc, tx, reply>>

InForce(x, t) == RangeInfo[x].validFrom <= t /\ t <= RangeInfo[x].validTo

\* next_number, its arithmetic: max(current_counter, from_number - 1) + 1.
NextOf(x) ==
    LET before == RangeInfo[x].from - 1
    IN  (IF counter[x] > before THEN counter[x] ELSE before) + 1

\* next_number, its checks: in force, not exhausted, and what was asked for.
NumberGranted(x, asked) ==
    /\ InForce(x, now)
    /\ NextOf(x) <= RangeInfo[x].to
    /\ asked \in {0, NextOf(x)}

-----------------------------------------------------------------------------
(* A request.                                                              *)

KeyOf(r) == call[r].key

SameBody(q, r) ==
    /\ call[q].series = call[r].series
    /\ call[q].asked = call[r].asked
    /\ call[q].content = call[r].content

\* Mutant of HoldsRange: SELECT ... FOR SHARE, upgraded by the UPDATE.
HoldsRangeShared(r, x) ==
    pc[r] \in {"lock", "insert", "key", "commit"} /\ tx[r].range = x

\* What an open transaction has written and not committed makes others wait.
HoldsRange(r, x) ==
    pc[r] \in {"insert", "key", "commit"} /\ tx[r].range = x

HasInserted(r, series, n) ==
    pc[r] \in {"key", "commit"} /\ call[r].series = series /\ tx[r].number = n

HasInsertedKey(r, k) == pc[r] = "commit" /\ KeyOf(r) = k

\* The end of a request: an answer, and the transaction, if any, is over.
Done(r, answer, document) ==
    /\ pc' = [pc EXCEPT ![r] = "done"]
    /\ tx' = [tx EXCEPT ![r] = NoTx]
    /\ reply' = [reply EXCEPT ![r] = [answer |-> answer, document |-> document]]

Goto(r, l) == pc' = [pc EXCEPT ![r] = l] /\ UNCHANGED <<tx, reply>>

\* The request arrives; without a key there is nothing to look up.
Arrive(r) ==
    /\ pc[r] = "new"
    /\ Goto(r, IF KeyOf(r) = NoKey THEN "begin" ELSE "find")
    /\ UNCHANGED <<now, tables, call>>

\* Mutant of Replay: the body is not compared.
ReplayAnyBody(r) == Done(r, "replayed", keyRow[KeyOf(r)])

\* replay: the same key must come with the same body.
Replay(r) ==
    LET q == keyRow[KeyOf(r)] IN
    IF SameBody(q, r) THEN Done(r, "replayed", q)
    ELSE Done(r, "mismatch", NoRequest)

\* find_idempotency, before the transaction or after it was discarded.
FindIdempotency(r) ==
    /\ \/ /\ pc[r] \in {"find", "refind"}
          /\ keyRow[KeyOf(r)] # NoRequest
          /\ Replay(r)
       \/ /\ pc[r] = "find"
          /\ keyRow[KeyOf(r)] = NoRequest
          /\ Goto(r, "begin")
    /\ UNCHANGED <<now, tables, call>>

\* BEGIN fixes now() for the whole transaction.
Begin(r) ==
    /\ pc[r] = "begin"
    /\ pc' = [pc EXCEPT ![r] = "select"]
    /\ tx' = [tx EXCEPT ![r] = [NoTx EXCEPT !.began = now]]
    /\ UNCHANGED <<now, tables, call, reply>>

\* The ranges that SELECT ... FOR UPDATE finds, and the one it takes: the
\* latest to come into force.
Current(r) ==
    {x \in registered :
        RangeInfo[x].series = call[r].series /\ InForce(x, tx[r].began)}

Latest(S) ==
    {x \in S : \A y \in S : RangeInfo[y].validFrom <= RangeInfo[x].validFrom}

SelectRange(r) ==
    /\ pc[r] = "select"
    /\ \/ /\ Current(r) = {}
          /\ Done(r, "invalid", NoRequest)
       \/ \E x \in Latest(Current(r)) :
             /\ pc' = [pc EXCEPT ![r] = "lock"]
             /\ tx' = [tx EXCEPT ![r].range = x]
             /\ UNCHANGED reply
    /\ UNCHANGED <<now, tables, call>>

\* The lock on the range is granted, next_number computed on the row as it is
\* now, and current_counter updated.
LockRange(r) ==
    LET x == tx[r].range IN
    /\ pc[r] = "lock"
    /\ \A q \in Request \ {r} : ~HoldsRange(q, x)
    /\ \/ /\ NumberGranted(x, call[r].asked)
          /\ pc' = [pc EXCEPT ![r] = "insert"]
          /\ tx' = [tx EXCEPT ![r].number = NextOf(x)]
          /\ UNCHANGED reply
       \/ /\ ~NumberGranted(x, call[r].asked)
          /\ Done(r, "invalid", NoRequest)
    /\ UNCHANGED <<now, tables, call>>

\* A document with the number exists: the unique index of documents.
Exists(series, n) == \E q \in Request : call[q].series = series /\ number[q] = n

\* INSERT INTO documents, and its job, which never conflicts.
InsertDocument(r) ==
    LET s == call[r].series  n == tx[r].number IN
    /\ pc[r] = "insert"
    /\ \A q \in Request : ~HasInserted(q, s, n)
    /\ \/ /\ Exists(s, n)
          /\ Done(r, "conflict", NoRequest)
       \/ /\ ~Exists(s, n)
          /\ Goto(r, IF KeyOf(r) = NoKey THEN "commit" ELSE "key")
    /\ UNCHANGED <<now, tables, call>>

\* Mutant of InsertKey: the document of another transaction is answered
\* without waiting for it to commit.
InsertKeyNoWait(r) ==
    /\ pc[r] = "key"
    /\ \/ /\ keyRow[KeyOf(r)] # NoRequest \/ \E q \in Request : HasInsertedKey(q, KeyOf(r))
          /\ Goto(r, "refind")
       \/ /\ keyRow[KeyOf(r)] = NoRequest
          /\ \A q \in Request : ~HasInsertedKey(q, KeyOf(r))
          /\ Goto(r, "commit")
    /\ UNCHANGED <<now, tables, call>>

\* INSERT INTO idempotency_keys ... ON CONFLICT DO NOTHING: it waits for a
\* transaction that has inserted the key; when that one commits, this one is
\* rolled back.
InsertKey(r) ==
    /\ pc[r] = "key"
    /\ \A q \in Request : ~HasInsertedKey(q, KeyOf(r))
    /\ \/ /\ keyRow[KeyOf(r)] # NoRequest
          /\ pc' = [pc EXCEPT ![r] = "refind"]
          /\ tx' = [tx EXCEPT ![r] = NoTx]
       \/ /\ keyRow[KeyOf(r)] = NoRequest
          /\ pc' = [pc EXCEPT ![r] = "commit"]
          /\ UNCHANGED tx
    /\ UNCHANGED <<now, tables, call, reply>>

\* COMMIT; the answer may be lost after it (internal).
Commit(r) ==
    /\ pc[r] = "commit"
    /\ counter' = [counter EXCEPT ![tx[r].range] = tx[r].number]
    /\ number' = [number EXCEPT ![r] = tx[r].number]
    /\ origin' = [origin EXCEPT ![r] = tx[r].range]
    /\ keyRow' = [k \in Key |-> IF k = KeyOf(r) THEN r ELSE keyRow[k]]
    /\ \/ Done(r, "created", r)
       \/ Done(r, "internal", NoRequest)
    /\ UNCHANGED <<now, registered, call>>

\* Mutant of Fail: the counter was written outside the transaction.
FailConsumes(r) ==
    /\ pc[r] \notin {"new", "done"}
    /\ Done(r, "internal", NoRequest)
    /\ counter' = IF pc[r] \in {"insert", "key", "commit"}
                  THEN [counter EXCEPT ![tx[r].range] = tx[r].number] ELSE counter
    /\ UNCHANGED <<now, registered, number, origin, keyRow, call>>

\* A statement fails or the server dies: the transaction is rolled back.
Fail(r) ==
    /\ pc[r] \notin {"new", "done"}
    /\ Done(r, "internal", NoRequest)
    /\ UNCHANGED <<now, tables, call>>

Step(r) ==
    \/ FindIdempotency(r) \/ Begin(r) \/ SelectRange(r) \/ LockRange(r)
    \/ InsertDocument(r) \/ InsertKey(r) \/ Commit(r)

Next ==
    \/ \E x \in Range : RegisterRange(x)
    \/ Tick
    \/ \E r \in Request : Arrive(r) \/ Step(r) \/ Fail(r)

Spec == Init /\ [][Next]_vars

-----------------------------------------------------------------------------
(* Properties.                                                             *)

FirstOf(x) ==
    LET i == RangeInfo[x] IN (IF i.last > i.from - 1 THEN i.last ELSE i.from - 1) + 1

\* The numbers of a resolution are used without gaps or repetitions, and not
\* beyond its last: its documents have exactly the numbers from the first free
\* one to current_counter, so no failed or discarded request consumed one.
Gapless ==
    \A x \in registered :
       LET used == {r \in Request : origin[r] = x}
           upTo == IF counter[x] >= FirstOf(x) THEN FirstOf(x)..counter[x] ELSE {}
       IN  /\ {number[r] : r \in used} = upTo
           /\ \A q, r \in used : number[q] = number[r] => q = r
           /\ \A n \in upTo : n <= RangeInfo[x].to

\* What a client is told is true: a document that it was given exists, and is
\* the one of its key and body; a request refused issued nothing.
RepliesAreTrue ==
    \A r \in Request :
       LET a == reply[r].answer  q == reply[r].document IN
       /\ a = "created" => number[r] # 0 /\ q = r
       /\ a = "replayed" => number[q] # 0 /\ KeyOf(q) = KeyOf(r) /\ SameBody(q, r)
       /\ a \in {"replayed", "invalid", "mismatch", "conflict"} => number[r] = 0

\* issue_outbound never ends in "idempotency key vanished": a transaction that
\* lost the key to another finds the row of the other.
KeyNeverVanishes ==
    \A r \in Request : pc[r] = "refind" => keyRow[KeyOf(r)] # NoRequest

\* The range, the number and the key are locked in an order that no cycle of
\* transactions can wait in: while a request is unanswered, one can go on.
NoWaitingCycle ==
    (\E r \in Request : pc[r] \notin {"new", "done"}) =>
        \E r \in Request : ENABLED Step(r)

\* The store of the use cases' tests, on the tables of this one.
Memory ==
    INSTANCE InMemoryIssuing WITH
        now <- now, registered <- registered, counter <- counter, number <- number,
        origin <- origin, keyRow <- keyRow, call <- call

\* Every execution is one of the in-memory store: whatever requests wait for
\* each other, time out or die between two statements, the tables change by a
\* whole issue_outbound at an instant of the clock, or by a whole resolution.
\* So an idempotency key never has two documents, and no two of a type and
\* prefix have the same number, even when a renewed resolution repeats numbers.
IssuesAtomically == Memory!Spec

\* README, section on idempotency: a retry with the same key and body gets the
\* same answer, so a number is not refused to a request whose key is already
\* bound to a document for that same body.
ReplayedNotRefused ==
    [][\A r \in Request :
          /\ reply[r].answer = "none" /\ reply'[r].answer = "invalid"
          /\ KeyOf(r) # NoKey /\ keyRow[KeyOf(r)] # NoRequest
          => ~SameBody(keyRow[KeyOf(r)], r)]_vars
=============================================================================
