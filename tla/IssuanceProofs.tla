--------------------------- MODULE IssuanceProofs ---------------------------
(***************************************************************************)
(* Theorems about Issuance, for every set of requests, calls, keys and     *)
(* numbering resolutions.                                                  *)
(***************************************************************************)
EXTENDS Issuance, WellFoundedInduction, TLAPS

-----------------------------------------------------------------------------
(* The invariant of the transactions.                                      *)

\* The transaction of a request has a range; it has that row locked; it has
\* written a document.
HasRange(r)    == pc[r] \in {"lock", "insert", "key", "commit"}
HasLock(r)     == pc[r] \in {"insert", "key", "commit"}
HasDocument(r) == pc[r] \in {"key", "commit"}

\* What the earlier statements of a request established still holds at the
\* next: none of it is undone by what other transactions commit meanwhile.
Placed(r) ==
    LET x == tx[r].range  n == tx[r].number IN
    /\ pc[r] \in {"find", "refind", "key"} => KeyOf(r) \in Key
    /\ pc[r] = "select" => tx[r].began <= now
    /\ HasRange(r) => /\ x \in registered /\ RangeInfo[x].series = call[r].series
                      /\ RangeInfo[x].validFrom <= now
    /\ HasLock(r) => n = NextOf(x) /\ n <= RangeInfo[x].to /\ call[r].asked \in {0, n}
    /\ HasDocument(r) => ~Exists(call[r].series, n)
    /\ pc[r] = "commit" /\ KeyOf(r) # NoKey => keyRow[KeyOf(r)] = NoRequest
    /\ pc[r] = "refind" => keyRow[KeyOf(r)] # NoRequest
    /\ pc[r] # "done" => number[r] = 0 /\ origin[r] = NoRange

\* What two open transactions never both hold: a range, a number, a key.
Apart(q, r) ==
    /\ HasLock(q) /\ HasLock(r) => tx[q].range # tx[r].range
    /\ HasDocument(q) /\ HasDocument(r) =>
          call[q].series # call[r].series \/ tx[q].number # tx[r].number
    /\ pc[q] = "commit" /\ pc[r] = "commit" => KeyOf(q) # KeyOf(r) \/ KeyOf(r) = NoKey

TxInv ==
    /\ \A r \in Request : Placed(r)
    /\ \A q, r \in Request : q # r => Apart(q, r)

\* A key is bound to a document that was issued with it, and what a request
\* was answered is so.
Bound(k) ==
    keyRow[k] # NoRequest => number[keyRow[k]] # 0 /\ KeyOf(keyRow[k]) = k

TrueReply(r) ==
    LET a == reply[r].answer  q == reply[r].document IN
    /\ a = "created" => number[r] # 0 /\ q = r
    /\ a = "replayed" =>
          q \in Request /\ number[q] # 0 /\ KeyOf(q) = KeyOf(r) /\ SameBody(q, r)
    /\ a \in {"replayed", "invalid", "mismatch", "conflict"} => number[r] = 0

AnswerInv ==
    /\ \A k \in Key : Bound(k)
    /\ \A r \in Request : TrueReply(r)

\* The documents of a resolution have the numbers from its first free one to
\* its counter, each number one document.
Counted(x) ==
    /\ counter[x] >= RangeInfo[x].last
    /\ counter[x] >= FirstOf(x) => counter[x] <= RangeInfo[x].to
    /\ \A r \in Request : origin[r] = x => FirstOf(x) <= number[r] /\ number[r] <= counter[x]
    /\ \A n \in FirstOf(x)..counter[x] : \E r \in Request : origin[r] = x /\ number[r] = n
    /\ \A q, r \in Request :
          origin[q] = x /\ origin[r] = x /\ number[q] = number[r] => q = r

\* Only registered resolutions have documents.
CountInv ==
    /\ \A r \in Request : origin[r] # NoRange => origin[r] \in registered
    /\ \A x \in registered : Counted(x)

-----------------------------------------------------------------------------
(* Types.                                                                  *)

TxState    == [began : Nat, range : Range \cup {NoRange}, number : Nat]
ReplyState == [answer : Answer, document : Request \cup {NoRequest}]

\* A range as register_numbering_range lets it in.
LEMMA RangeFacts ==
    ASSUME TypeOK, NEW x \in Range
    PROVE  /\ RangeInfo[x].from \in Nat \ {0} /\ RangeInfo[x].to \in Nat
           /\ RangeInfo[x].last \in Nat /\ RangeInfo[x].last <= RangeInfo[x].to
           /\ RangeInfo[x].validFrom \in Nat /\ RangeInfo[x].validTo \in Nat
           /\ RangeInfo[x].validFrom <= RangeInfo[x].validTo
           /\ counter[x] \in Nat
           /\ NextOf(x) \in Nat \ {0} /\ NextOf(x) > counter[x]
           /\ NextOf(x) >= RangeInfo[x].from
  <1>1. RangeInfo[x] \in Resolution /\ counter[x] \in Nat
    BY RangeAssumption DEF TypeOK
  <1>2. /\ RangeInfo[x].from \in Nat \ {0} /\ RangeInfo[x].to \in Nat
        /\ RangeInfo[x].last \in Nat /\ RangeInfo[x].last <= RangeInfo[x].to
        /\ RangeInfo[x].validFrom \in Nat /\ RangeInfo[x].validTo \in Nat
        /\ RangeInfo[x].validFrom <= RangeInfo[x].validTo
    BY <1>1, RangeAssumption DEF Resolution
  <1>3. QED
    BY <1>1, <1>2 DEF NextOf

\* The parts of the state of a request.
LEMMA RequestTypes ==
    ASSUME TypeOK, NEW r \in Request
    PROVE  /\ pc[r] \in Location /\ tx[r] \in TxState
           /\ reply[r] \in ReplyState
           /\ KeyOf(r) \in Key \cup {NoKey} /\ call[r].asked \in Nat
           /\ now \in Nat /\ NoTx \in TxState
           /\ KeyOf(r) \in Key => KeyOf(r) # NoKey
  <1>1. call[r] \in Calls
    BY CallAssumption DEF TypeOK
  <1>2. QED
    BY <1>1, CallAssumption DEF TypeOK, TxState, ReplyState, KeyOf, Calls, NoTx

-----------------------------------------------------------------------------
(* The statements before COMMIT.                                           *)

\* A statement of r writes nothing that others see, and leaves r in its place.
Quiet(r) ==
    /\ UNCHANGED <<now, tables, call>>
    /\ pc' \in [Request -> Location] /\ tx' \in [Request -> TxState]
    /\ reply' \in [Request -> ReplyState]
    /\ \A q \in Request \ {r} : pc'[q] = pc[q] /\ tx'[q] = tx[q] /\ reply'[q] = reply[q]

\* A request that is answered without committing leaves the tables alone.
LEMMA DoneQuiet ==
    ASSUME TypeOK, NEW r \in Request, NEW a \in Answer,
           NEW d \in Request \cup {NoRequest},
           Done(r, a, d), UNCHANGED <<now, tables, call>>
    PROVE  Quiet(r) /\ pc'[r] = "done" /\ reply'[r] = [answer |-> a, document |-> d]
  <1>1. /\ pc \in [Request -> Location] /\ tx \in [Request -> TxState]
        /\ reply \in [Request -> ReplyState] /\ NoTx \in TxState
        /\ [answer |-> a, document |-> d] \in ReplyState /\ "done" \in Location
    BY DEF TypeOK, TxState, ReplyState, NoTx, Location
  <1>2. QED
    BY <1>1 DEF Done, Quiet

\* A statement that only moves its own transaction on leaves the tables and
\* the other requests alone.
LEMMA GotoQuiet ==
    ASSUME TypeOK, NEW r \in Request, NEW l \in Location, NEW t \in TxState,
           pc' = [pc EXCEPT ![r] = l], tx' = [tx EXCEPT ![r] = t], UNCHANGED reply,
           UNCHANGED <<now, tables, call>>
    PROVE  Quiet(r) /\ pc'[r] = l /\ tx'[r] = t /\ UNCHANGED reply
  <1>1. /\ pc \in [Request -> Location] /\ tx \in [Request -> TxState]
        /\ reply \in [Request -> ReplyState]
    BY DEF TypeOK, TxState, ReplyState
  <1>2. QED
    BY <1>1 DEF Quiet

\* An answer leaves nothing of a request to keep.
LEMMA DonePlaced ==
    ASSUME NEW r \in Request, pc'[r] = "done"
    PROVE  Placed(r)' /\ \A q \in Request \ {r} : Apart(q, r)'
  BY DEF Placed, Apart, HasRange, HasLock, HasDocument

\* The invariant is kept when the request that steps keeps its parts of it.
LEMMA QuietKeeps ==
    ASSUME TypeOK, TxInv, NEW r \in Request, Quiet(r), Placed(r)',
           \A q \in Request \ {r} : Apart(q, r)'
    PROVE  TypeOK' /\ TxInv'
  <1>1. TypeOK'
    BY DEF Quiet, tables, TypeOK, TxState, ReplyState
  <1>2. ASSUME NEW q \in Request, q # r
        PROVE  Placed(q)'
    <2>1. Placed(q) /\ pc'[q] = pc[q] /\ tx'[q] = tx[q]
      BY <1>2 DEF TxInv, Quiet
    <2>2. QED
      BY <2>1 DEF Placed, Quiet, tables, HasRange, HasLock, HasDocument, KeyOf, NextOf,
                  Exists
  <1>3. ASSUME NEW p \in Request, NEW q \in Request, p # q
        PROVE  Apart(p, q)'
    <2>1. CASE p # r /\ q # r
      <3>1. Apart(p, q) /\ pc'[q] = pc[q] /\ tx'[q] = tx[q] /\ pc'[p] = pc[p] /\ tx'[p] = tx[p]
        BY <1>3, <2>1 DEF TxInv, Quiet
      <3>2. QED
        BY <3>1 DEF Apart, Quiet, HasLock, HasDocument, KeyOf
    <2>2. CASE q = r
      BY <1>3, <2>2
    <2>3. CASE p = r
      <3>1. Apart(q, r)'
        BY <1>3, <2>3
      <3>2. QED
        BY <2>3, <3>1 DEF Apart
    <2>4. QED
      BY <2>1, <2>2, <2>3
  <1>4. QED
    BY <1>1, <1>2, <1>3 DEF TxInv

\* Every statement but COMMIT is quiet.
QuietStep(r) ==
    \/ Arrive(r) \/ FindIdempotency(r) \/ Begin(r) \/ SelectRange(r) \/ LockRange(r)
    \/ InsertDocument(r) \/ InsertKey(r) \/ Fail(r)

\* Whatever a request does before its COMMIT, it leaves the tables alone, is
\* where its transaction says, apart from the others; and if it is answered,
\* it is a refusal or the replay of the document of its key.
LEMMA QuietSteps ==
    ASSUME TypeOK, TxInv, NEW r \in Request, QuietStep(r)
    PROVE  /\ Quiet(r) /\ Placed(r)' /\ \A q \in Request \ {r} : Apart(q, r)'
           /\ \/ reply'[r] = reply[r]
              \/ \E a \in {"invalid", "mismatch", "conflict", "internal"} :
                    reply'[r] = [answer |-> a, document |-> NoRequest]
              \/ /\ reply'[r] = [answer |-> "replayed", document |-> keyRow[KeyOf(r)]]
                 /\ KeyOf(r) \in Key /\ keyRow[KeyOf(r)] # NoRequest
                 /\ SameBody(keyRow[KeyOf(r)], r)
           /\ pc[r] # "done"
  <1> DEFINE Effect ==
         /\ Quiet(r) /\ Placed(r)' /\ \A q \in Request \ {r} : Apart(q, r)'
         /\ \/ reply'[r] = reply[r]
            \/ \E a \in {"invalid", "mismatch", "conflict", "internal"} :
                  reply'[r] = [answer |-> a, document |-> NoRequest]
            \/ /\ reply'[r] = [answer |-> "replayed", document |-> keyRow[KeyOf(r)]]
               /\ KeyOf(r) \in Key /\ keyRow[KeyOf(r)] # NoRequest
               /\ SameBody(keyRow[KeyOf(r)], r)
  <1> SUFFICES Effect
    BY DEF QuietStep, Arrive, FindIdempotency, Begin, SelectRange, LockRange,
           InsertDocument, InsertKey, Fail
  <1>1. /\ pc[r] \in Location /\ tx[r] \in TxState /\ NoTx \in TxState
        /\ KeyOf(r) \in Key \cup {NoKey} /\ now \in Nat
        /\ tx = [tx EXCEPT ![r] = tx[r]]
    BY RequestTypes DEF TypeOK, TxState
  <1>2. Placed(r) /\ \A q \in Request \ {r} : Apart(q, r)
    BY DEF TxInv
  \* Refused.
  <1>3. ASSUME NEW a \in {"invalid", "mismatch", "conflict", "internal"},
               Done(r, a, NoRequest), UNCHANGED <<now, tables, call>>
        PROVE  Effect
    BY <1>3, DoneQuiet, DonePlaced DEF Answer
  <1>4. CASE Arrive(r)
    <2>1. PICK l \in {"begin", "find"} :
             /\ pc' = [pc EXCEPT ![r] = l] /\ (l = "find" => KeyOf(r) # NoKey)
      BY <1>4 DEF Arrive, Goto
    <2>2. Quiet(r) /\ pc'[r] = l /\ UNCHANGED reply
      BY <1>1, <1>4, <2>1, GotoQuiet DEF Arrive, Goto, Location
    <2>3. Placed(r)'
      BY <1>1, <1>2, <1>4, <2>1, <2>2
         DEF Placed, Quiet, tables, HasRange, HasLock, HasDocument, KeyOf, Arrive
    <2>4. \A q \in Request \ {r} : Apart(q, r)'
      BY <2>2 DEF Apart, HasLock, HasDocument
    <2>5. QED
      BY <2>2, <2>3, <2>4
  <1>5. CASE FindIdempotency(r)
    <2>1. /\ KeyOf(r) \in Key /\ UNCHANGED <<now, tables, call>>
          /\ keyRow[KeyOf(r)] \in Request \cup {NoRequest}
      BY <1>2, <1>5 DEF FindIdempotency, Placed, TypeOK
    <2>2. CASE keyRow[KeyOf(r)] # NoRequest
      <3>1. Replay(r)
        BY <1>5, <2>2 DEF FindIdempotency
      <3>2. CASE SameBody(keyRow[KeyOf(r)], r)
        <4>1. Done(r, "replayed", keyRow[KeyOf(r)])
          BY <3>1, <3>2 DEF Replay
        <4>2. Quiet(r) /\ pc'[r] = "done"
              /\ reply'[r] = [answer |-> "replayed", document |-> keyRow[KeyOf(r)]]
          <5>1. "replayed" \in Answer
            BY DEF Answer
          <5>2. QED
            BY <2>1, <4>1, <5>1, DoneQuiet
        <4>3. QED
          BY <2>1, <2>2, <3>2, <4>2, DonePlaced
      <3>3. CASE ~SameBody(keyRow[KeyOf(r)], r)
        BY <1>3, <2>1, <3>1, <3>3 DEF Replay
      <3>4. QED
        BY <3>2, <3>3
    <2>3. CASE keyRow[KeyOf(r)] = NoRequest
      <3>1. pc[r] = "find" /\ pc' = [pc EXCEPT ![r] = "begin"] /\ UNCHANGED <<tx, reply>>
        BY <1>5, <2>3 DEF FindIdempotency, Goto
      <3>2. Quiet(r) /\ pc'[r] = "begin"
        BY <1>1, <2>1, <3>1, GotoQuiet DEF Location
      <3>3. Placed(r)' /\ \A q \in Request \ {r} : Apart(q, r)'
        BY <1>2, <2>1, <3>1, <3>2
           DEF Placed, Quiet, tables, HasRange, HasLock, HasDocument, Apart
      <3>4. QED
        BY <3>1, <3>2, <3>3
    <2>4. QED
      BY <2>2, <2>3
  <1>6. CASE Begin(r)
    <2>1. [NoTx EXCEPT !.began = now] \in TxState /\ [NoTx EXCEPT !.began = now].began = now
      BY <1>1 DEF TxState, NoTx
    <2>2. Quiet(r) /\ pc'[r] = "select" /\ tx'[r].began = now /\ UNCHANGED reply
      BY <1>6, <2>1, GotoQuiet DEF Begin, Location
    <2>3. Placed(r)' /\ \A q \in Request \ {r} : Apart(q, r)'
      BY <1>1, <1>2, <1>6, <2>2
         DEF Begin, Placed, Quiet, tables, HasRange, HasLock, HasDocument, Apart
    <2>4. QED
      BY <2>2, <2>3
  <1>7. CASE SelectRange(r)
    <2>1. CASE Done(r, "invalid", NoRequest)
      BY <1>3, <1>7, <2>1 DEF SelectRange
    <2>2. CASE ~Done(r, "invalid", NoRequest)
      <3>1. PICK x \in Latest(Current(r)) :
               /\ pc' = [pc EXCEPT ![r] = "lock"] /\ tx' = [tx EXCEPT ![r].range = x]
               /\ UNCHANGED reply
        BY <1>7, <2>2 DEF SelectRange
      <3>2. /\ x \in registered /\ x \in Range /\ RangeInfo[x].series = call[r].series
            /\ RangeInfo[x].validFrom <= tx[r].began
        BY <3>1 DEF Latest, Current, InForce, TypeOK
      <3>3. RangeInfo[x].validFrom <= now
        <4>1. tx[r].began <= now /\ tx[r].began \in Nat /\ RangeInfo[x].validFrom \in Nat
          BY <1>1, <1>2, <1>7, <3>2, RangeFacts DEF SelectRange, Placed, TxState
        <4>2. QED
          BY <1>1, <3>2, <4>1
      <3>4. /\ [tx[r] EXCEPT !.range = x] \in TxState
            /\ [tx[r] EXCEPT !.range = x].range = x
            /\ tx' = [tx EXCEPT ![r] = [tx[r] EXCEPT !.range = x]]
        BY <1>1, <3>1, <3>2 DEF TxState
      <3>5. Quiet(r) /\ pc'[r] = "lock" /\ tx'[r].range = x
        BY <1>7, <3>1, <3>4, GotoQuiet DEF SelectRange, Location
      <3>6. Placed(r)' /\ \A q \in Request \ {r} : Apart(q, r)'
        BY <1>2, <1>7, <3>2, <3>3, <3>5
           DEF SelectRange, Placed, Quiet, tables, HasRange, HasLock, HasDocument, Apart
      <3>7. QED
        BY <3>1, <3>5, <3>6
    <2>3. QED
      BY <2>1, <2>2
  <1>8. CASE LockRange(r)
    <2> DEFINE x == tx[r].range
    <2>1. CASE Done(r, "invalid", NoRequest)
      BY <1>3, <1>8, <2>1 DEF LockRange
    <2>2. CASE ~Done(r, "invalid", NoRequest)
      <3>1. /\ pc' = [pc EXCEPT ![r] = "insert"]
            /\ tx' = [tx EXCEPT ![r].number = NextOf(x)]
            /\ UNCHANGED reply /\ NumberGranted(x, call[r].asked)
            /\ pc[r] = "lock" /\ UNCHANGED <<now, tables, call>>
            /\ \A q \in Request \ {r} : ~HoldsRange(q, x)
        BY <1>8, <2>2 DEF LockRange
      <3>2. x \in Range /\ x \in registered
        BY <1>2, <3>1 DEF Placed, HasRange, TypeOK
      <3>3. /\ [tx[r] EXCEPT !.number = NextOf(x)] \in TxState
            /\ [tx[r] EXCEPT !.number = NextOf(x)].number = NextOf(x)
            /\ [tx[r] EXCEPT !.number = NextOf(x)].range = x
            /\ tx' = [tx EXCEPT ![r] = [tx[r] EXCEPT !.number = NextOf(x)]]
        BY <1>1, <3>1, <3>2, RangeFacts DEF TxState
      <3>4. Quiet(r) /\ pc'[r] = "insert" /\ tx'[r].number = NextOf(x) /\ tx'[r].range = x
        BY <3>1, <3>3, GotoQuiet DEF Location
      <3>5. NextOf(tx[r].range)' = NextOf(x)
        BY <3>1, <3>4 DEF NextOf, tables
      <3>6. Placed(r)'
        BY <1>2, <3>1, <3>4, <3>5
           DEF NumberGranted, Placed, Quiet, tables, HasRange, HasLock, HasDocument
      <3>7. \A q \in Request \ {r} : Apart(q, r)'
        BY <3>1, <3>4 DEF Apart, Quiet, HoldsRange, HasLock, HasDocument
      <3>8. QED
        BY <3>1, <3>4, <3>6, <3>7
    <2>3. QED
      BY <2>1, <2>2
  <1>9. CASE InsertDocument(r)
    <2>1. CASE Done(r, "conflict", NoRequest)
      BY <1>3, <1>9, <2>1 DEF InsertDocument
    <2>2. CASE ~Done(r, "conflict", NoRequest)
      <3>1. PICK l \in {"commit", "key"} :
               /\ pc' = [pc EXCEPT ![r] = l] /\ UNCHANGED <<tx, reply>>
               /\ IF KeyOf(r) = NoKey THEN l = "commit" ELSE l = "key"
        BY <1>9, <2>2 DEF InsertDocument, Goto
      <3>2. /\ pc[r] = "insert" /\ ~Exists(call[r].series, tx[r].number)
            /\ UNCHANGED <<now, tables, call>>
            /\ \A q \in Request : ~HasInserted(q, call[r].series, tx[r].number)
        BY <1>9, <2>2 DEF InsertDocument
      <3>3. Quiet(r) /\ pc'[r] = l
        BY <1>1, <3>1, <3>2, GotoQuiet DEF Location
      <3>4. Placed(r)'
        BY <1>1, <1>2, <3>1, <3>2, <3>3
           DEF Placed, tables, HasRange, HasLock, HasDocument, KeyOf, NextOf, Exists
      <3>5. \A q \in Request \ {r} : Apart(q, r)'
        BY <1>2, <3>1, <3>2, <3>3
           DEF Apart, Quiet, HasInserted, HasLock, HasDocument, KeyOf
      <3>6. QED
        BY <3>1, <3>3, <3>4, <3>5
    <2>3. QED
      BY <2>1, <2>2
  <1>10. CASE InsertKey(r)
    <2>1. /\ pc[r] = "key" /\ KeyOf(r) \in Key /\ UNCHANGED <<now, tables, call, reply>>
          /\ \A q \in Request : ~HasInsertedKey(q, KeyOf(r))
      BY <1>2, <1>10 DEF InsertKey, Placed
    <2>2. CASE keyRow[KeyOf(r)] # NoRequest
      <3>1. Quiet(r) /\ pc'[r] = "refind"
        BY <1>1, <1>10, <2>1, <2>2, GotoQuiet DEF InsertKey, Location
      <3>2. Placed(r)' /\ \A q \in Request \ {r} : Apart(q, r)'
        BY <1>2, <2>1, <2>2, <3>1
           DEF Placed, tables, HasRange, HasLock, HasDocument, KeyOf, Apart
      <3>3. QED
        BY <2>1, <3>1, <3>2
    <2>3. CASE keyRow[KeyOf(r)] = NoRequest
      <3>1. Quiet(r) /\ pc'[r] = "commit" /\ UNCHANGED tx
        BY <1>1, <1>10, <2>1, <2>3, GotoQuiet DEF InsertKey, Location
      <3>2. Placed(r)'
        BY <1>2, <2>1, <2>3, <3>1
           DEF Placed, tables, HasRange, HasLock, HasDocument, KeyOf, NextOf, Exists
      <3>3. \A q \in Request \ {r} : Apart(q, r)'
        BY <1>2, <2>1, <3>1
           DEF Apart, Quiet, HasInsertedKey, HasLock, HasDocument, KeyOf
      <3>4. QED
        BY <2>1, <3>1, <3>2, <3>3
    <2>4. QED
      BY <2>2, <2>3
  <1>11. CASE Fail(r)
    BY <1>3, <1>11 DEF Fail
  <1>12. QED
    BY <1>4, <1>5, <1>6, <1>7, <1>8, <1>9, <1>10, <1>11 DEF QuietStep

-----------------------------------------------------------------------------
(* COMMIT, and the steps of nobody's transaction.                          *)

\* What COMMIT makes visible, all at once.
LEMMA CommitEffect ==
    ASSUME TypeOK, TxInv, NEW r \in Request, Commit(r)
    PROVE  /\ TypeOK'
           /\ UNCHANGED <<now, registered, call>> /\ pc'[r] = "done"
           /\ \A q \in Request \ {r} :
                 /\ pc'[q] = pc[q] /\ tx'[q] = tx[q] /\ reply'[q] = reply[q]
                 /\ number'[q] = number[q] /\ origin'[q] = origin[q]
           /\ tx[r].range \in Range /\ tx[r].range \in registered
           /\ tx[r].number \in Nat \ {0} /\ tx[r].number = NextOf(tx[r].range)
           /\ number'[r] = tx[r].number /\ origin'[r] = tx[r].range
           /\ number[r] = 0 /\ origin[r] = NoRange
           /\ \A x \in Range : counter'[x] = IF x = tx[r].range THEN tx[r].number ELSE counter[x]
           /\ \A k \in Key : keyRow'[k] = IF k = KeyOf(r) THEN r ELSE keyRow[k]
           /\ \/ reply'[r] = [answer |-> "created", document |-> r]
              \/ reply'[r] = [answer |-> "internal", document |-> NoRequest]
  <1>1. /\ tx[r].range \in Range /\ tx[r].range \in registered
        /\ tx[r].number = NextOf(tx[r].range) /\ number[r] = 0 /\ origin[r] = NoRange
    BY DEF Commit, TxInv, Placed, HasRange, HasLock, TypeOK
  <1>2. tx[r].number \in Nat \ {0}
    BY <1>1, RangeFacts
  <1>3. PICK a \in {"created", "internal"} :
           Done(r, a, IF a = "created" THEN r ELSE NoRequest)
    BY DEF Commit
  <1>4. /\ pc' \in [Request -> Location] /\ tx' \in [Request -> TxState]
        /\ reply' \in [Request -> ReplyState]
        /\ pc'[r] = "done"
        /\ reply'[r] = [answer |-> a, document |-> IF a = "created" THEN r ELSE NoRequest]
        /\ \A q \in Request \ {r} : pc'[q] = pc[q] /\ tx'[q] = tx[q] /\ reply'[q] = reply[q]
    <2>1. /\ pc \in [Request -> Location] /\ tx \in [Request -> TxState]
          /\ reply \in [Request -> ReplyState] /\ NoTx \in TxState
          /\ [answer |-> a, document |-> IF a = "created" THEN r ELSE NoRequest] \in ReplyState
          /\ "done" \in Location
      BY DEF TypeOK, TxState, ReplyState, NoTx, Location, Answer
    <2>2. QED
      BY <1>3, <2>1 DEF Done
  <1>5. /\ counter' \in [Range -> Nat] /\ number' \in [Request -> Nat]
        /\ origin' \in [Request -> Range \cup {NoRange}]
        /\ keyRow' \in [Key -> Request \cup {NoRequest}]
        /\ number'[r] = tx[r].number /\ origin'[r] = tx[r].range
        /\ \A q \in Request \ {r} : number'[q] = number[q] /\ origin'[q] = origin[q]
        /\ \A x \in Range : counter'[x] = IF x = tx[r].range THEN tx[r].number ELSE counter[x]
        /\ \A k \in Key : keyRow'[k] = IF k = KeyOf(r) THEN r ELSE keyRow[k]
    BY <1>1, <1>2 DEF Commit, TypeOK
  <1>6. UNCHANGED <<now, registered, call>>
    BY DEF Commit
  <1>7. TypeOK'
    BY <1>4, <1>5, <1>6 DEF TypeOK, TxState, ReplyState
  <1>8. QED
    BY <1>1, <1>2, <1>4, <1>5, <1>6, <1>7

\* A COMMIT makes the row of its request visible; the other open transactions
\* hold another range, number and key, so what they have read stays true.
LEMMA CommitKeeps ==
    ASSUME TypeOK, TxInv, NEW r \in Request, Commit(r)
    PROVE  TxInv'
  <1>0. /\ UNCHANGED <<now, registered, call>>
        /\ \A q \in Request \ {r} :
              /\ pc'[q] = pc[q] /\ tx'[q] = tx[q]
              /\ number'[q] = number[q] /\ origin'[q] = origin[q]
    <2>1. UNCHANGED <<now, registered, call>>
      BY CommitEffect
    <2>2. ASSUME NEW q \in Request \ {r}
          PROVE  pc'[q] = pc[q] /\ tx'[q] = tx[q]
      BY CommitEffect, Zenon
    <2>3. ASSUME NEW q \in Request \ {r}
          PROVE  number'[q] = number[q] /\ origin'[q] = origin[q]
      BY CommitEffect
    <2>4. QED
      BY <2>1, <2>2, <2>3
  <1>1. pc[r] = "commit" /\ HasLock(r) /\ HasDocument(r)
    BY DEF Commit, HasLock, HasDocument
  <1>2. ASSUME NEW q \in Request, q # r
        PROVE  Placed(q)'
    <2>1. /\ Placed(q) /\ Apart(q, r) /\ pc'[q] = pc[q] /\ tx'[q] = tx[q]
          /\ number'[q] = number[q] /\ origin'[q] = origin[q]
          /\ UNCHANGED <<now, registered, call>>
      <3>1. Placed(q) /\ Apart(q, r)
        BY <1>2 DEF TxInv
      <3>2. QED
        BY <1>0, <1>2, <3>1
    <2>2. HasLock(q) => NextOf(tx[q].range)' = NextOf(tx[q].range)
      <3>1. HasLock(q) => tx[q].range \in Range /\ tx[q].range # tx[r].range
        BY <1>1, <2>1 DEF Apart, Placed, HasLock, HasRange, TypeOK
      <3>2. HasLock(q) => counter'[tx[q].range] = counter[tx[q].range]
        BY <3>1, CommitEffect
      <3>3. QED
        BY <2>1, <3>2 DEF NextOf
    <2>3. HasDocument(q) => ~Exists(call[q].series, tx[q].number)'
      <3>1. HasDocument(q) => ~Exists(call[q].series, tx[q].number)
        BY <2>1 DEF Placed
      <3>2. HasDocument(q) => call[q].series # call[r].series \/ tx[q].number # tx[r].number
        BY <1>1, <2>1 DEF Apart
      <3>3. /\ number'[r] = tx[r].number
            /\ \A p \in Request \ {r} : number'[p] = number[p]
        BY CommitEffect
      <3>4. QED
        BY <2>1, <3>1, <3>2, <3>3 DEF Exists
    <2>4. pc[q] = "commit" /\ KeyOf(q) # NoKey => keyRow'[KeyOf(q)] = NoRequest
      <3>1. pc[q] = "commit" /\ KeyOf(q) # NoKey => KeyOf(q) # KeyOf(r)
        BY <1>1, <2>1 DEF Apart
      <3>2. pc[q] = "commit" /\ KeyOf(q) # NoKey =>
               keyRow[KeyOf(q)] = NoRequest /\ KeyOf(q) \in Key
        BY <2>1, RequestTypes DEF Placed
      <3>3. QED
        BY <3>1, <3>2, CommitEffect
    <2>5. pc[q] = "refind" => keyRow'[KeyOf(q)] # NoRequest
      BY <2>1, CommitEffect, CallAssumption DEF Placed
    <2>6. QED
      BY <2>1, <2>2, <2>3, <2>4, <2>5
         DEF Placed, HasRange, HasLock, HasDocument, KeyOf
  <1>3. Placed(r)' /\ \A q \in Request \ {r} : Apart(q, r)'
    BY CommitEffect, DonePlaced
  <1>4. ASSUME NEW p \in Request, NEW q \in Request, p # q
        PROVE  Apart(p, q)'
    <2>1. CASE p # r /\ q # r
      <3>1. /\ Apart(p, q) /\ pc'[q] = pc[q] /\ tx'[q] = tx[q] /\ pc'[p] = pc[p]
            /\ tx'[p] = tx[p] /\ UNCHANGED call
        <4>1. Apart(p, q)
          BY <1>4 DEF TxInv
        <4>2. QED
          BY <1>0, <1>4, <2>1, <4>1
      <3>2. QED
        BY <3>1 DEF Apart, HasLock, HasDocument, KeyOf
    <2>2. CASE q = r
      BY <1>3, <1>4, <2>2
    <2>3. CASE p = r
      <3>1. Apart(q, r)'
        BY <1>3, <1>4, <2>3
      <3>2. QED
        BY <2>3, <3>1 DEF Apart
    <2>4. QED
      BY <2>1, <2>2, <2>3
  <1>5. QED
    BY <1>2, <1>3, <1>4 DEF TxInv

\* A resolution that is registered is nobody's yet.
LEMMA RegisterKeeps ==
    ASSUME TypeOK, TxInv, NEW x \in Range, RegisterRange(x)
    PROVE  /\ TypeOK' /\ TxInv' /\ registered' = registered \cup {x} /\ x \notin registered
           /\ counter'[x] = RangeInfo[x].last
           /\ \A y \in Range \ {x} : counter'[y] = counter[y]
           /\ UNCHANGED <<now, number, origin, keyRow, call, pc, tx, reply>>
  <1>1. /\ registered' = registered \cup {x} /\ x \notin registered
        /\ counter' \in [Range -> Nat] /\ counter'[x] = RangeInfo[x].last
        /\ \A y \in Range \ {x} : counter'[y] = counter[y]
        /\ UNCHANGED <<now, number, origin, keyRow, call, pc, tx, reply>>
    BY RangeFacts DEF RegisterRange, TypeOK
  <1>2. TypeOK'
    BY <1>1 DEF TypeOK
  <1>3. ASSUME NEW r \in Request
        PROVE  Placed(r)'
    <2>1. Placed(r)
      BY DEF TxInv
    <2>2. HasRange(r) => NextOf(tx[r].range)' = NextOf(tx[r].range)
      <3>1. HasRange(r) => tx[r].range \in Range /\ tx[r].range # x
        BY <1>1, <2>1 DEF Placed, TypeOK
      <3>2. QED
        BY <1>1, <3>1 DEF NextOf
    <2>3. QED
      BY <1>1, <2>1, <2>2 DEF Placed, HasRange, HasLock, HasDocument, KeyOf, Exists
  <1>4. TxInv'
    BY <1>1, <1>3 DEF TxInv, Apart, HasLock, HasDocument, KeyOf
  <1>5. QED
    BY <1>1, <1>2, <1>4

\* Time only moves forward, and nothing that was valid from an earlier date
\* ceases to be.
LEMMA TickKeeps ==
    ASSUME TypeOK, TxInv, Tick \/ UNCHANGED vars
    PROVE  TypeOK' /\ TxInv' /\ UNCHANGED <<tables, call, pc, tx, reply>>
  <1>1. UNCHANGED <<tables, call, pc, tx, reply>> /\ now' \in 0..MaxTime /\ now <= now'
    BY CallAssumption DEF Tick, vars, TypeOK
  <1>2. TypeOK'
    BY <1>1 DEF TypeOK, tables
  <1>3. ASSUME NEW r \in Request
        PROVE  Placed(r)'
    <2>1. Placed(r) /\ now \in Nat /\ now' \in Nat /\ tx[r] \in TxState
      BY <1>1, RequestTypes, CallAssumption DEF TxInv
    <2>2. pc[r] = "select" => tx[r].began <= now'
      BY <1>1, <2>1 DEF Placed, TxState
    <2>3. HasRange(r) => RangeInfo[tx[r].range].validFrom <= now'
      <3>1. HasRange(r) => tx[r].range \in Range
        BY <2>1 DEF Placed, TypeOK
      <3>2. HasRange(r) => RangeInfo[tx[r].range].validFrom \in Nat
        BY <3>1, RangeFacts
      <3>3. QED
        BY <1>1, <2>1, <3>2 DEF Placed
    <2>4. QED
      BY <1>1, <2>1, <2>2, <2>3
         DEF Placed, tables, HasRange, HasLock, HasDocument, KeyOf, NextOf, Exists
  <1>4. TxInv'
    BY <1>1, <1>3 DEF TxInv, Apart, HasLock, HasDocument, KeyOf
  <1>5. QED
    BY <1>1, <1>2, <1>4

\* The steps of the specification, as the lemmas above have them.
LEMMA NextCases ==
    ASSUME [Next]_vars
    PROVE  \/ \E x \in Range : RegisterRange(x)
           \/ Tick \/ UNCHANGED vars
           \/ \E r \in Request : QuietStep(r) \/ Commit(r)
  BY DEF Next, Step, QuietStep

\* Every step keeps the invariant of the transactions.
LEMMA NextTx ==
    ASSUME TypeOK, TxInv, [Next]_vars
    PROVE  TypeOK' /\ TxInv'
  <1>1. ASSUME NEW r \in Request, QuietStep(r)
        PROVE  TypeOK' /\ TxInv'
    BY <1>1, QuietSteps, QuietKeeps
  <1>2. QED
    BY <1>1, NextCases, CommitEffect, CommitKeeps, RegisterKeeps, TickKeeps

\* The invariant of the transactions holds in every reachable state.
LEMMA TxInvariant == Spec => [](TypeOK /\ TxInv)
  <1>1. Init => TypeOK /\ TxInv
    <2> SUFFICES ASSUME Init
                 PROVE  TypeOK /\ TxInv
      OBVIOUS
    <2>1. TypeOK
      BY CallAssumption DEF Init, TypeOK, NoTx, NoReply, Location, Answer
    <2>2. TxInv
      BY DEF Init, TxInv, Placed, Apart, HasRange, HasLock, HasDocument
    <2>3. QED
      BY <2>1, <2>2
  <1>2. TypeOK /\ TxInv /\ [Next]_vars => (TypeOK /\ TxInv)'
    BY NextTx
  <1>3. QED
    BY <1>1, <1>2, PTL DEF Spec

\* Every variable keeps its type: above all, current_counter and the numbers
\* of documents are numbers that a resolution may have.
THEOREM IssuanceTypeCorrect == Spec => []TypeOK
  <1>1. QED
    BY TxInvariant, PTL

\* A transaction that lost its key to another always finds the row of the
\* other: issue_outbound never ends in "idempotency key vanished".
THEOREM KeyNeverVanishesHolds == Spec => []KeyNeverVanishes
  <1>1. TxInv => KeyNeverVanishes
    BY DEF TxInv, Placed, KeyNeverVanishes
  <1>2. QED
    BY <1>1, TxInvariant, PTL

-----------------------------------------------------------------------------
(* The in-memory store.                                                    *)

\* A range is the latest to come into force at the instant it does so, so the
\* range that a transaction chose before another was registered is still one
\* that issue_outbound of the in-memory store could choose.
LEMMA CommitInMemory ==
    ASSUME TypeOK, TxInv, NEW r \in Request, Commit(r)
    PROVE  \E t \in 0..now : Memory!IssueOutbound(r, t)
  <1> DEFINE x == tx[r].range
             t == RangeInfo[x].validFrom
  <1>1. /\ x \in Range /\ x \in registered /\ t \in Nat /\ t <= now /\ now \in Nat
        /\ RangeInfo[x].series = call[r].series /\ t <= RangeInfo[x].validTo
        /\ tx[r].number = NextOf(x) /\ tx[r].number <= RangeInfo[x].to
        /\ call[r].asked \in {0, tx[r].number}
        /\ ~Exists(call[r].series, tx[r].number) /\ number[r] = 0
        /\ KeyOf(r) # NoKey => keyRow[KeyOf(r)] = NoRequest
    <2>1. Placed(r) /\ pc[r] = "commit"
      BY DEF TxInv, Commit
    <2>2. x \in Range
      BY <2>1 DEF Placed, HasRange, TypeOK
    <2>3. QED
      BY <2>1, <2>2, RangeFacts, RequestTypes DEF Placed, HasRange, HasLock, HasDocument
  <1>2. x \in Memory!InForce(r, t)
    BY <1>1 DEF Memory!InForce
  <1>3. \A y \in Memory!InForce(r, t) : RangeInfo[y].validFrom <= t
    BY DEF Memory!InForce
  <1>4. Memory!NextNumber(x) = tx[r].number
    <2>1. RangeInfo[x].from \in Nat /\ counter[x] \in Nat
      BY <1>1, RangeFacts
    <2>2. QED
      BY <1>1, <2>1 DEF Memory!NextNumber, NextOf
  <1>5. Memory!Created(r, x)
    <2>1. \A q \in Request : number[q] = tx[r].number => call[q].series # call[r].series
      BY <1>1 DEF Exists
    <2>2. /\ counter' = [counter EXCEPT ![x] = tx[r].number]
          /\ number' = [number EXCEPT ![r] = tx[r].number]
          /\ origin' = [origin EXCEPT ![r] = x]
          /\ keyRow' = [k \in Key |-> IF k = KeyOf(r) THEN r ELSE keyRow[k]]
          /\ UNCHANGED registered
      BY DEF Commit
    <2>3. QED
      BY <1>1, <1>4, <2>1, <2>2 DEF Memory!Created, KeyOf
  <1>6. t \in 0..now
    BY <1>1
  <1>7. QED
    BY <1>2, <1>3, <1>5, <1>6 DEF Memory!IssueOutbound

\* Every execution is one of InMemoryStore: whatever requests wait for each
\* other, fail or die between two statements of issue_outbound, the tables
\* change by a whole one, at an instant of the clock, or by a whole
\* resolution.  So no key has two documents, and no number has two.
THEOREM IssuesAtomicallyHolds == Spec => IssuesAtomically
  <1>1. Init => Memory!Init
    BY DEF Init, Memory!Init
  <1>2. ASSUME TypeOK, TxInv, [Next]_vars
        PROVE  [Memory!Next]_(Memory!store)
    <2>1. ASSUME NEW x \in Range, RegisterRange(x)
          PROVE  Memory!Next
      <3>1. \A y \in registered :
               \/ RangeInfo[y].series # RangeInfo[x].series
               \/ RangeInfo[y].validFrom >= RangeInfo[x].validTo
               \/ RangeInfo[x].validFrom >= RangeInfo[y].validTo
        <4>1. \A y \in registered : ~Overlaps(y, x) /\ y \in Range
          BY <1>2, <2>1 DEF RegisterRange, TypeOK
        <4>2. QED
          BY <1>2, <4>1, RangeFacts DEF Overlaps
      <3>2. Memory!AddNumberingRange(x)
        BY <2>1, <3>1 DEF RegisterRange, Memory!AddNumberingRange
      <3>3. QED
        BY <3>2 DEF Memory!Next
    <2>2. CASE Tick \/ UNCHANGED vars
      BY <1>2, <2>2, TickKeeps DEF Memory!store, tables
    <2>3. ASSUME NEW r \in Request, QuietStep(r)
          PROVE  UNCHANGED Memory!store
      BY <1>2, <2>3, QuietSteps DEF Quiet, tables, Memory!store
    <2>4. ASSUME NEW r \in Request, Commit(r)
          PROVE  Memory!Next
      BY <1>2, <2>4, CommitInMemory DEF Memory!Next
    <2>5. QED
      BY <1>2, <2>1, <2>2, <2>3, <2>4, NextCases
  <1>3. QED
    BY <1>1, <1>2, TxInvariant, PTL DEF Spec, IssuesAtomically, Memory!Spec

-----------------------------------------------------------------------------
(* What clients are told.                                                  *)

\* An answer stays true while the documents that exist keep their numbers.
LEMMA StaysTrue ==
    ASSUME AnswerInv, UNCHANGED call, NEW r \in Request,
           reply'[r] = reply[r], number'[r] = number[r],
           \A q \in Request : number[q] # 0 => number'[q] # 0
    PROVE  TrueReply(r)'
  <1>1. TrueReply(r)
    BY DEF AnswerInv
  <1>2. QED
    BY <1>1 DEF TrueReply, KeyOf, SameBody

\* A statement before COMMIT binds no key, and answers with the document of
\* another request only when its key is bound to it.
LEMMA QuietAnswer ==
    ASSUME TypeOK, TxInv, AnswerInv, NEW r \in Request, QuietStep(r)
    PROVE  AnswerInv'
  <1>1. UNCHANGED <<tables, call>> /\ \A q \in Request \ {r} : reply'[q] = reply[q]
    BY QuietSteps DEF Quiet
  <1>2. number[r] = 0
    BY QuietSteps DEF TxInv, Placed
  <1>3. \A k \in Key : Bound(k)'
    BY <1>1 DEF AnswerInv, Bound, tables, KeyOf
  <1>4. \A q \in Request \ {r} : TrueReply(q)'
    BY <1>1, StaysTrue DEF tables
  <1>5. TrueReply(r)'
    <2>1. CASE reply'[r] = reply[r]
      BY <1>1, <2>1, StaysTrue DEF tables
    <2>2. ASSUME NEW a \in {"invalid", "mismatch", "conflict", "internal"},
                 reply'[r] = [answer |-> a, document |-> NoRequest]
          PROVE  TrueReply(r)'
      BY <1>1, <1>2, <2>2 DEF TrueReply, tables
    <2>3. CASE /\ reply'[r] = [answer |-> "replayed", document |-> keyRow[KeyOf(r)]]
               /\ KeyOf(r) \in Key /\ keyRow[KeyOf(r)] # NoRequest
               /\ SameBody(keyRow[KeyOf(r)], r)
      <3>1. keyRow[KeyOf(r)] \in Request /\ Bound(KeyOf(r))
        BY <2>3 DEF TypeOK, AnswerInv
      <3>2. QED
        BY <1>1, <1>2, <2>3, <3>1 DEF TrueReply, Bound, tables, KeyOf, SameBody
    <2>4. QED
      BY <2>1, <2>2, <2>3, QuietSteps
  <1>6. QED
    BY <1>3, <1>4, <1>5 DEF AnswerInv

\* COMMIT binds the key to a document that it makes exist.
LEMMA CommitAnswer ==
    ASSUME TypeOK, TxInv, AnswerInv, NEW r \in Request, Commit(r)
    PROVE  AnswerInv'
  <1>1. UNCHANGED call /\ number[r] = 0 /\ number'[r] # 0
    <2>1. UNCHANGED call /\ number[r] = 0
      BY CommitEffect
    <2>2. number'[r] = tx[r].number /\ tx[r].number # 0
      BY CommitEffect
    <2>3. QED
      BY <2>1, <2>2
  <1>2. \A q \in Request \ {r} : reply'[q] = reply[q] /\ number'[q] = number[q]
    <2>1. \A q \in Request \ {r} : reply'[q] = reply[q]
      BY CommitEffect
    <2>2. \A q \in Request \ {r} : number'[q] = number[q]
      BY CommitEffect
    <2>3. QED
      BY <2>1, <2>2
  <1>3. \A k \in Key : keyRow'[k] = IF k = KeyOf(r) THEN r ELSE keyRow[k]
    BY CommitEffect
  <1>4. \/ reply'[r] = [answer |-> "created", document |-> r]
        \/ reply'[r] = [answer |-> "internal", document |-> NoRequest]
    BY CommitEffect
  <1>5. ASSUME NEW k \in Key
        PROVE  Bound(k)'
    <2>1. keyRow[k] \in Request \cup {NoRequest} /\ Bound(k)
      BY DEF TypeOK, AnswerInv
    <2>2. CASE k = KeyOf(r)
      BY <1>1, <1>3, <2>2 DEF Bound, KeyOf
    <2>3. CASE k # KeyOf(r)
      BY <1>1, <1>2, <1>3, <2>1, <2>3 DEF Bound, KeyOf
    <2>4. QED
      BY <2>2, <2>3
  <1>6. \A q \in Request \ {r} : TrueReply(q)'
    BY <1>1, <1>2, StaysTrue
  <1>7. TrueReply(r)'
    BY <1>1, <1>4 DEF TrueReply
  <1>8. QED
    BY <1>5, <1>6, <1>7 DEF AnswerInv

\* Keys are bound to issued documents, and replies are true, in every
\* reachable state.
LEMMA AnswerInvariant == Spec => []AnswerInv
  <1>1. Init => AnswerInv
    BY DEF Init, AnswerInv, Bound, TrueReply, NoReply
  <1>2. TypeOK /\ TxInv /\ AnswerInv /\ [Next]_vars => AnswerInv'
    <2> SUFFICES ASSUME TypeOK, TxInv, AnswerInv, [Next]_vars
                 PROVE  AnswerInv'
      OBVIOUS
    <2>1. CASE UNCHANGED <<number, keyRow, call, reply>>
      <3>1. \A r \in Request : TrueReply(r)'
        BY <2>1, StaysTrue
      <3>2. QED
        BY <2>1, <3>1 DEF AnswerInv, Bound, KeyOf
    <2>2. ASSUME NEW x \in Range, RegisterRange(x)
          PROVE  AnswerInv'
      BY <2>1, <2>2 DEF RegisterRange
    <2>3. CASE Tick \/ UNCHANGED vars
      BY <2>1, <2>3 DEF Tick, vars, tables
    <2>4. QED
      BY <2>2, <2>3, NextCases, QuietAnswer, CommitAnswer
  <1>3. QED
    BY <1>1, <1>2, TxInvariant, PTL DEF Spec

\* What a client is told is true, however its request and others with the
\* same key interleave: a document that it was given exists, with its key and
\* body, and a request that was refused issued nothing.
THEOREM RepliesAreTrueHolds == Spec => []RepliesAreTrue
  <1>1. AnswerInv => RepliesAreTrue
    BY DEF AnswerInv, TrueReply, RepliesAreTrue
  <1>2. QED
    BY <1>1, AnswerInvariant, PTL

-----------------------------------------------------------------------------
(* Numbers without gaps.                                                   *)

\* max(current_counter, from_number - 1) + 1 is the number after the last
\* document, or the first free one when there is none.
LEMMA NextIsNext ==
    ASSUME TypeOK, NEW x \in Range, counter[x] >= RangeInfo[x].last
    PROVE  /\ FirstOf(x) \in Nat
           /\ counter[x] >= FirstOf(x) => NextOf(x) = counter[x] + 1
           /\ counter[x] < FirstOf(x) => NextOf(x) = FirstOf(x)
  BY RangeFacts DEF FirstOf, NextOf

\* What is said of a resolution depends on its counter and its documents.
LEMMA StaysCounted ==
    ASSUME NEW x, Counted(x), counter'[x] = counter[x],
           \A r \in Request : /\ origin'[r] = x <=> origin[r] = x
                              /\ origin[r] = x => number'[r] = number[r]
    PROVE  Counted(x)'
  BY DEF Counted, FirstOf

\* A resolution starts without documents, below its first free number.
LEMMA RegisterCounts ==
    ASSUME TypeOK, TxInv, CountInv, NEW x \in Range, RegisterRange(x)
    PROVE  CountInv'
  <1>1. /\ registered' = registered \cup {x} /\ x \notin registered
        /\ counter'[x] = RangeInfo[x].last /\ UNCHANGED <<number, origin>>
        /\ \A y \in Range \ {x} : counter'[y] = counter[y]
    BY RegisterKeeps
  <1>2. \A r \in Request : origin[r] # x
    BY <1>1, RangeAssumption DEF CountInv
  <1>3. ASSUME NEW y \in registered
        PROVE  Counted(y)'
    <2>1. y \in Range /\ y # x /\ Counted(y)
      BY <1>1 DEF TypeOK, CountInv
    <2>2. QED
      BY <1>1, <2>1, StaysCounted
  <1>4. Counted(x)'
    <2>1. /\ RangeInfo[x].last \in Nat /\ FirstOf(x) \in Nat
          /\ RangeInfo[x].last < FirstOf(x)
      BY RangeFacts DEF FirstOf
    <2>2. FirstOf(x)' = FirstOf(x)
      BY DEF FirstOf
    <2>3. QED
      BY <1>1, <1>2, <2>1, <2>2 DEF Counted
  <1>5. QED
    BY <1>1, <1>3, <1>4 DEF CountInv

\* COMMIT gives the next number of a resolution to one document, and moves
\* the counter there.
LEMMA CommitCounts ==
    ASSUME TypeOK, TxInv, CountInv, NEW r \in Request, Commit(r)
    PROVE  CountInv'
  <1>0. PICK x \in Range, n \in Nat : x = tx[r].range /\ n = tx[r].number
    BY CommitEffect
  <1>1. x \in registered /\ n = NextOf(x) /\ origin[r] = NoRange
    BY <1>0, CommitEffect
  <1>2. number'[r] = n /\ origin'[r] = x /\ UNCHANGED registered
    BY <1>0, CommitEffect
  <1>3. \A q \in Request \ {r} : number'[q] = number[q] /\ origin'[q] = origin[q]
    BY CommitEffect
  <1>4. \A y \in Range : counter'[y] = IF y = x THEN n ELSE counter[y]
    <2>1. \A y \in Range :
             counter'[y] = IF y = tx[r].range THEN tx[r].number ELSE counter[y]
      BY CommitEffect
    <2>2. QED
      BY <1>0, <2>1
  <1>5. n <= RangeInfo[x].to
    <2>1. Placed(r) /\ HasLock(r)
      BY DEF TxInv, Commit, HasLock
    <2>2. QED
      BY <1>0, <2>1 DEF Placed
  <1>6. x # NoRange
    BY <1>1, RangeAssumption
  <1>7. ASSUME NEW y \in registered, y # x
        PROVE  Counted(y)'
    <2>1. y \in Range /\ y # NoRange /\ Counted(y)
      BY RangeAssumption DEF TypeOK, CountInv
    <2>2. counter'[y] = counter[y]
      BY <1>4, <1>7, <2>1
    <2>3. \A q \in Request : /\ origin'[q] = y <=> origin[q] = y
                             /\ origin[q] = y => number'[q] = number[q]
      BY <1>1, <1>2, <1>3, <1>7, <2>1
    <2>4. QED
      BY <2>1, <2>2, <2>3, StaysCounted
  <1>8. Counted(x)'
    <2>1. Counted(x)
      BY <1>1 DEF CountInv
    <2>2. /\ FirstOf(x) \in Nat /\ counter[x] \in Nat /\ n \in Nat /\ n > counter[x]
          /\ RangeInfo[x].last \in Nat /\ counter[x] >= RangeInfo[x].last
          /\ counter[x] >= FirstOf(x) => n = counter[x] + 1
          /\ counter[x] < FirstOf(x) => n = FirstOf(x)
      <3>1. counter[x] >= RangeInfo[x].last
        BY <2>1 DEF Counted
      <3>2. QED
        BY <1>1, <3>1, RangeFacts, NextIsNext
    <2>3. counter'[x] = n
      BY <1>1, <1>4
    <2>4. \A q \in Request \ {r} :
             /\ origin'[q] = x <=> origin[q] = x
             /\ origin[q] = x => /\ number'[q] = number[q] /\ number[q] \in Nat
                                 /\ FirstOf(x) <= number[q] /\ number[q] <= counter[x]
      BY <1>3, <2>1 DEF Counted, TypeOK
    <2>5. \A q \in Request : origin'[q] = x => FirstOf(x) <= number'[q] /\ number'[q] <= n
      BY <1>2, <2>2, <2>4
    <2>6. ASSUME NEW m \in FirstOf(x)..n
          PROVE  \E q \in Request : origin'[q] = x /\ number'[q] = m
      <3>1. CASE m = n
        BY <1>2, <3>1
      <3>2. CASE m # n
        <4>1. m \in FirstOf(x)..counter[x]
          BY <2>2, <2>6, <3>2
        <4>2. PICK q \in Request : origin[q] = x /\ number[q] = m
          BY <2>1, <4>1 DEF Counted
        <4>3. q # r
          BY <1>1, <1>6, <4>2
        <4>4. QED
          BY <1>3, <4>2, <4>3
      <3>3. QED
        BY <3>1, <3>2
    <2>7. ASSUME NEW p \in Request, NEW q \in Request,
                 origin'[p] = x, origin'[q] = x, number'[p] = number'[q]
          PROVE  p = q
      <3>1. CASE p # r /\ q # r
        BY <1>3, <2>1, <2>7, <3>1 DEF Counted
      <3>2. CASE p = r \/ q = r
        BY <1>2, <2>2, <2>4, <2>7, <3>2
      <3>3. QED
        BY <3>1, <3>2
    <2>8. FirstOf(x)' = FirstOf(x)
      BY DEF FirstOf
    <2>9. QED
      BY <1>5, <2>2, <2>3, <2>5, <2>6, <2>7, <2>8 DEF Counted
  <1>9. \A q \in Request : origin'[q] # NoRange => origin'[q] \in registered'
    BY <1>1, <1>2, <1>3 DEF CountInv
  <1>10. QED
    BY <1>2, <1>7, <1>8, <1>9 DEF CountInv

\* Every counter is the last number of its range that was issued, in every
\* reachable state.
LEMMA CountInvariant == Spec => []CountInv
  <1>1. Init => CountInv
    BY DEF Init, CountInv
  <1>2. TypeOK /\ TxInv /\ CountInv /\ [Next]_vars => CountInv'
    <2> SUFFICES ASSUME TypeOK, TxInv, CountInv, [Next]_vars
                 PROVE  CountInv'
      OBVIOUS
    <2>1. CASE UNCHANGED tables
      <3>1. \A x \in registered : Counted(x)'
        BY <2>1, StaysCounted DEF tables, CountInv
      <3>2. QED
        BY <2>1, <3>1 DEF tables, CountInv
    <2>2. ASSUME NEW r \in Request, QuietStep(r)
          PROVE  CountInv'
      BY <2>1, <2>2, QuietSteps DEF Quiet
    <2>3. CASE Tick \/ UNCHANGED vars
      BY <2>1, <2>3 DEF Tick, vars
    <2>4. QED
      BY <2>2, <2>3, NextCases, RegisterCounts, CommitCounts
  <1>3. QED
    BY <1>1, <1>2, TxInvariant, PTL DEF Spec

\* The numbers of a resolution are used without gaps or repetitions and not
\* beyond its last, whatever transactions fail, die or are rolled back after
\* next_number: the counter moves only with the document that took it.
THEOREM GaplessHolds == Spec => []Gapless
  <1>1. TypeOK /\ CountInv => Gapless
    <2> SUFFICES ASSUME TypeOK, CountInv, NEW x \in registered
                 PROVE  LET used == {r \in Request : origin[r] = x}
                            upTo == IF counter[x] >= FirstOf(x)
                                    THEN FirstOf(x)..counter[x] ELSE {}
                        IN  /\ {number[r] : r \in used} = upTo
                            /\ \A q, r \in used : number[q] = number[r] => q = r
                            /\ \A n \in upTo : n <= RangeInfo[x].to
      BY DEF Gapless
    <2>1. Counted(x) /\ x \in Range
      BY DEF CountInv, TypeOK
    <2>2. /\ counter[x] \in Nat /\ FirstOf(x) \in Nat /\ RangeInfo[x].to \in Nat
          /\ \A r \in Request : number[r] \in Nat
      BY <2>1, RangeFacts, NextIsNext DEF Counted, TypeOK
    <2>3. QED
      BY <2>1, <2>2 DEF Counted
  <1>2. QED
    BY <1>1, TxInvariant, CountInvariant, PTL

-----------------------------------------------------------------------------
(* Waiting.                                                                *)

\* What the next statement of a request asks of the others and of the tables:
\* the guards of Step(r), written out.
Proceeds(r) ==
    \/ pc[r] \in {"find", "begin", "commit"}
    \/ pc[r] = "refind" /\ keyRow[KeyOf(r)] # NoRequest
    \/ pc[r] = "select" /\ (Current(r) = {} \/ Latest(Current(r)) # {})
    \/ pc[r] = "lock" /\ \A q \in Request \ {r} : ~HoldsRange(q, tx[r].range)
    \/ pc[r] = "insert" /\ \A q \in Request : ~HasInserted(q, call[r].series, tx[r].number)
    \/ pc[r] = "key" /\ \A q \in Request : ~HasInsertedKey(q, KeyOf(r))

Unanswered(r) == pc[r] \notin {"new", "done"}

\* Every set of resolutions in force has a latest one: they came into force at
\* instants that are behind.
LEMMA LatestExists ==
    ASSUME TypeOK, NEW r \in Request, Current(r) # {}
    PROVE  Latest(Current(r)) # {}
  <1> DEFINE from(x) == RangeInfo[x].validFrom
             T == {tx[r].began - from(x) : x \in Current(r)}
             R == {ss \in Nat \X Nat : ss[1] < ss[2]}
  <1>1. tx[r].began \in Nat
    BY DEF TypeOK
  <1>2. \A x \in Current(r) : from(x) \in Nat /\ from(x) <= tx[r].began
    BY RangeFacts DEF Current, InForce, TypeOK
  <1>3. T \subseteq Nat /\ T # {}
    BY <1>1, <1>2
  <1>4. IsWellFoundedOn(R, Nat)
    BY NatLessThanWellFounded, Zenon DEF OpToRel
  <1>5. PICK n \in T : \A m \in T : ~(<<m, n>> \in R)
    <2> HIDE DEF T, R
    <2>1. QED
      BY <1>3, <1>4, WFMin
  <1>6. \A m \in T : ~(m < n)
    BY <1>3, <1>5
  <1>7. PICK x \in Current(r) : n = tx[r].began - from(x)
    BY <1>5
  <1>8. \A y \in Current(r) : from(y) <= from(x)
    BY <1>1, <1>2, <1>6, <1>7
  <1>9. QED
    BY <1>7, <1>8 DEF Latest

\* issue_outbound locks the range, then the number, then the key, so whoever
\* waits does so for a request that is further on; and of those furthest on
\* one has its next statement granted.  However many requests wait for each
\* other, they are never all stuck.
THEOREM SomeoneProceeds ==
    Spec => []((\E r \in Request : Unanswered(r)) => \E r \in Request : Proceeds(r))
  <1>1. TypeOK /\ TxInv /\ (\E r \in Request : Unanswered(r)) => \E r \in Request : Proceeds(r)
    <2> SUFFICES ASSUME TypeOK, TxInv, NEW r \in Request, Unanswered(r)
                 PROVE  \E q \in Request : Proceeds(q)
      OBVIOUS
    <2>1. CASE \E q \in Request : pc[q] = "commit"
      BY <2>1 DEF Proceeds
    <2>2. CASE ~\E q \in Request : pc[q] = "commit"
      <3>1. \A q \in Request : pc[q] = "key" => Proceeds(q)
        BY <2>2 DEF Proceeds, HasInsertedKey
      <3>2. CASE ~\E q \in Request : pc[q] = "key"
        <4>1. \A q \in Request : pc[q] = "insert" => Proceeds(q)
          BY <2>2, <3>2 DEF Proceeds, HasInserted
        <4>2. CASE ~\E q \in Request : pc[q] = "insert"
          <5>1. pc[r] = "lock" => Proceeds(r)
            BY <2>2, <3>2, <4>2 DEF Proceeds, HoldsRange
          <5>2. pc[r] = "select" => Proceeds(r)
            BY LatestExists DEF Proceeds
          <5>3. pc[r] = "refind" => Proceeds(r)
            BY DEF Proceeds, TxInv, Placed
          <5>4. pc[r] \in {"find", "refind", "begin", "select", "lock"}
            BY <2>2, <3>2, <4>2 DEF Unanswered, TypeOK, Location
          <5>5. QED
            BY <5>1, <5>2, <5>3, <5>4 DEF Proceeds
        <4>3. QED
          BY <4>1, <4>2
      <3>3. QED
        BY <3>1, <3>2
    <2>3. QED
      BY <2>1, <2>2
  <1>2. QED
    BY <1>1, TxInvariant, PTL
=============================================================================
