-------------------------- MODULE DocumentsProofs --------------------------
(***************************************************************************)
(* Proofs about the documents and their texts: what the one-pass readers   *)
(* of XML find is what its tree has (ReadsTheTree), the amounts of a       *)
(* document agree to the cent (AmountsAddUp), and its number and code tell *)
(* it from the others (NumbersIdentify).                                   *)
(***************************************************************************)
EXTENDS Documents, XmlScan, FiniteSetTheorems, SequenceTheorems, WellFoundedInduction, TLAPS

-----------------------------------------------------------------------------
(* Depths.                                                                 *)

\* What an event adds to the depth.
Change(t) == IF t.kind = "start" THEN 1 ELSE IF t.kind = "end" THEN -1 ELSE 0

\* A set of positions is finite.
LEMMA Positions ==
    ASSUME NEW n \in Nat, NEW S, S \subseteq 1..n
    PROVE  IsFiniteSet(S) /\ Cardinality(S) \in Nat
  <1>1. IsFiniteSet(1..n)
    BY FS_Interval
  <1>2. QED
    BY <1>1, FS_Subset, FS_CardinalityType

\* One more position, counted or not.
LEMMA OneMore ==
    ASSUME NEW n \in Nat, NEW S, S \subseteq 1..n, NEW T, NEW b \in BOOLEAN,
           T = IF b THEN S \cup {n + 1} ELSE S
    PROVE  Cardinality(T) = Cardinality(S) + (IF b THEN 1 ELSE 0)
  <1>1. IsFiniteSet(S) /\ Cardinality(S) \in Nat
    BY Positions
  <1>2. n + 1 \notin S
    OBVIOUS
  <1>3. CASE b
    BY <1>1, <1>2, <1>3, FS_AddElement
  <1>4. CASE ~b
    BY <1>1, <1>4
  <1>5. QED
    BY <1>3, <1>4

\* A depth is a difference of two counts.
LEMMA DepthIsInt ==
    ASSUME NEW s \in Seq(Token), NEW i \in 1..Len(s)+1
    PROVE  Depth(s, i) \in Int
  <1>1. i - 1 \in Nat
    OBVIOUS
  <1>2. /\ {k \in 1..i-1 : s[k].kind = "start"} \subseteq 1..i-1
        /\ {k \in 1..i-1 : s[k].kind = "end"} \subseteq 1..i-1
    OBVIOUS
  <1>3. QED
    BY <1>1, <1>2, Positions DEF Depth

\* The depths of the events that were read stay, and the next one is known.
LEMMA DepthAppend ==
    ASSUME NEW s \in Seq(Token), NEW t \in Token
    PROVE  /\ \A i \in 1..Len(s)+1 : Depth(Append(s, t), i) = Depth(s, i)
           /\ Depth(Append(s, t), Len(s) + 2) = Depth(s, Len(s) + 1) + Change(t)
  <1> DEFINE u == Append(s, t)
             n == Len(s)
             At(v, i, kind) == {k \in 1..i-1 : v[k].kind = kind}
  <1>1. n \in Nat /\ Len(u) = n + 1 /\ u[n + 1] = t /\ \A k \in 1..n : u[k] = s[k]
    OBVIOUS
  <1>2. ASSUME NEW i \in 1..n+1
        PROVE  Depth(u, i) = Depth(s, i)
    <2>1. At(u, i, "start") = At(s, i, "start") /\ At(u, i, "end") = At(s, i, "end")
      BY <1>1
    <2>2. QED
      BY <2>1 DEF Depth
  <1>3. ASSUME NEW kind
        PROVE  /\ Cardinality(At(u, n + 2, kind))
                     = Cardinality(At(s, n + 1, kind)) + (IF t.kind = kind THEN 1 ELSE 0)
               /\ Cardinality(At(s, n + 1, kind)) \in Nat
    <2>1. At(u, n + 2, kind)
             = IF t.kind = kind THEN At(s, n + 1, kind) \cup {n + 1} ELSE At(s, n + 1, kind)
      BY <1>1
    <2>2. At(s, n + 1, kind) \subseteq 1..n /\ (t.kind = kind) \in BOOLEAN
      BY <1>1
    <2> HIDE DEF At
    <2>3. QED
      BY <1>1, <2>1, <2>2, OneMore, Positions, ZenonT(60)
  <1>4. Depth(u, n + 2) = Depth(s, n + 1) + Change(t)
    <2>1. /\ Depth(u, n + 2) = Cardinality(At(u, n + 2, "start")) - Cardinality(At(u, n + 2, "end"))
          /\ Depth(s, n + 1) = Cardinality(At(s, n + 1, "start")) - Cardinality(At(s, n + 1, "end"))
      BY DEF Depth
    <2> HIDE DEF At
    <2>2. QED
      BY <1>3, <2>1 DEF Change
  <1>5. QED
    BY <1>2, <1>4

-----------------------------------------------------------------------------
(* What stays and what changes with one more event.                        *)

\* The i-th event began an element that is still open.
IsOpen(s, i) == i \in 1..Len(s) /\ Within(s, i, Len(s) + 1)

\* No element was closed that was not open.
NeverNegative(s) == \A i \in 1..Len(s)+1 : Depth(s, i) \in Nat

\* The events that may be read next.
MayFollow(s, t) == t.kind = "end" => Depth(s, Len(s) + 1) > 0

\* What the tokens of one more event are.
LEMMA AppendToken ==
    ASSUME NEW s \in Seq(Token), NEW t \in Token
    PROVE  /\ Append(s, t) \in Seq(Token)
           /\ Len(s) \in Nat /\ Len(Append(s, t)) = Len(s) + 1
           /\ Append(s, t)[Len(s) + 1] = t
           /\ \A k \in 1..Len(s) : Append(s, t)[k] = s[k]
           /\ \A k \in 1..Len(s) : s[k] \in Token
  OBVIOUS

\* An end that closes something leaves no depth negative.
LEMMA StaysNat ==
    ASSUME NEW s \in Seq(Token), NEW t \in Token, NeverNegative(s), MayFollow(s, t)
    PROVE  NeverNegative(Append(s, t))
  <1>1. \A i \in 1..Len(s)+1 : Depth(Append(s, t), i) \in Nat
    BY DepthAppend DEF NeverNegative
  <1>2. Depth(s, Len(s) + 1) \in Nat
    BY AppendToken DEF NeverNegative
  <1>3. Depth(Append(s, t), Len(s) + 2) \in Nat
    BY <1>2, DepthAppend DEF MayFollow, Change
  <1>4. QED
    BY <1>1, <1>3, AppendToken DEF NeverNegative

\* An event that was read stays in the elements that it is in.
LEMMA WithinAppend ==
    ASSUME NEW s \in Seq(Token), NEW t \in Token,
           NEW i \in 1..Len(s), NEW j \in 1..Len(s)+1
    PROVE  Within(Append(s, t), i, j) <=> Within(s, i, j)
  <1>1. Depth(Append(s, t), i) = Depth(s, i)
    BY AppendToken, DepthAppend
  <1>2. \A k \in i+1..j : Depth(Append(s, t), k) = Depth(s, k)
    BY AppendToken, DepthAppend
  <1>3. QED
    BY <1>1, <1>2, AppendToken DEF Within

\* An element stays open until the depth is its own again, and a start opens
\* one.
LEMMA OpenAppend ==
    ASSUME NEW s \in Seq(Token), NEW t \in Token, NeverNegative(s)
    PROVE  /\ \A i \in 1..Len(s) : IsOpen(Append(s, t), i) <=>
                 IsOpen(s, i) /\ Depth(s, Len(s) + 1) + Change(t) > Depth(s, i)
           /\ IsOpen(Append(s, t), Len(s) + 1) <=> t.kind = "start"
  <1> DEFINE u == Append(s, t)
             n == Len(s)
  <1>1. n \in Nat /\ Len(u) = n + 1 /\ u[n + 1] = t /\ \A k \in 1..n : u[k] = s[k]
    BY AppendToken
  <1>2. Depth(u, n + 2) = Depth(s, n + 1) + Change(t)
    BY DepthAppend
  <1>3. ASSUME NEW i \in 1..n
        PROVE  IsOpen(u, i) <=> IsOpen(s, i) /\ Depth(u, n + 2) > Depth(s, i)
    <2>1. Depth(u, i) = Depth(s, i)
      BY <1>1, DepthAppend
    <2>2. \A k \in i+1..n+1 : Depth(u, k) = Depth(s, k)
      BY <1>1, DepthAppend
    <2>3. Within(u, i, n + 2) <=>
             Within(s, i, n + 1) /\ Depth(u, n + 2) > Depth(s, i)
      <3>1. \A k \in i+1..n+2 : k \in i+1..n+1 \/ k = n + 2
        BY <1>1
      <3>2. n + 2 \in i+1..n+2 /\ \A k \in i+1..n+1 : k \in i+1..n+2
        BY <1>1
      <3>3. i < n + 1 /\ i < n + 2 /\ u[i] = s[i]
        BY <1>1
      <3> HIDE DEF u, n
      <3>4. QED
        BY <2>1, <2>2, <3>1, <3>2, <3>3 DEF Within
    <2>4. QED
      BY <1>1, <2>3 DEF IsOpen
  <1>4. IsOpen(u, n + 1) <=> t.kind = "start"
    <2>1. Depth(u, n + 1) = Depth(s, n + 1) /\ Depth(s, n + 1) \in Nat
      BY <1>1, DepthAppend DEF NeverNegative
    <2>2. t.kind = "start" => Depth(u, n + 2) > Depth(u, n + 1)
      BY <1>2, <2>1 DEF Change
    <2>3. \A k \in n+2..n+2 : k = n + 2
      BY <1>1
    <2>4. QED
      BY <1>1, <2>2, <2>3 DEF IsOpen, Within
  <1>5. QED
    BY <1>2, <1>3, <1>4

\* An element that was read keeps its path.
LEMMA HasPathAppend ==
    ASSUME NEW s \in Seq(Token), NEW t \in Token, NEW i \in 1..Len(s), NEW p
    PROVE  HasPath(Append(s, t), i, p) <=> HasPath(s, i, p)
  <1> DEFINE u == Append(s, t)
  <1>1. u[i] = s[i] /\ Depth(u, i) = Depth(s, i)
    BY AppendToken, DepthAppend
  <1>2. \A k \in 1..i : /\ Within(u, k, i) <=> Within(s, k, i)
                        /\ Depth(u, k) = Depth(s, k) /\ u[k] = s[k]
    BY AppendToken, DepthAppend, WithinAppend
  <1> HIDE DEF u
  <1>3. QED
    BY <1>1, <1>2 DEF HasPath, u

\* Which element is the first with a path does not change with what is read later.
LEMMA IsFirstAppend ==
    ASSUME NEW s \in Seq(Token), NEW t \in Token, NEW i \in 1..Len(s), NEW p
    PROVE  IsFirst(Append(s, t), i, p) <=> IsFirst(s, i, p)
  <1>1. \A j \in 1..i : HasPath(Append(s, t), j, p) <=> HasPath(s, j, p)
    BY AppendToken, HasPathAppend
  <1>2. i \in 1..i /\ \A j \in 1..i-1 : j \in 1..i
    BY AppendToken
  <1>3. QED
    BY <1>1, <1>2 DEF IsFirst

\* An open element is less deep than what comes after it, up to the end.
LEMMA OpenDepth ==
    ASSUME NEW s \in Seq(Token), NEW i, IsOpen(s, i)
    PROVE  /\ i \in 1..Len(s) /\ s[i].kind = "start"
           /\ \A j \in i+1..Len(s)+1 : Depth(s, i) < Depth(s, j)
           /\ Depth(s, i) < Depth(s, Len(s) + 1)
  <1>1. i \in 1..Len(s) /\ Len(s) \in Nat
    BY DEF IsOpen
  <1>2. /\ s[i].kind = "start"
        /\ \A j \in i+1..Len(s)+1 : Depth(s, j) > Depth(s, i)
    BY DEF IsOpen, Within
  <1>3. ASSUME NEW j \in i+1..Len(s)+1
        PROVE  Depth(s, i) < Depth(s, j)
    <2>1. Depth(s, i) \in Int /\ Depth(s, j) \in Int
      BY <1>1, DepthIsInt
    <2>2. QED
      BY <1>2, <2>1
  <1>4. Len(s) + 1 \in i+1..Len(s)+1
    BY <1>1
  <1>5. QED
    BY <1>1, <1>2, <1>3, <1>4

\* There is one open element of each depth.
LEMMA OneOpen ==
    ASSUME NEW s \in Seq(Token), NEW i, IsOpen(s, i), NEW j, IsOpen(s, j),
           Depth(s, i) = Depth(s, j)
    PROVE  i = j
  <1>1. i \in 1..Len(s) /\ j \in 1..Len(s) /\ Len(s) \in Nat
    BY DEF IsOpen
  <1>2. ASSUME NEW a, IsOpen(s, a), NEW b, IsOpen(s, b), a < b, Depth(s, a) = Depth(s, b)
        PROVE  FALSE
    <2>1. a \in 1..Len(s) /\ b \in a+1..Len(s)+1
      BY <1>1, <1>2 DEF IsOpen
    <2>2. Depth(s, a) < Depth(s, b)
      BY <1>2, <2>1, OpenDepth
    <2>3. Depth(s, a) \in Int /\ Depth(s, b) \in Int
      BY <1>1, <2>1, DepthIsInt
    <2>4. QED
      BY <1>2, <2>2, <2>3
  <1>3. QED
    BY <1>1, <1>2

-----------------------------------------------------------------------------
(* The stacks.                                                             *)

\* st is the names of the elements that are open, from the root on.
StackOf(s, st) ==
    /\ st \in Seq(Name) /\ Len(st) = Depth(s, Len(s) + 1)
    /\ \A d \in 1..Len(st) :
          \E k : IsOpen(s, k) /\ Depth(s, k) = d - 1 /\ s[k].name = st[d]

\* An open element is on the stack, at its depth.
LEMMA OnStack ==
    ASSUME NEW s \in Seq(Token), NeverNegative(s), NEW st, StackOf(s, st),
           NEW i, IsOpen(s, i)
    PROVE  Depth(s, i) + 1 \in 1..Len(st) /\ st[Depth(s, i) + 1] = s[i].name
  <1>1. i \in 1..Len(s) /\ Len(s) \in Nat /\ Depth(s, i) < Depth(s, Len(s) + 1)
    BY OpenDepth
  <1>2. Depth(s, i) \in Nat /\ Depth(s, Len(s) + 1) \in Nat
    BY <1>1 DEF NeverNegative
  <1>3. Depth(s, i) + 1 \in 1..Len(st)
    BY <1>1, <1>2 DEF StackOf
  <1>4. PICK k : IsOpen(s, k) /\ Depth(s, k) = (Depth(s, i) + 1) - 1
                  /\ s[k].name = st[Depth(s, i) + 1]
    BY <1>3 DEF StackOf
  <1>5. Depth(s, k) = Depth(s, i)
    BY <1>2, <1>4
  <1>6. QED
    BY <1>3, <1>4, <1>5, OneOpen

\* The stack follows the elements: a name is pushed at a start and popped at
\* an end.
LEMMA StackAppend ==
    ASSUME NEW s \in Seq(Token), NEW t \in Token, NeverNegative(s), MayFollow(s, t),
           NEW st, StackOf(s, st)
    PROVE  /\ t.kind = "start" => StackOf(Append(s, t), Append(st, t.name))
           /\ t.kind = "end" => st # <<>> /\ StackOf(Append(s, t), Front(st))
           /\ t.kind \notin {"start", "end"} => StackOf(Append(s, t), st)
  <1> DEFINE u == Append(s, t)
             n == Len(s)
  <1>1. /\ n \in Nat /\ Len(u) = n + 1 /\ u[n + 1] = t
        /\ \A k \in 1..n : u[k] = s[k] /\ Depth(u, k) = Depth(s, k)
        /\ Depth(u, n + 1) = Depth(s, n + 1)
    BY AppendToken, DepthAppend
  <1>2. /\ Depth(u, n + 2) = Depth(s, n + 1) + Change(t)
        /\ Depth(s, n + 1) \in Nat /\ Len(st) = Depth(s, n + 1) /\ st \in Seq(Name)
    BY <1>1, DepthAppend DEF NeverNegative, StackOf
  <1>3. ASSUME NEW d \in 1..Len(st), d <= Depth(u, n + 2)
        PROVE  \E k : IsOpen(u, k) /\ Depth(u, k) = d - 1 /\ u[k].name = st[d]
    <2>1. PICK k : IsOpen(s, k) /\ Depth(s, k) = d - 1 /\ s[k].name = st[d]
      BY DEF StackOf
    <2>2. k \in 1..n
      BY <2>1 DEF IsOpen
    <2>3. IsOpen(u, k)
      <3>1. Depth(s, n + 1) + Change(t) > Depth(s, k)
        BY <1>2, <1>3, <2>1 DEF Change
      <3>2. QED
        BY <2>1, <2>2, <3>1, OpenAppend
    <2>4. QED
      BY <1>1, <2>1, <2>2, <2>3
  <1>4. CASE t.kind = "start"
    <2> DEFINE v == Append(st, t.name)
    <2>1. t.name \in Name
      BY <1>4 DEF Token
    <2>2. /\ v \in Seq(Name) /\ Len(v) = Len(st) + 1 /\ v[Len(st) + 1] = t.name
          /\ \A d \in 1..Len(st) : v[d] = st[d]
      BY <1>2, <2>1
    <2>3. Depth(u, n + 2) = Len(st) + 1
      BY <1>2, <1>4 DEF Change
    <2>4. IsOpen(u, n + 1) /\ Depth(u, n + 1) = (Len(st) + 1) - 1 /\ u[n + 1].name = v[Len(st) + 1]
      BY <1>1, <1>2, <1>4, <2>2, OpenAppend
    <2>5. ASSUME NEW d \in 1..Len(v)
          PROVE  \E k : IsOpen(u, k) /\ Depth(u, k) = d - 1 /\ u[k].name = v[d]
      <3>1. CASE d = Len(st) + 1
        BY <2>4, <3>1
      <3>2. CASE d # Len(st) + 1
        <4>1. d \in 1..Len(st) /\ d <= Depth(u, n + 2) /\ v[d] = st[d]
          BY <1>2, <2>2, <2>3, <3>2
        <4>2. QED
          BY <1>3, <4>1
      <3>3. QED
        BY <3>1, <3>2
    <2> HIDE DEF u, v, n
    <2>6. Len(v) = Depth(u, Len(u) + 1)
      <3>1. Len(u) + 1 = n + 2
        BY <1>1
      <3>2. QED
        BY <2>2, <2>3, <3>1
    <2>7. StackOf(u, v)
      BY <2>2, <2>5, <2>6 DEF StackOf
    <2>8. QED
      BY <1>4, <2>7 DEF u, v
  <1>5. CASE t.kind = "end"
    <2> DEFINE v == Front(st)
    <2>1. Len(st) > 0
      BY <1>2, <1>5 DEF MayFollow
    <2>2. /\ v \in Seq(Name) /\ Len(v) = Len(st) - 1
          /\ \A d \in 1..Len(v) : v[d] = st[d]
      BY <1>2, <2>1 DEF Front
    <2>3. Depth(u, n + 2) = Len(st) - 1
      BY <1>2, <1>5 DEF Change
    <2>5. ASSUME NEW d \in 1..Len(v)
          PROVE  \E k : IsOpen(u, k) /\ Depth(u, k) = d - 1 /\ u[k].name = v[d]
      <3>1. d \in 1..Len(st) /\ d <= Depth(u, n + 2) /\ v[d] = st[d]
        BY <1>2, <2>2, <2>3
      <3>2. QED
        BY <1>3, <3>1
    <2> HIDE DEF u, v, n
    <2>6. Len(v) = Depth(u, Len(u) + 1)
      <3>1. Len(u) + 1 = n + 2
        BY <1>1
      <3>2. QED
        BY <2>2, <2>3, <3>1
    <2>7. StackOf(u, v)
      BY <2>2, <2>5, <2>6 DEF StackOf
    <2>8. QED
      BY <1>2, <1>5, <2>1, <2>7 DEF u, v
  <1>6. CASE t.kind \notin {"start", "end"}
    <2>3. Depth(u, n + 2) = Len(st)
      BY <1>2, <1>6 DEF Change
    <2>5. ASSUME NEW d \in 1..Len(st)
          PROVE  \E k : IsOpen(u, k) /\ Depth(u, k) = d - 1 /\ u[k].name = st[d]
      <3>1. d <= Depth(u, n + 2)
        BY <1>2, <2>3
      <3>2. QED
        BY <1>3, <3>1
    <2> HIDE DEF u, n
    <2>6. Len(st) = Depth(u, Len(u) + 1)
      <3>1. Len(u) + 1 = n + 2
        BY <1>1
      <3>2. QED
        BY <2>3, <3>1
    <2>7. StackOf(u, st)
      BY <1>2, <2>5, <2>6 DEF StackOf
    <2>8. QED
      BY <1>6, <2>7 DEF u
  <1>7. QED
    BY <1>4, <1>5, <1>6

\* The path of an element that begins is the stack with its name.
LEMMA HereHasPath ==
    ASSUME NEW s \in Seq(Token), NEW t \in Token, NeverNegative(s), Opening(t),
           NEW st, StackOf(s, st), NEW p \in Seq(Name)
    PROVE  HasPath(Append(s, t), Len(s) + 1, p) <=> Append(st, t.name) = p
  <1> DEFINE u == Append(s, t)
             n == Len(s)
             v == Append(st, t.name)
  <1>1. /\ n \in Nat /\ Len(u) = n + 1 /\ u[n + 1] = t
        /\ \A k \in 1..n : u[k] = s[k] /\ Depth(u, k) = Depth(s, k)
        /\ Depth(u, n + 1) = Depth(s, n + 1)
    BY AppendToken, DepthAppend
  <1>2. Depth(s, n + 1) \in Nat /\ Len(st) = Depth(s, n + 1) /\ st \in Seq(Name)
    BY <1>1 DEF NeverNegative, StackOf
  <1>3. t.name \in Name
    BY DEF Token, Opening
  <1>4. /\ v \in Seq(Name) /\ Len(v) = Len(st) + 1 /\ v[Len(st) + 1] = t.name
        /\ \A d \in 1..Len(st) : v[d] = st[d]
    BY <1>2, <1>3
  <1>5. \A k \in 1..n : Within(u, k, n + 1) <=> IsOpen(s, k)
    BY <1>1, WithinAppend DEF IsOpen
  <1>6. ~Within(u, n + 1, n + 1)
    BY <1>1 DEF Within
  <1>7. ASSUME v = p PROVE HasPath(u, n + 1, p)
    <2>1. Opening(u[n + 1]) /\ Len(v) = Depth(u, n + 1) + 1
      BY <1>1, <1>2, <1>4
    <2>2. ASSUME NEW d \in 1..Len(v)
          PROVE  \E k \in 1..n+1 : /\ k = n + 1 \/ Within(u, k, n + 1)
                                   /\ Depth(u, k) = d - 1 /\ u[k].name = v[d]
      <3>1. CASE d = Len(st) + 1
        <4>1. n + 1 \in 1..n+1 /\ Depth(u, n + 1) = d - 1 /\ u[n + 1].name = v[d]
          BY <1>1, <1>2, <1>4, <3>1
        <4>2. QED
          BY <4>1
      <3>2. CASE d # Len(st) + 1
        <4>1. d \in 1..Len(st)
          BY <1>2, <1>4, <3>2
        <4>2. PICK k : IsOpen(s, k) /\ Depth(s, k) = d - 1 /\ s[k].name = st[d]
          BY <4>1 DEF StackOf
        <4>3. k \in 1..n
          BY <4>2 DEF IsOpen
        <4>4. k \in 1..n+1 /\ Within(u, k, n + 1) /\ Depth(u, k) = d - 1 /\ u[k].name = v[d]
          BY <1>1, <1>4, <1>5, <4>1, <4>2, <4>3
        <4>5. QED
          BY <4>4
      <3>3. QED
        BY <3>1, <3>2
    <2> HIDE DEF u, v, n
    <2>3. QED
      BY <1>7, <2>1, <2>2 DEF HasPath
  <1>8. ASSUME HasPath(u, n + 1, p) PROVE v = p
    <2>1. Len(p) = Len(v)
      BY <1>1, <1>2, <1>4, <1>8 DEF HasPath
    <2>2. ASSUME NEW d \in 1..Len(p)
          PROVE  v[d] = p[d]
      <3>1. PICK k \in 1..n+1 : /\ k = n + 1 \/ Within(u, k, n + 1)
                                /\ Depth(u, k) = d - 1 /\ u[k].name = p[d]
        <4> HIDE DEF u, n
        <4>1. QED
          BY <1>8 DEF HasPath
      <3>2. CASE k = n + 1
        BY <1>1, <1>2, <1>4, <2>1, <3>1, <3>2
      <3>3. CASE k # n + 1
        <4>1. k \in 1..n /\ IsOpen(s, k)
          BY <1>1, <1>5, <3>1, <3>3
        <4>2. Depth(s, k) + 1 \in 1..Len(st) /\ st[Depth(s, k) + 1] = s[k].name
          BY <4>1, OnStack
        <4>3. Depth(s, k) + 1 = d
          BY <1>1, <3>1, <4>1
        <4>4. QED
          BY <1>1, <1>4, <3>1, <4>1, <4>2, <4>3
      <3>4. QED
        BY <3>2, <3>3
    <2> HIDE DEF v
    <2>3. QED
      BY <1>4, <2>1, <2>2
  <1>9. QED
    BY <1>7, <1>8

-----------------------------------------------------------------------------
(* parse.                                                                  *)

\* parse refuses a DTD and an unknown entity, and a second root.
Refused(s)  == \E i \in 1..Len(s) : s[i].kind \in {"doctype", "badref"}
TwoRoots(s) == \E i, j \in Roots(s) : i # j

\* What the local variables of parse mean.
ParseInv(s, p) ==
    /\ p.ok \in BOOLEAN
    /\ p.ok <=> ~Refused(s) /\ ~TwoRoots(s)
    /\ p.ok => p.depth = Depth(s, Len(s) + 1) /\ (p.root = "" <=> Roots(s) = {})

\* The roots: an element that begins at depth 0 is one more.
LEMMA RootsAppend ==
    ASSUME NEW s \in Seq(Token), NEW t \in Token
    PROVE  /\ Roots(Append(s, t)) = IF Opening(t) /\ Depth(s, Len(s) + 1) = 0
                                    THEN Roots(s) \cup {Len(s) + 1} ELSE Roots(s)
           /\ Len(s) + 1 \notin Roots(s)
  <1>1. \A i \in 1..Len(s)+1 : Depth(Append(s, t), i) = Depth(s, i)
    BY DepthAppend
  <1>2. QED
    BY <1>1, AppendToken DEF Roots

\* An event keeps the meaning of the local variables of parse.
LEMMA ParseStep ==
    ASSUME NEW s \in Seq(Token), NEW t \in Token, NeverNegative(s),
           NEW p, ParseInv(s, p)
    PROVE  ParseInv(Append(s, t), ParseEvent(p, t))
  <1> DEFINE u == Append(s, t)
             n == Len(s)
             q == ParseEvent(p, t)
  <1>1. Refused(u) <=> Refused(s) \/ t.kind \in {"doctype", "badref"}
    BY AppendToken DEF Refused
  <1>2. /\ Roots(u) = IF Opening(t) /\ Depth(s, n + 1) = 0
                      THEN Roots(s) \cup {n + 1} ELSE Roots(s)
        /\ n + 1 \notin Roots(s)
    BY RootsAppend
  <1>3. TwoRoots(u) <=> \/ TwoRoots(s)
                        \/ Opening(t) /\ Depth(s, n + 1) = 0 /\ Roots(s) # {}
    BY <1>2 DEF TwoRoots
  <1>4. CASE ~p.ok
    <2>1. q = p
      BY <1>4 DEF ParseEvent
    <2>2. QED
      BY <1>1, <1>3, <1>4, <2>1 DEF ParseInv
  <1>5. CASE p.ok
    <2>1. /\ q.ok = (/\ t.kind \notin {"doctype", "badref"}
                     /\ Opening(t) /\ p.depth = 0 => p.root = "")
          /\ q.root = IF Opening(t) /\ p.depth = 0 THEN t.name ELSE p.root
          /\ q.depth = IF t.kind = "start" THEN p.depth + 1
                       ELSE IF t.kind = "end" THEN p.depth - 1 ELSE p.depth
      BY <1>5 DEF ParseEvent
    <2>2. /\ ~Refused(s) /\ ~TwoRoots(s)
          /\ p.depth = Depth(s, n + 1) /\ (p.root = "" <=> Roots(s) = {})
      BY <1>5 DEF ParseInv
    <2>3. q.ok \in BOOLEAN
      BY <2>1
    <2>4. q.ok <=> ~Refused(u) /\ ~TwoRoots(u)
      BY <1>1, <1>3, <2>1, <2>2
    <2>5. q.depth = Depth(u, Len(u) + 1)
      <3>1. Depth(s, n + 1) \in Nat /\ Len(u) + 1 = n + 2
        BY AppendToken DEF NeverNegative
      <3>2. Depth(u, n + 2) = Depth(s, n + 1) + Change(t)
        BY DepthAppend
      <3>3. q.depth = p.depth + Change(t)
        <4>1. p.depth = Depth(s, n + 1)
          BY <2>2, Zenon
        <4>2. p.depth \in Int
          BY <3>1, <4>1
        <4>3. q.depth = IF t.kind = "start" THEN p.depth + 1
                        ELSE IF t.kind = "end" THEN p.depth - 1 ELSE p.depth
          BY <2>1, Zenon
        <4> HIDE DEF u, n, q
        <4>4. QED
          BY <4>2, <4>3 DEF Change
      <3> HIDE DEF u, n, q
      <3>4. QED
        BY <2>2, <3>1, <3>2, <3>3
    <2>6. q.root = "" <=> Roots(u) = {}
      <3>1. Opening(t) => t.name # ""
        BY XmlAssumption DEF Opening, Token
      <3>2. QED
        BY <1>2, <2>1, <2>2, <3>1
    <2>7. QED
      BY <2>3, <2>4, <2>5, <2>6 DEF ParseInv
  <1>6. QED
    BY <1>4, <1>5 DEF ParseInv

\* parse accepts a document that is complete, has one root and has nothing
\* that is refused.
LEMMA ParseReads ==
    ASSUME NEW s \in Seq(Token), NeverNegative(s), NEW p, ParseInv(s, p)
    PROVE  p.ok /\ p.root # "" /\ p.depth = 0 <=>
              /\ Depth(s, Len(s) + 1) = 0 /\ Cardinality(Roots(s)) = 1
              /\ ~Refused(s)
  <1>1. Roots(s) \subseteq 1..Len(s) /\ Len(s) \in Nat
    BY DEF Roots
  <1>2. IsFiniteSet(Roots(s))
    BY <1>1, Positions
  <1>3. Cardinality(Roots(s)) = 1 <=> \E i : Roots(s) = {i}
    BY <1>2, FS_Singleton
  <1>4. (\E i : Roots(s) = {i}) <=> Roots(s) # {} /\ ~TwoRoots(s)
    <2>1. ASSUME NEW i, Roots(s) = {i}
          PROVE  Roots(s) # {} /\ ~TwoRoots(s)
      BY <2>1 DEF TwoRoots
    <2>2. ASSUME NEW i \in Roots(s), ~TwoRoots(s)
          PROVE  Roots(s) = {i}
      BY <2>2 DEF TwoRoots
    <2>3. QED
      BY <2>1, <2>2
  <1>5. QED
    BY <1>3, <1>4 DEF ParseInv

-----------------------------------------------------------------------------
(* text.                                                                   *)

\* The first element with the path, once it was met: captured while it is open.
TextInv(s, p, x) ==
    /\ x.capture \in Nat /\ x.text \in Nat /\ x.found \in BOOLEAN
    /\ ~x.found => StackOf(s, x.stack)
    /\ x.found \/ x.capture # 0 =>
          \E f \in 1..Len(s) : /\ IsFirst(s, f, p) /\ x.capture = Len(p)
                               /\ x.text = Cardinality(TextsIn(s, f))
                               /\ x.found <=> ~IsOpen(s, f)
    /\ ~x.found /\ x.capture = 0 =>
          x.text = 0 /\ \A i \in 1..Len(s) : ~HasPath(s, i, p)

\* The texts in an element that is open, and in one that is not.
LEMMA TextsAppend ==
    ASSUME NEW s \in Seq(Token), NEW t \in Token
    PROVE  /\ \A i \in 1..Len(s) :
                 Cardinality(TextsIn(Append(s, t), i)) =
                    Cardinality(TextsIn(s, i))
                       + IF t.kind = "text" /\ IsOpen(s, i) THEN 1 ELSE 0
           /\ Cardinality(TextsIn(Append(s, t), Len(s) + 1)) = 0
  <1> DEFINE u == Append(s, t)
             n == Len(s)
  <1>1. n \in Nat /\ Len(u) = n + 1 /\ u[n + 1] = t /\ \A k \in 1..n : u[k] = s[k]
    BY AppendToken
  <1>2. ASSUME NEW i \in 1..n
        PROVE  Cardinality(TextsIn(u, i)) = Cardinality(TextsIn(s, i))
                  + IF t.kind = "text" /\ IsOpen(s, i) THEN 1 ELSE 0
    <2>1. \A j \in 1..n+1 : Within(u, i, j) <=> Within(s, i, j)
      BY <1>1, WithinAppend
    <2>2. IsOpen(s, i) <=> Within(s, i, n + 1)
      BY DEF IsOpen
    <2> DEFINE b == t.kind = "text" /\ IsOpen(s, i)
    <2>3. TextsIn(u, i) = IF b THEN TextsIn(s, i) \cup {n + 1} ELSE TextsIn(s, i)
      <3> HIDE DEF u
      <3>1. QED
        BY <1>1, <2>1, <2>2 DEF TextsIn
    <2>4. TextsIn(s, i) \subseteq 1..n /\ b \in BOOLEAN
      BY DEF TextsIn
    <2>5. Cardinality(TextsIn(u, i)) = Cardinality(TextsIn(s, i)) + IF b THEN 1 ELSE 0
      <3> HIDE DEF u, n, b
      <3>1. QED
        BY <1>1, <2>3, <2>4, OneMore
    <2>6. QED
      BY <2>5
  <1>3. TextsIn(u, n + 1) = {}
    BY <1>1 DEF TextsIn, Within
  <1>4. QED
    BY <1>2, <1>3, FS_EmptySet

\* An event keeps the meaning of the local variables of text: the stack is the path of
\* what is open, and what is captured is the text of the first element with the path.
LEMMA TextStep ==
    ASSUME NEW s \in Seq(Token), NEW t \in Token, NeverNegative(s), MayFollow(s, t),
           NEW p \in Seq(Name), NEW x, TextInv(s, p, x)
    PROVE  TextInv(Append(s, t), p, TextEvent(p, x, t))
  <1> DEFINE u == Append(s, t)
             n == Len(s)
             y == TextEvent(p, x, t)
             stack == IF Opening(t) THEN Append(x.stack, t.name) ELSE x.stack
             here  == Opening(t) /\ x.capture = 0 /\ stack = p
  <1>1. /\ n \in Nat /\ Len(u) = n + 1 /\ n + 1 \in 1..Len(u)
        /\ \A k \in 1..n : k \in 1..Len(u)
        /\ \A k \in 1..Len(u) : k \in 1..n \/ k = n + 1
    BY AppendToken
  <1>2. x.capture \in Nat /\ x.text \in Nat /\ x.found \in BOOLEAN
    BY DEF TextInv
  <1>3. \A i \in 1..n : /\ IsFirst(u, i, p) <=> IsFirst(s, i, p)
                        /\ HasPath(u, i, p) <=> HasPath(s, i, p)
    BY IsFirstAppend, HasPathAppend
  <1>4. /\ Depth(s, n + 1) \in Nat
        /\ \A i \in 1..n : Depth(s, i) \in Nat
    BY <1>1 DEF NeverNegative
  <1>5. \A i \in 1..n : Cardinality(TextsIn(s, i)) \in Nat
    <2>1. \A i \in 1..n : TextsIn(s, i) \subseteq 1..n
      BY DEF TextsIn
    <2>2. QED
      BY <1>1, <2>1, Positions
  <1>6. CASE x.found
    <2>1. y = x
      BY <1>6 DEF TextEvent
    <2>2. PICK f \in 1..n : /\ IsFirst(s, f, p) /\ x.capture = Len(p)
                            /\ x.text = Cardinality(TextsIn(s, f))
                            /\ ~IsOpen(s, f)
      BY <1>6 DEF TextInv
    <2>3. ~IsOpen(u, f)
      BY <2>2, OpenAppend
    <2>4. Cardinality(TextsIn(u, f)) = Cardinality(TextsIn(s, f))
      BY <1>5, <2>2, TextsAppend
    <2>5. IsFirst(u, f, p) /\ x.text = Cardinality(TextsIn(u, f)) /\ f \in 1..Len(u)
      BY <1>1, <1>3, <2>2, <2>4
    <2>6. QED
      BY <1>2, <1>6, <2>1, <2>2, <2>3, <2>5 DEF TextInv
  <1>7. CASE ~x.found
    <2>1. /\ y.stack = IF t.kind \in {"end", "empty"} THEN Front(stack) ELSE stack
          /\ y.capture = IF here THEN Len(stack) ELSE x.capture
          /\ y.text = IF t.kind = "text" /\ x.capture > 0 THEN x.text + 1 ELSE x.text
          /\ y.found = (\/ here /\ t.kind = "empty"
                        \/ t.kind = "end" /\ x.capture = Len(stack))
      BY <1>7 DEF TextEvent
    <2>2. StackOf(s, x.stack)
      BY <1>7 DEF TextInv
    <2>3. x.stack \in Seq(Name) /\ Len(x.stack) = Depth(s, n + 1)
      BY <2>2 DEF StackOf
    <2>4. StackOf(u, y.stack)
      <3>1. CASE t.kind = "start"
        BY <2>1, <2>2, <3>1, StackAppend DEF Opening
      <3>2. CASE t.kind = "end"
        BY <2>1, <2>2, <3>2, StackAppend DEF Opening
      <3>3. CASE t.kind = "empty"
        <4>1. t.name \in Name
          BY <3>3 DEF Token
        <4>2. Front(Append(x.stack, t.name)) = x.stack
          BY <2>3, <4>1 DEF Front
        <4>3. y.stack = x.stack
          BY <2>1, <3>3, <4>2 DEF Opening
        <4>4. QED
          BY <2>2, <3>3, <4>3, StackAppend
      <3>4. CASE t.kind \notin {"start", "end", "empty"}
        BY <2>1, <2>2, <3>4, StackAppend DEF Opening
      <3>5. QED
        BY <3>1, <3>2, <3>3, <3>4
    <2>5. y.text \in Nat /\ y.found \in BOOLEAN
      BY <1>2, <2>1
    <2>6. CASE x.capture # 0
      <3>1. PICK f \in 1..n : /\ IsFirst(s, f, p) /\ x.capture = Len(p)
                              /\ x.text = Cardinality(TextsIn(s, f))
                              /\ IsOpen(s, f)
        BY <1>7, <2>6 DEF TextInv
      <3>2. ~here /\ y.capture = x.capture
        BY <2>1, <2>6
      <3>3. y.text = Cardinality(TextsIn(u, f))
        <4>1. x.capture > 0
          BY <1>2, <2>6
        <4>2. Cardinality(TextsIn(u, f)) = Cardinality(TextsIn(s, f))
                 + IF t.kind = "text" THEN 1 ELSE 0
          BY <3>1, TextsAppend
        <4> HIDE DEF u, y
        <4>3. QED
          BY <1>5, <2>1, <3>1, <4>1, <4>2
      <3>4. Len(p) = Depth(s, f) + 1
        BY <3>1 DEF IsFirst, HasPath
      <3>5. Depth(s, f) < Depth(s, n + 1) /\ Depth(s, f) \in Nat
        BY <1>4, <3>1, OpenDepth
      <3>6. IsOpen(u, f) <=> Depth(s, n + 1) + Change(t) > Depth(s, f)
        BY <3>1, OpenAppend
      <3>7. y.found <=> t.kind = "end" /\ Len(p) = Len(x.stack)
        BY <2>1, <3>1, <3>2 DEF Opening
      <3>8. y.found <=> ~IsOpen(u, f)
        BY <1>4, <2>3, <3>4, <3>5, <3>6, <3>7 DEF Change
      <3>9. f \in 1..Len(u) /\ IsFirst(u, f, p)
        BY <1>1, <1>3, <3>1
      <3>10. TextInv(u, p, y)
        <4> HIDE DEF u, y, stack, here
        <4>1. QED
          BY <1>2, <2>4, <2>5, <2>6, <3>1, <3>2, <3>3, <3>8, <3>9 DEF TextInv
      <3>11. QED
        BY <3>10
    <2>7. CASE x.capture = 0
      <3>1. x.text = 0 /\ \A i \in 1..n : ~HasPath(s, i, p)
        BY <1>7, <2>7 DEF TextInv
      <3>2. HasPath(u, n + 1, p) <=> here
        <4>1. CASE Opening(t)
          BY <2>2, <2>7, <4>1, HereHasPath
        <4>2. CASE ~Opening(t)
          BY <4>2, AppendToken DEF HasPath
        <4>3. QED
          BY <4>1, <4>2
      <3>3. y.text = 0
        BY <1>2, <2>1, <2>7, <3>1
      <3>4. ~(t.kind = "end" /\ x.capture = Len(stack))
        BY <1>4, <2>3, <2>7 DEF Opening, MayFollow
      <3>5. CASE here
        <4>1. Len(stack) = Len(p) /\ Len(p) \in Nat
          BY <3>5
        <4>2. IsFirst(u, n + 1, p)
          <5>1. \A i \in 1..(n + 1)-1 : i \in 1..n
            BY <1>1
          <5>2. QED
            BY <1>3, <3>1, <3>2, <3>5, <5>1 DEF IsFirst
        <4>3. y.capture = Len(p) /\ (y.found <=> t.kind = "empty")
          BY <2>1, <3>4, <3>5, <4>1
        <4>4. Len(p) > 0
          <5>1. t.name \in Name
            BY <3>5 DEF Token, Opening
          <5>2. QED
            BY <2>3, <3>5, <5>1
        <4>5. y.found <=> ~IsOpen(u, n + 1)
          <5>1. t.kind = "start" \/ t.kind = "empty"
            BY <3>5 DEF Opening
          <5>2. QED
            BY <4>3, <5>1, OpenAppend
        <4>6. y.text = Cardinality(TextsIn(u, n + 1))
          BY <3>3, TextsAppend
        <4>7. TextInv(u, p, y)
          <5> HIDE DEF u, y, stack, here
          <5>1. QED
            BY <1>1, <2>4, <2>5, <4>1, <4>2, <4>3, <4>4, <4>5, <4>6 DEF TextInv
        <4>8. QED
          BY <4>7
      <3>6. CASE ~here
        <4>1. ~y.found /\ y.capture = 0
          BY <2>1, <2>7, <3>4, <3>6
        <4>2. \A i \in 1..Len(u) : ~HasPath(u, i, p)
          BY <1>1, <1>3, <3>1, <3>2, <3>6
        <4>3. TextInv(u, p, y)
          <5> HIDE DEF u, y, stack, here
          <5>1. QED
            BY <2>4, <2>5, <3>3, <4>1, <4>2 DEF TextInv
        <4>4. QED
          BY <4>3
      <3>7. QED
        BY <3>5, <3>6
    <2>8. QED
      BY <2>6, <2>7
  <1>8. QED
    BY <1>2, <1>6, <1>7

\* In a complete document text returned exactly when the path is there.
LEMMA TextReads ==
    ASSUME NEW s \in Seq(Token), NeverNegative(s), Depth(s, Len(s) + 1) = 0,
           NEW p, NEW x, TextInv(s, p, x)
    PROVE  /\ x.found <=> \E i \in 1..Len(s) : HasPath(s, i, p)
           /\ \A i \in 1..Len(s) : IsFirst(s, i, p) => x.text = Cardinality(TextsIn(s, i))
  <1>1. Len(s) \in Nat /\ \A i : ~IsOpen(s, i)
    BY OpenDepth DEF NeverNegative
  <1>2. CASE x.found \/ x.capture # 0
    <2>1. PICK f \in 1..Len(s) : /\ IsFirst(s, f, p)
                                 /\ x.text = Cardinality(TextsIn(s, f))
                                 /\ x.found <=> ~IsOpen(s, f)
      BY <1>2 DEF TextInv
    <2>2. x.found /\ HasPath(s, f, p)
      BY <1>1, <2>1 DEF IsFirst
    <2>3. ASSUME NEW i \in 1..Len(s), IsFirst(s, i, p)
          PROVE  x.text = Cardinality(TextsIn(s, i))
      <3>1. ~(i < f)
        BY <1>1, <2>1, <2>3 DEF IsFirst
      <3>2. ~(f < i)
        BY <1>1, <2>1, <2>3 DEF IsFirst
      <3>3. i = f
        BY <1>1, <3>1, <3>2
      <3>4. QED
        BY <2>1, <3>3
    <2>4. QED
      BY <2>2, <2>3
  <1>3. CASE ~x.found /\ x.capture = 0
    BY <1>3 DEF TextInv, IsFirst
  <1>4. QED
    BY <1>2, <1>3 DEF TextInv

-----------------------------------------------------------------------------
(* check_signature_structure.                                              *)

\* A whole-document Reference that is open, or is empty.
OpenWhole(s) ==
    \E i \in WholeReferences(s) : s[i].kind = "start" => IsOpen(s, i)

\* A Transform inside one, or after an empty one.
WholeCovered(s) ==
    \E i \in WholeReferences(s), j \in Named(s, "Transform") :
       i < j /\ (s[i].kind = "start" => Within(s, i, j))

\* The variables have not missed the whole-document Reference at i, nor a
\* Transform in it.
Seen(s, x, i) ==
    /\ IsOpen(s, i) => x.inWhole /\ (TransformsIn(s, i) # {} => x.enveloped)
    /\ ~IsOpen(s, i) => (TransformsIn(s, i) # {} => x.covers)

\* What the local variables of check_signature_structure mean.
StructureInv(s, x) ==
    /\ x.inWhole \in BOOLEAN /\ x.enveloped \in BOOLEAN /\ x.covers \in BOOLEAN
    /\ StackOf(s, x.path)
    /\ x.signatures = Cardinality(Named(s, "Signature"))
    /\ x.inWhole => OpenWhole(s)
    /\ x.enveloped \/ x.covers => WholeCovered(s)
    /\ \A i \in WholeReferences(s) : Plain(s, i) => Seen(s, x, i)

\* Of two open elements the deeper one is inside the other.
LEMMA OpenNested ==
    ASSUME NEW s \in Seq(Token), NEW i, IsOpen(s, i), NEW k, IsOpen(s, k),
           Depth(s, i) < Depth(s, k)
    PROVE  Within(s, i, k)
  <1>1. /\ i \in 1..Len(s) /\ k \in 1..Len(s) /\ Len(s) \in Nat
        /\ s[i].kind = "start"
        /\ Depth(s, i) \in Int /\ Depth(s, k) \in Int
    <2>1. /\ i \in 1..Len(s) /\ k \in 1..Len(s) /\ Len(s) \in Nat
          /\ s[i].kind = "start"
      BY OpenDepth
    <2>2. QED
      BY <2>1, DepthIsInt
  <1>2. ~(k < i)
    <2>1. SUFFICES ASSUME k < i PROVE FALSE
      OBVIOUS
    <2>2. i \in k+1..Len(s)+1
      BY <1>1, <2>1
    <2>3. Depth(s, k) < Depth(s, i)
      BY <2>2, OpenDepth
    <2>4. QED
      BY <1>1, <2>3
  <1>3. i < k
    BY <1>1, <1>2
  <1>4. \A m \in i+1..k : m \in i+1..Len(s)+1
    BY <1>1
  <1>5. \A m \in i+1..k : Depth(s, m) > Depth(s, i)
    BY <1>4 DEF IsOpen, Within
  <1>6. QED
    BY <1>1, <1>3, <1>5 DEF Within

\* The innermost element is the open one with the greatest depth.
LEMMA InnermostIs ==
    ASSUME NEW s \in Seq(Token), NeverNegative(s), NEW st, StackOf(s, st),
           NEW i, IsOpen(s, i), Depth(s, i) = Depth(s, Len(s) + 1) - 1
    PROVE  Innermost(st) = s[i].name
  <1>1. Depth(s, i) + 1 \in 1..Len(st) /\ st[Depth(s, i) + 1] = s[i].name
    BY OnStack
  <1>2. Len(st) = Depth(s, Len(s) + 1) /\ st \in Seq(Name)
    BY DEF StackOf
  <1>3. Depth(s, Len(s) + 1) \in Nat
    BY DEF NeverNegative
  <1>4. Depth(s, i) + 1 = Len(st)
    BY <1>2, <1>3
  <1>5. st # <<>>
    BY <1>1, <1>2, <1>4
  <1>6. QED
    BY <1>1, <1>4, <1>5 DEF Innermost, Last

\* One is open when any is.
LEMMA InnermostExists ==
    ASSUME NEW s \in Seq(Token), NeverNegative(s), NEW st, StackOf(s, st),
           Depth(s, Len(s) + 1) > 0
    PROVE  \E i : IsOpen(s, i) /\ Depth(s, i) = Depth(s, Len(s) + 1) - 1
  <1>1. Len(st) = Depth(s, Len(s) + 1) /\ Depth(s, Len(s) + 1) \in Nat
    BY DEF StackOf, NeverNegative
  <1>2. Len(st) \in 1..Len(st)
    BY <1>1
  <1>3. QED
    BY <1>1, <1>2 DEF StackOf

\* The signatures are counted.
LEMMA NamedAppend ==
    ASSUME NEW s \in Seq(Token), NEW t \in Token, NEW name
    PROVE  Cardinality(Named(Append(s, t), name)) =
              Cardinality(Named(s, name)) + IF Opening(t) /\ t.name = name THEN 1 ELSE 0
  <1> DEFINE b == Opening(t) /\ t.name = name
  <1>1. Len(s) \in Nat /\ Named(s, name) \subseteq 1..Len(s) /\ b \in BOOLEAN
    BY AppendToken DEF Named, Opening
  <1>2. Named(Append(s, t), name) =
           IF b THEN Named(s, name) \cup {Len(s) + 1} ELSE Named(s, name)
    BY AppendToken DEF Named
  <1>3. Cardinality(Named(Append(s, t), name)) =
           Cardinality(Named(s, name)) + IF b THEN 1 ELSE 0
    <2> HIDE DEF b
    <2>1. QED
      BY <1>1, <1>2, OneMore
  <1>4. QED
    BY <1>3

\* Where the names are, with one more event.
LEMMA NamedPositions ==
    ASSUME NEW s \in Seq(Token), NEW t \in Token, NEW name
    PROVE  /\ Named(s, name) \subseteq 1..Len(s)
           /\ \A j : j \in Named(Append(s, t), name) <=>
                 \/ j \in Named(s, name)
                 \/ j = Len(s) + 1 /\ Opening(t) /\ t.name = name
  BY AppendToken DEF Named

\* A Reference that begins is one of the whole document exactly if it says so and
\* the element that is open is a SignedInfo; what was read stays as it is.
LEMMA WholeAppend ==
    ASSUME NEW s \in Seq(Token), NEW t \in Token, NeverNegative(s),
           NEW st, StackOf(s, st)
    PROVE  \A i : i \in WholeReferences(Append(s, t)) <=>
              \/ i \in WholeReferences(s)
              \/ /\ i = Len(s) + 1 /\ Opening(t) /\ t.name = "Reference-whole"
                 /\ Innermost(st) = "SignedInfo"
  <1> DEFINE u == Append(s, t)
             n == Len(s)
             Child(v, i) == \E k \in 1..i : /\ Within(v, k, i)
                                            /\ Depth(v, k) = Depth(v, i) - 1
                                            /\ v[k].name = "SignedInfo"
  <1>1. /\ n \in Nat /\ Len(u) = n + 1 /\ u[n + 1] = t
        /\ \A k \in 1..n : u[k] = s[k] /\ Depth(u, k) = Depth(s, k)
        /\ Depth(u, n + 1) = Depth(s, n + 1)
    BY AppendToken, DepthAppend
  <1>2. Depth(s, n + 1) \in Nat /\ Len(st) = Depth(s, n + 1) /\ st \in Seq(Name)
    BY <1>1 DEF NeverNegative, StackOf
  <1>3. ASSUME NEW i \in 1..n
        PROVE  Child(u, i) <=> Child(s, i)
    <2>1. \A k \in 1..i : /\ Within(u, k, i) <=> Within(s, k, i)
                          /\ Depth(u, k) = Depth(s, k) /\ u[k] = s[k]
      BY <1>1, WithinAppend
    <2>2. Depth(u, i) = Depth(s, i)
      BY <1>1
    <2> HIDE DEF u, n
    <2>3. QED
      BY <2>1, <2>2
  <1>4. Child(u, n + 1) <=> Innermost(st) = "SignedInfo"
    <2>1. \A k \in 1..n : Within(u, k, n + 1) <=> IsOpen(s, k)
      BY <1>1, WithinAppend DEF IsOpen
    <2>2. ~Within(u, n + 1, n + 1)
      BY <1>1 DEF Within
    <2>3. ASSUME Child(u, n + 1) PROVE Innermost(st) = "SignedInfo"
      <3>1. PICK k \in 1..n+1 : /\ Within(u, k, n + 1)
                                /\ Depth(u, k) = Depth(u, n + 1) - 1
                                /\ u[k].name = "SignedInfo"
        BY <2>3
      <3>2. k \in 1..n
        BY <1>1, <2>2, <3>1
      <3>3. IsOpen(s, k) /\ Depth(s, k) = Depth(s, n + 1) - 1 /\ s[k].name = "SignedInfo"
        BY <1>1, <2>1, <3>1, <3>2
      <3>4. QED
        BY <3>3, InnermostIs
    <2>4. ASSUME Innermost(st) = "SignedInfo" PROVE Child(u, n + 1)
      <3>1. st # <<>>
        BY <2>4 DEF Innermost
      <3>2. Depth(s, n + 1) > 0
        BY <1>2, <3>1
      <3>3. PICK k : IsOpen(s, k) /\ Depth(s, k) = Depth(s, n + 1) - 1
        BY <3>2, InnermostExists
      <3>4. k \in 1..n /\ s[k].name = "SignedInfo"
        BY <2>4, <3>3, InnermostIs DEF IsOpen
      <3>5. /\ k \in 1..n+1 /\ Within(u, k, n + 1)
            /\ Depth(u, k) = Depth(u, n + 1) - 1 /\ u[k].name = "SignedInfo"
        BY <1>1, <2>1, <3>3, <3>4
      <3>6. QED
        BY <3>5
    <2>5. QED
      BY <2>3, <2>4
  <1>5. \A i : i \in Named(u, "Reference-whole") <=>
           \/ i \in Named(s, "Reference-whole")
           \/ i = n + 1 /\ Opening(t) /\ t.name = "Reference-whole"
    BY NamedPositions
  <1>6. Named(s, "Reference-whole") \subseteq 1..n /\ n + 1 \notin 1..n
    BY <1>1, NamedPositions
  <1>7. \A v, i : i \in WholeReferences(v) <=> i \in Named(v, "Reference-whole") /\ Child(v, i)
    BY DEF WholeReferences
  <1> HIDE DEF u, n, Child
  <1>8. \A i : i \in WholeReferences(u) <=>
           \/ i \in WholeReferences(s)
           \/ /\ i = n + 1 /\ Opening(t) /\ t.name = "Reference-whole"
              /\ Innermost(st) = "SignedInfo"
    BY <1>3, <1>4, <1>5, <1>6, <1>7
  <1>9. QED
    BY <1>8 DEF u, n

\* A Transform is in the elements that are open when it begins.
LEMMA TransformsAppend ==
    ASSUME NEW s \in Seq(Token), NEW t \in Token
    PROVE  /\ \A i \in 1..Len(s) : TransformsIn(Append(s, t), i) # {} <=>
                 \/ TransformsIn(s, i) # {}
                 \/ Opening(t) /\ t.name = "Transform" /\ IsOpen(s, i)
           /\ TransformsIn(Append(s, t), Len(s) + 1) = {}
  <1> DEFINE u == Append(s, t)
             n == Len(s)
  <1>1. n \in Nat /\ Len(u) = n + 1 /\ u[n + 1] = t /\ \A k \in 1..n : u[k] = s[k]
    BY AppendToken
  <1>2. \A j : j \in Named(u, "Transform") <=>
           \/ j \in Named(s, "Transform")
           \/ j = n + 1 /\ Opening(t) /\ t.name = "Transform"
    BY NamedPositions
  <1>3. \A j \in Named(s, "Transform") : j \in 1..n /\ j \in 1..n+1
    BY <1>1, NamedPositions
  <1>4. ASSUME NEW i \in 1..n
        PROVE  TransformsIn(u, i) # {} <=>
                  \/ TransformsIn(s, i) # {}
                  \/ Opening(t) /\ t.name = "Transform" /\ IsOpen(s, i)
    <2>1. \A j \in 1..n+1 : Within(u, i, j) <=> Within(s, i, j)
      BY <1>1, WithinAppend
    <2>2. n + 1 \in 1..n+1 /\ (IsOpen(s, i) <=> Within(s, i, n + 1))
      BY <1>1 DEF IsOpen
    <2> HIDE DEF u, n
    <2>3. QED
      BY <1>2, <1>3, <2>1, <2>2 DEF TransformsIn
  <1>5. TransformsIn(u, n + 1) = {}
    <2>1. \A j \in Named(u, "Transform") : ~(n + 1 < j)
      BY <1>1, <1>2, <1>3
    <2>2. QED
      BY <2>1 DEF TransformsIn, Within
  <1>6. QED
    BY <1>4, <1>5

\* What has no Reference inside had none before, and none begins while it is open.
LEMMA PlainBefore ==
    ASSUME NEW s \in Seq(Token), NEW t \in Token, NEW i \in 1..Len(s),
           Plain(Append(s, t), i)
    PROVE  /\ Plain(s, i)
           /\ IsOpen(s, i) => ~(Opening(t) /\ t.name \in Reference)
  <1> DEFINE u == Append(s, t)
             n == Len(s)
  <1>1. n \in Nat /\ \A j \in 1..n+1 : Within(u, i, j) <=> Within(s, i, j)
    BY AppendToken, WithinAppend
  <1>2. ASSUME NEW r \in Reference, NEW k \in Named(s, r)
        PROVE  ~Within(s, i, k)
    <2>1. k \in Named(u, r) /\ k \in 1..n+1
      BY <1>1, NamedPositions
    <2>2. ~Within(u, i, k)
      BY <2>1 DEF Plain
    <2>3. QED
      BY <1>1, <2>1, <2>2
  <1>3. ASSUME IsOpen(s, i), Opening(t), t.name \in Reference
        PROVE  FALSE
    <2>1. n + 1 \in Named(u, t.name) /\ n + 1 \in 1..n+1
      BY <1>1, <1>3, NamedPositions
    <2>2. ~Within(u, i, n + 1)
      BY <1>3, <2>1 DEF Plain
    <2>3. QED
      BY <1>1, <1>3, <2>1, <2>2 DEF IsOpen
  <1>4. QED
    BY <1>2, <1>3 DEF Plain

\* What covers a document goes on covering it.
LEMMA WholeCoveredStays ==
    ASSUME NEW s \in Seq(Token), NEW t \in Token, NeverNegative(s),
           NEW st, StackOf(s, st), WholeCovered(s)
    PROVE  WholeCovered(Append(s, t))
  <1> DEFINE u == Append(s, t)
  <1>1. PICK i \in WholeReferences(s), j \in Named(s, "Transform") :
           i < j /\ (s[i].kind = "start" => Within(s, i, j))
    BY DEF WholeCovered
  <1>2. i \in 1..Len(s) /\ j \in 1..Len(s) /\ j \in 1..Len(s)+1 /\ u[i] = s[i]
    BY AppendToken DEF WholeReferences, Named
  <1>3. i \in WholeReferences(u)
    BY WholeAppend
  <1>4. j \in Named(u, "Transform")
    BY NamedPositions
  <1>5. Within(u, i, j) <=> Within(s, i, j)
    BY <1>2, WithinAppend
  <1> HIDE DEF u
  <1>6. WholeCovered(u)
    BY <1>1, <1>2, <1>3, <1>4, <1>5 DEF WholeCovered
  <1>7. QED
    BY <1>6 DEF u

\* An end closes the innermost element and leaves the others open.
LEMMA EndCloses ==
    ASSUME NEW s \in Seq(Token), NEW t \in Token, NeverNegative(s), t.kind = "end",
           NEW k, IsOpen(s, k), Depth(s, k) = Depth(s, Len(s) + 1) - 1
    PROVE  \A i \in 1..Len(s) : IsOpen(Append(s, t), i) <=> IsOpen(s, i) /\ i # k
  <1>1. /\ Len(s) \in Nat /\ k \in 1..Len(s) /\ Depth(s, Len(s) + 1) \in Nat
        /\ \A i \in 1..Len(s) : Depth(s, i) \in Nat
    BY OpenDepth DEF NeverNegative
  <1>2. \A i \in 1..Len(s) : IsOpen(Append(s, t), i) <=>
           IsOpen(s, i) /\ Depth(s, Len(s) + 1) + Change(t) > Depth(s, i)
    BY OpenAppend
  <1>3. ASSUME NEW i \in 1..Len(s), IsOpen(s, i), i # k
        PROVE  Depth(s, Len(s) + 1) + Change(t) > Depth(s, i)
    <2>1. Depth(s, i) # Depth(s, k) /\ Depth(s, i) < Depth(s, Len(s) + 1)
      BY <1>3, OneOpen, OpenDepth
    <2>2. QED
      BY <1>1, <2>1 DEF Change
  <1>4. ~(Depth(s, Len(s) + 1) + Change(t) > Depth(s, k))
    BY <1>1 DEF Change
  <1>5. QED
    BY <1>2, <1>3, <1>4

\* The variables keep their meaning: no Reference with the Transform is missed,
\* and none is found that is not there.
LEMMA ReferencesStep ==
    ASSUME NEW s \in Seq(Token), NEW t \in Token, NeverNegative(s), MayFollow(s, t),
           NEW x, StackOf(s, x.path), x.inWhole => OpenWhole(s),
           x.enveloped \/ x.covers => WholeCovered(s),
           \A i \in WholeReferences(s) : Plain(s, i) => Seen(s, x, i),
           NEW y, y = StructureEvent(x, t), NEW u, u = Append(s, t)
    PROVE  /\ y.inWhole => OpenWhole(u)
           /\ y.enveloped \/ y.covers => WholeCovered(u)
           /\ \A i \in WholeReferences(u) : Plain(u, i) => Seen(u, y, i)
  <1> DEFINE n == Len(s)
             refHere == /\ Opening(t) /\ t.name \in Reference
                        /\ Innermost(x.path) = "SignedInfo"
             refEnds == t.kind = "end" /\ Innermost(x.path) \in Reference
             inWhole == IF refHere THEN t.name = "Reference-whole" ELSE x.inWhole
  <1>1. /\ n \in Nat /\ Len(u) = n + 1 /\ u[n + 1] = t /\ u \in Seq(Token)
        /\ \A k \in 1..n : u[k] = s[k]
    BY AppendToken
  <1>2. /\ y.inWhole <=> inWhole /\ ~refEnds
        /\ y.enveloped <=>
              /\ x.enveloped \/ (Opening(t) /\ t.name = "Transform" /\ inWhole)
              /\ ~refEnds
        /\ y.covers <=> x.covers \/ (refEnds /\ x.inWhole /\ x.enveloped)
    BY DEF StructureEvent
  <1>3. \A i : i \in WholeReferences(u) <=>
           \/ i \in WholeReferences(s)
           \/ /\ i = n + 1 /\ Opening(t) /\ t.name = "Reference-whole"
              /\ Innermost(x.path) = "SignedInfo"
    BY WholeAppend
  <1>4. \A i \in WholeReferences(s) : i \in 1..n /\ s[i].name = "Reference-whole"
    BY DEF WholeReferences, Named
  <1>5. /\ \A i \in 1..n : TransformsIn(u, i) # {} <=>
              \/ TransformsIn(s, i) # {}
              \/ Opening(t) /\ t.name = "Transform" /\ IsOpen(s, i)
        /\ TransformsIn(u, n + 1) = {}
    BY TransformsAppend
  <1>6. /\ \A i \in 1..n : IsOpen(u, i) <=>
                 IsOpen(s, i) /\ Depth(s, n + 1) + Change(t) > Depth(s, i)
        /\ IsOpen(u, n + 1) <=> t.kind = "start"
    BY OpenAppend
  <1>7. t.kind # "end" => \A i \in 1..n : IsOpen(u, i) <=> IsOpen(s, i)
    <2>1. \A i \in 1..n : Depth(s, i) \in Nat /\ (IsOpen(s, i) => Depth(s, i) < Depth(s, n + 1))
      BY <1>1, OpenDepth DEF NeverNegative
    <2>2. Depth(s, n + 1) \in Nat
      BY <1>1 DEF NeverNegative
    <2>3. QED
      BY <1>6, <2>1, <2>2 DEF Change
  <1>8. WholeCovered(s) => WholeCovered(u)
    BY WholeCoveredStays
  <1>9. Opening(t) /\ t.name = "Transform" => ~refHere /\ ~refEnds
    BY DEF Reference, Opening
  <1>10. Opening(t) => t.kind # "end"
    BY DEF Opening
  <1>11. CASE t.kind = "end"
    <2>1. PICK k : IsOpen(s, k) /\ Depth(s, k) = Depth(s, n + 1) - 1
      BY <1>11, InnermostExists DEF MayFollow
    <2>2. k \in 1..n /\ Innermost(x.path) = s[k].name
      BY <2>1, InnermostIs DEF IsOpen
    <2>3. ~refHere /\ ~Opening(t) /\ (refEnds <=> s[k].name \in Reference)
      BY <1>10, <1>11, <2>2
    <2>4. \A i \in 1..n : IsOpen(u, i) <=> IsOpen(s, i) /\ i # k
      BY <1>11, <2>1, EndCloses
    <2>5. /\ y.inWhole <=> x.inWhole /\ ~refEnds
          /\ y.enveloped <=> x.enveloped /\ ~refEnds
      BY <1>2, <2>3
    <2>6. y.inWhole => OpenWhole(u)
      <3>1. SUFFICES ASSUME y.inWhole PROVE OpenWhole(u)
        OBVIOUS
      <3>2. PICK i \in WholeReferences(s) : s[i].kind = "start" => IsOpen(s, i)
        BY <2>5, <3>1 DEF OpenWhole
      <3>3. i # k /\ i \in 1..n /\ i \in WholeReferences(u) /\ u[i] = s[i]
        BY <1>1, <1>3, <1>4, <2>3, <2>5, <3>1 DEF Reference
      <3>4. u[i].kind = "start" => IsOpen(u, i)
        BY <2>4, <3>2, <3>3
      <3>5. QED
        BY <3>3, <3>4 DEF OpenWhole
    <2>7. y.enveloped \/ y.covers => WholeCovered(u)
      BY <1>2, <1>8, <2>5
    <2>8. ASSUME NEW i \in WholeReferences(u), Plain(u, i) PROVE Seen(u, y, i)
      <3>1. i \in WholeReferences(s) /\ i \in 1..n
        BY <1>3, <1>4, <2>3
      <3>2. Plain(s, i)
        BY <2>8, <3>1, PlainBefore
      <3>3. Seen(s, x, i) /\ (TransformsIn(u, i) # {} <=> TransformsIn(s, i) # {})
        BY <1>5, <2>3, <3>1, <3>2
      <3>4. CASE ~IsOpen(s, i)
        BY <1>2, <2>4, <3>1, <3>3, <3>4 DEF Seen
      <3>5. CASE i = k
        <4>1. refEnds /\ ~IsOpen(u, i)
          BY <1>4, <2>3, <2>4, <3>1, <3>5 DEF Reference
        <4>2. TransformsIn(s, i) # {} => x.inWhole /\ x.enveloped
          BY <2>1, <3>3, <3>5 DEF Seen
        <4>3. QED
          BY <1>2, <3>3, <4>1, <4>2 DEF Seen
      <3>6. CASE IsOpen(s, i) /\ i # k
        <4>1. Within(s, i, k)
          <5>1. Depth(s, i) # Depth(s, k) /\ Depth(s, i) < Depth(s, n + 1)
            BY <2>1, <3>6, OneOpen, OpenDepth
          <5>2. Depth(s, i) \in Nat /\ Depth(s, k) \in Nat /\ Depth(s, n + 1) \in Nat
            BY <1>1, <2>2, <3>1 DEF NeverNegative
          <5>3. Depth(s, i) < Depth(s, k)
            BY <2>1, <5>1, <5>2
          <5>4. QED
            BY <2>1, <3>6, <5>3, OpenNested
        <4>2. Opening(s[k])
          BY <2>1, OpenDepth DEF Opening
        <4>3. s[k].name \notin Reference
          BY <2>2, <3>2, <4>1, <4>2 DEF Plain, Named
        <4>4. QED
          BY <2>3, <2>4, <2>5, <3>1, <3>3, <3>6, <4>3 DEF Seen
      <3>7. QED
        BY <3>4, <3>5, <3>6
    <2>9. QED
      BY <2>6, <2>7, <2>8
  <1>12. CASE t.kind # "end"
    <2>1. ~refEnds
      BY <1>12
    <2>2. /\ y.inWhole <=> inWhole
          /\ y.enveloped <=> x.enveloped \/ (Opening(t) /\ t.name = "Transform" /\ x.inWhole)
          /\ y.covers <=> x.covers
      BY <1>2, <1>9, <2>1
    <2>3. \A i \in 1..n : IsOpen(u, i) <=> IsOpen(s, i)
      BY <1>7, <1>12
    <2>4. y.inWhole => OpenWhole(u)
      <3>1. CASE refHere /\ t.name = "Reference-whole"
        <4>1. n + 1 \in WholeReferences(u) /\ (u[n + 1].kind = "start" => IsOpen(u, n + 1))
          BY <1>1, <1>3, <1>6, <3>1
        <4>2. QED
          BY <4>1 DEF OpenWhole
      <3>2. CASE ~refHere /\ x.inWhole
        <4>1. PICK i \in WholeReferences(s) : s[i].kind = "start" => IsOpen(s, i)
          BY <3>2 DEF OpenWhole
        <4>2. i \in WholeReferences(u) /\ (u[i].kind = "start" => IsOpen(u, i))
          BY <1>1, <1>3, <1>4, <2>3, <4>1
        <4>3. QED
          BY <4>2 DEF OpenWhole
      <3>3. QED
        BY <2>2, <3>1, <3>2
    <2>5. y.enveloped \/ y.covers => WholeCovered(u)
      <3>1. CASE x.enveloped \/ x.covers
        BY <1>8, <3>1
      <3>2. CASE Opening(t) /\ t.name = "Transform" /\ x.inWhole
        <4>1. PICK i \in WholeReferences(s) : s[i].kind = "start" => IsOpen(s, i)
          BY <3>2 DEF OpenWhole
        <4>2. /\ i \in WholeReferences(u) /\ i \in 1..n /\ i < n + 1 /\ u[i] = s[i]
              /\ n + 1 \in 1..n+1
          BY <1>1, <1>3, <1>4
        <4>3. n + 1 \in Named(u, "Transform")
          BY <3>2, NamedPositions
        <4>4. Within(u, i, n + 1) <=> Within(s, i, n + 1)
          BY <4>2, WithinAppend
        <4>5. u[i].kind = "start" => Within(u, i, n + 1)
          BY <4>1, <4>2, <4>4 DEF IsOpen
        <4>6. QED
          BY <4>2, <4>3, <4>5 DEF WholeCovered
      <3>3. QED
        BY <2>2, <3>1, <3>2
    <2>6. ASSUME NEW i \in WholeReferences(u), Plain(u, i) PROVE Seen(u, y, i)
      <3>1. CASE i \in WholeReferences(s)
        <4>1. i \in 1..n /\ Plain(s, i) /\ (IsOpen(s, i) => ~refHere)
          BY <1>4, <2>6, <3>1, PlainBefore
        <4>2. Seen(s, x, i)
          BY <3>1, <4>1
        <4>3. ASSUME IsOpen(u, i)
              PROVE  y.inWhole /\ (TransformsIn(u, i) # {} => y.enveloped)
          <5>1. IsOpen(s, i) /\ ~refHere /\ x.inWhole /\ (TransformsIn(s, i) # {} => x.enveloped)
            BY <2>3, <4>1, <4>2, <4>3 DEF Seen
          <5>2. QED
            BY <1>5, <2>2, <4>1, <5>1
        <4>4. ASSUME ~IsOpen(u, i), TransformsIn(u, i) # {}
              PROVE  y.covers
          <5>1. ~IsOpen(s, i) /\ TransformsIn(s, i) # {}
            BY <1>5, <2>3, <4>1, <4>4
          <5>2. QED
            BY <2>2, <4>2, <5>1 DEF Seen
        <4>5. QED
          BY <4>3, <4>4 DEF Seen
      <3>2. CASE i = n + 1 /\ i \notin WholeReferences(s)
        <4>1. refHere /\ t.name = "Reference-whole" /\ TransformsIn(u, i) = {}
          BY <1>3, <1>5, <2>6, <3>2 DEF Reference
        <4>2. y.inWhole
          BY <2>2, <4>1
        <4>3. QED
          BY <4>1, <4>2 DEF Seen
      <3>3. QED
        BY <1>3, <2>6, <3>1, <3>2
    <2>7. QED
      BY <2>4, <2>5, <2>6
  <1>13. QED
    BY <1>11, <1>12

\* An event keeps the meaning of the local variables of check_signature_structure.
LEMMA StructureStep ==
    ASSUME NEW s \in Seq(Token), NEW t \in Token, NeverNegative(s), MayFollow(s, t),
           NEW x, StructureInv(s, x)
    PROVE  StructureInv(Append(s, t), StructureEvent(x, t))
  <1> DEFINE u == Append(s, t)
             y == StructureEvent(x, t)
  <1>1. /\ x.inWhole \in BOOLEAN /\ x.enveloped \in BOOLEAN /\ x.covers \in BOOLEAN
        /\ StackOf(s, x.path)
    BY DEF StructureInv
  <1>2. y.inWhole \in BOOLEAN /\ y.enveloped \in BOOLEAN /\ y.covers \in BOOLEAN
    BY <1>1 DEF StructureEvent
  <1>3. StackOf(u, y.path)
    <2>1. y.path = IF t.kind = "start" THEN Append(x.path, t.name)
                   ELSE IF t.kind = "end" THEN Front(x.path) ELSE x.path
      BY DEF StructureEvent
    <2>2. CASE t.kind = "start"
      BY <1>1, <2>1, <2>2, StackAppend
    <2>3. CASE t.kind = "end"
      BY <1>1, <2>1, <2>3, StackAppend
    <2>4. CASE t.kind \notin {"start", "end"}
      BY <1>1, <2>1, <2>4, StackAppend
    <2>5. QED
      BY <2>2, <2>3, <2>4
  <1>4. y.signatures = Cardinality(Named(u, "Signature"))
    <2>1. y.signatures = IF Opening(t) /\ t.name = "Signature"
                         THEN x.signatures + 1 ELSE x.signatures
      BY DEF StructureEvent
    <2>2. x.signatures = Cardinality(Named(s, "Signature"))
      BY DEF StructureInv
    <2>3. Cardinality(Named(s, "Signature")) \in Nat
      <3>1. Named(s, "Signature") \subseteq 1..Len(s) /\ Len(s) \in Nat
        BY DEF Named
      <3>2. QED
        BY <3>1, Positions
    <2>4. QED
      BY <2>1, <2>2, <2>3, NamedAppend
  <1>5. /\ y.inWhole => OpenWhole(u)
        /\ y.enveloped \/ y.covers => WholeCovered(u)
        /\ \A i \in WholeReferences(u) : Plain(u, i) => Seen(u, y, i)
    <2>1. /\ x.inWhole => OpenWhole(s)
          /\ x.enveloped \/ x.covers => WholeCovered(s)
          /\ \A i \in WholeReferences(s) : Plain(s, i) => Seen(s, x, i)
      BY DEF StructureInv
    <2> HIDE DEF u, y
    <2>2. u = Append(s, t) /\ y = StructureEvent(x, t)
      BY DEF u, y
    <2>3. QED
      BY <1>1, <2>1, <2>2, ReferencesStep
  <1> HIDE DEF u, y
  <1>6. StructureInv(u, y)
    BY <1>2, <1>3, <1>4, <1>5 DEF StructureInv
  <1>7. QED
    BY <1>6 DEF u, y

-----------------------------------------------------------------------------
(* The reader.                                                             *)

\* The inductive invariant: the local variables of each loop, told from the events.
ScanInv ==
    /\ tokens \in Seq(Token) /\ NeverNegative(tokens)
    /\ ParseInv(tokens, parse)
    /\ DOMAIN text = Path /\ \A p \in Path : TextInv(tokens, p, text[p])
    /\ StructureInv(tokens, structure)

\* Before the first event the variables mean what they should.
LEMMA ScanInitInv == ScanInit => ScanInv
  <1> SUFFICES ASSUME ScanInit PROVE ScanInv
    OBVIOUS
  <1>1. tokens = <<>> /\ tokens \in Seq(Token) /\ Len(tokens) = 0
    <2>1. tokens = <<>>
      BY DEF ScanInit
    <2>2. QED
      BY <2>1
  <1>2. Depth(tokens, 1) = 0
    <2>1. \A kind : {k \in 1..1-1 : tokens[k].kind = kind} = {}
      OBVIOUS
    <2>2. QED
      BY <2>1, FS_EmptySet DEF Depth
  <1>3. NeverNegative(tokens)
    BY <1>1, <1>2 DEF NeverNegative
  <1>4. StackOf(tokens, <<>>)
    BY <1>1, <1>2 DEF StackOf
  <1>5. Roots(tokens) = {} /\ Named(tokens, "Signature") = {} /\ WholeReferences(tokens) = {}
    BY <1>1 DEF Roots, Named, WholeReferences
  <1>6. ParseInv(tokens, parse)
    <2>1. parse.ok = TRUE /\ parse.root = "" /\ parse.depth = 0
      BY DEF ScanInit
    <2>2. ~Refused(tokens) /\ ~TwoRoots(tokens)
      BY <1>1, <1>5 DEF Refused, TwoRoots
    <2>3. parse.depth = Depth(tokens, Len(tokens) + 1)
      <3>1. Depth(tokens, Len(tokens) + 1) = 0
        BY <1>1, <1>2
      <3>2. QED
        BY <2>1, <3>1, Zenon
    <2>4. QED
      BY <1>5, <2>1, <2>2, <2>3, Zenon DEF ParseInv
  <1>7. DOMAIN text = Path /\ \A p \in Path : TextInv(tokens, p, text[p])
    <2>1. DOMAIN text = Path
      BY DEF ScanInit
    <2>2. ASSUME NEW p \in Path PROVE TextInv(tokens, p, text[p])
      <3>1. /\ text[p].stack = <<>> /\ text[p].capture = 0 /\ text[p].text = 0
            /\ text[p].found = FALSE
        BY DEF ScanInit
      <3>2. \A i \in 1..Len(tokens) : FALSE
        BY <1>1
      <3>3. text[p].capture \in Nat /\ text[p].text \in Nat /\ text[p].found \in BOOLEAN
        BY DEF ScanInit
      <3>4. ~text[p].found /\ text[p].capture = 0
        BY <3>1
      <3>5. StackOf(tokens, text[p].stack)
        BY <1>4, <3>1, Zenon
      <3>6. QED
        BY <3>1, <3>2, <3>3, <3>4, <3>5, Zenon DEF TextInv
    <2>3. QED
      BY <2>1, <2>2
  <1>8. StructureInv(tokens, structure)
    <2>1. /\ structure.signatures = 0 /\ structure.path = <<>> /\ structure.inWhole = FALSE
          /\ structure.enveloped = FALSE /\ structure.covers = FALSE
      BY DEF ScanInit
    <2>2. QED
      BY <1>4, <1>5, <2>1, FS_EmptySet DEF StructureInv
  <1>9. QED
    BY <1>1, <1>3, <1>6, <1>7, <1>8 DEF ScanInv

\* Every event keeps what the variables mean.
LEMMA ScanNextInv == ScanInv /\ [ScanNext]_scanVars => ScanInv'
  <1> SUFFICES ASSUME ScanInv, [ScanNext]_scanVars PROVE ScanInv'
    OBVIOUS
  <1>1. ASSUME NEW t \in Token, ReadEvent(t)
        PROVE  ScanInv'
    <2>1. tokens \in Seq(Token) /\ NeverNegative(tokens) /\ MayFollow(tokens, t)
      BY <1>1 DEF ScanInv, ReadEvent, MayFollow
    <2>2. tokens' = Append(tokens, t) /\ tokens' \in Seq(Token) /\ NeverNegative(tokens')
      BY <1>1, <2>1, AppendToken, StaysNat DEF ReadEvent
    <2>3. ParseInv(tokens', parse')
      BY <1>1, <2>1, ParseStep DEF ReadEvent, ScanInv
    <2>4. DOMAIN text' = Path /\ \A p \in Path : TextInv(tokens', p, text'[p])
      <3>1. DOMAIN text' = Path
        BY <1>1 DEF ReadEvent
      <3>2. ASSUME NEW p \in Path PROVE TextInv(tokens', p, text'[p])
        <4>1. text'[p] = TextEvent(p, text[p], t)
          BY <1>1 DEF ReadEvent
        <4>2. p \in Seq(Name) /\ TextInv(tokens, p, text[p])
          BY XmlAssumption DEF ScanInv
        <4>3. TextInv(Append(tokens, t), p, TextEvent(p, text[p], t))
          BY <2>1, <4>2, TextStep
        <4>4. QED
          BY <2>2, <4>1, <4>3
      <3>3. QED
        BY <3>1, <3>2
    <2>5. StructureInv(tokens', structure')
      BY <1>1, <2>1, StructureStep DEF ReadEvent, ScanInv
    <2>6. QED
      BY <2>2, <2>3, <2>4, <2>5 DEF ScanInv, ParseInv, TextInv, StructureInv, StackOf,
                                    OpenWhole, WholeCovered, Seen, NeverNegative
  <1>2. CASE UNCHANGED scanVars
    BY <1>2 DEF scanVars, ScanInv
  <1>3. QED
    BY <1>1, <1>2 DEF ScanNext

\* At every event of XmlDoc::parse, XmlDoc::text and check_signature_structure their
\* local variables say of the tree what ScanInv says, for all names, paths and lengths.
THEOREM ScanInvHolds == ScanSpec => []ScanInv
  BY ScanInitInv, ScanNextInv, PTL DEF ScanSpec

\* Where nothing is open, nothing is missing from what the variables mean.
LEMMA StructureReads ==
    ASSUME NEW s \in Seq(Token), NeverNegative(s), NEW x, StructureInv(s, x)
    PROVE  /\ x.covers => WholeCovered(s)
           /\ Depth(s, Len(s) + 1) = 0 =>
                 \A i \in WholeReferences(s) :
                    Plain(s, i) /\ TransformsIn(s, i) # {} => x.covers
  <1>1. x.covers => WholeCovered(s)
    BY DEF StructureInv
  <1>2. Depth(s, Len(s) + 1) = 0 => \A i : ~IsOpen(s, i)
    BY OpenDepth DEF NeverNegative
  <1>3. QED
    BY <1>1, <1>2 DEF StructureInv, Seen

\* What the one-pass readers find in received XML is what its tree has: the root, the
\* first element with a path and its text, and a whole-document Reference with its
\* Transform.
THEOREM ReadsTheTreeHolds == ScanSpec => []ReadsTheTree
  <1>1. ScanInv => ReadsTheTree
    <2> SUFFICES ASSUME ScanInv PROVE ReadsTheTree
      OBVIOUS
    <2>1. /\ tokens \in Seq(Token) /\ NeverNegative(tokens)
          /\ DOMAIN tokens = 1..Len(tokens)
      BY DEF ScanInv
    <2>2. ParsedOk <=>
             /\ Balanced /\ Cardinality(Roots(tokens)) = 1
             /\ \A i \in DOMAIN tokens : tokens[i].kind \notin {"doctype", "badref"}
      <3>1. ParseInv(tokens, parse)
        BY DEF ScanInv
      <3>2. ParsedOk <=> /\ Balanced /\ Cardinality(Roots(tokens)) = 1
                         /\ ~Refused(tokens)
        BY <2>1, <3>1, ParseReads DEF ParsedOk, Balanced
      <3>3. QED
        BY <2>1, <3>2 DEF Refused
    <2>3. ASSUME ParsedOk, NEW p \in Path
          PROVE  /\ text[p].found <=> \E i \in DOMAIN tokens : HasPath(tokens, i, p)
                 /\ \A i \in DOMAIN tokens : IsFirst(tokens, i, p) =>
                       text[p].text = Cardinality(TextsIn(tokens, i))
      <3>1. Depth(tokens, Len(tokens) + 1) = 0
        BY <2>2, <2>3 DEF Balanced
      <3>2. TextInv(tokens, p, text[p])
        BY DEF ScanInv
      <3>3. QED
        BY <2>1, <3>1, <3>2, TextReads
    <2>4. /\ /\ Balanced /\ Cardinality(Named(tokens, "Signature")) = 1
             /\ \E i \in WholeReferences(tokens) :
                   Plain(tokens, i) /\ TransformsIn(tokens, i) # {}
             => CheckStructure
          /\ CheckStructure =>
                /\ Cardinality(Named(tokens, "Signature")) = 1
                /\ \E i \in WholeReferences(tokens), j \in Named(tokens, "Transform") :
                      i < j /\ (tokens[i].kind = "start" => Within(tokens, i, j))
      <3>1. StructureInv(tokens, structure)
        BY DEF ScanInv
      <3>2. structure.signatures = Cardinality(Named(tokens, "Signature"))
        BY <3>1 DEF StructureInv
      <3>3. /\ structure.covers => WholeCovered(tokens)
            /\ Balanced =>
                  \A i \in WholeReferences(tokens) :
                     Plain(tokens, i) /\ TransformsIn(tokens, i) # {} => structure.covers
        BY <2>1, <3>1, StructureReads DEF Balanced
      <3>4. QED
        BY <3>2, <3>3 DEF CheckStructure, WholeCovered
    <2>5. QED
      BY <2>2, <2>3, <2>4 DEF ReadsTheTree
  <1>2. QED
    BY <1>1, ScanInvHolds, PTL

-----------------------------------------------------------------------------
(* Sums.                                                                   *)

\* A nonempty set of naturals has a least one.
LEMMA LeastExists ==
    ASSUME NEW T, T \subseteq Nat, T # {}
    PROVE  \E n \in T : \A m \in T : ~(m < n)
  <1> DEFINE R == {ss \in Nat \X Nat : ss[1] < ss[2]}
  <1>1. IsWellFoundedOn(R, Nat)
    BY NatLessThanWellFounded, Zenon DEF OpToRel
  <1>2. PICK n \in T : \A m \in T : ~(<<m, n>> \in R)
    <2> HIDE DEF R
    <2>1. QED
      BY <1>1, WFMin
  <1>3. \A m \in T : ~(m < n)
    BY <1>2
  <1>4. QED
    BY <1>3

\* Induction over the naturals, for the set of those that a claim holds of:
\* the least number that is not in it would be 0 or follow one that is.
LEMMA SetInduction ==
    ASSUME NEW S, 0 \in S, \A n \in Nat : n \in S => n + 1 \in S
    PROVE  \A n \in Nat : n \in S
  <1> DEFINE T == {n \in Nat : n \notin S}
  <1>1. SUFFICES ASSUME T # {} PROVE FALSE
    OBVIOUS
  <1>2. T \subseteq Nat
    OBVIOUS
  <1>3. PICK n \in T : \A m \in T : ~(m < n)
    <2> HIDE DEF T
    <2>1. QED
      BY <1>1, <1>2, LeastExists
  <1>4. n # 0 /\ n \in Nat /\ n - 1 \in Nat /\ n - 1 < n
    BY <1>3
  <1>5. n - 1 \in S
    BY <1>3, <1>4
  <1>6. (n - 1) + 1 \in S /\ (n - 1) + 1 = n
    BY <1>4, <1>5
  <1>7. QED
    BY <1>3, <1>6

\* The sums of the first n amounts.
AreSums(f, s, n) ==
    /\ f \in [0..n -> Int] /\ f[0] = 0
    /\ \A i \in 1..n : f[i] = f[i - 1] + s[i]

\* PartialSums is what its definition says, for there is such a function.
LEMMA SumsAre ==
    ASSUME NEW s \in Seq(Int)
    PROVE  AreSums(PartialSums(s), s, Len(s)) /\ Total(s) = PartialSums(s)[Len(s)]
  <1> DEFINE N == Len(s)
             S == {n \in Nat : n <= N => \E f : AreSums(f, s, n)}
             Step(f) == [i \in 0..N |-> IF i = 0 THEN 0 ELSE f[i - 1] + s[i]]
  <1>1. N \in Nat /\ \A i \in 1..N : s[i] \in Int
    OBVIOUS
  <1>2. 0 \in S
    <2>1. AreSums([i \in 0..0 |-> 0], s, 0)
      BY DEF AreSums
    <2>2. QED
      BY <2>1
  <1>3. ASSUME NEW n \in Nat, n \in S
        PROVE  n + 1 \in S
    <2>1. SUFFICES ASSUME n + 1 <= N PROVE \E f : AreSums(f, s, n + 1)
      OBVIOUS
    <2>2. PICK f : AreSums(f, s, n)
      BY <1>1, <1>3, <2>1
    <2> DEFINE g == [i \in 0..n+1 |-> IF i = n + 1 THEN f[n] + s[n + 1] ELSE f[i]]
    <2>3. f[n] \in Int /\ s[n + 1] \in Int
      BY <1>1, <2>1, <2>2 DEF AreSums
    <2>4. g \in [0..n+1 -> Int] /\ g[0] = 0
      BY <2>2, <2>3 DEF AreSums
    <2>5. ASSUME NEW i \in 1..n+1
          PROVE  g[i] = g[i - 1] + s[i]
      <3>1. CASE i = n + 1
        BY <2>3, <3>1
      <3>2. CASE i # n + 1
        <4>1. i \in 1..n /\ g[i] = f[i] /\ g[i - 1] = f[i - 1]
          BY <3>2
        <4>2. QED
          BY <2>2, <4>1 DEF AreSums
      <3>3. QED
        BY <3>1, <3>2
    <2> HIDE DEF g
    <2>6. AreSums(g, s, n + 1)
      BY <2>4, <2>5 DEF AreSums
    <2>7. QED
      BY <2>6
  <1>4. PICK f : AreSums(f, s, N)
    <2>1. \A n \in Nat : n \in S
      <3> HIDE DEF S
      <3>1. QED
        BY <1>2, <1>3, SetInduction
    <2>2. QED
      BY <1>1, <2>1
  <1>5. f = Step(f)
    BY <1>1, <1>4 DEF AreSums
  <1> DEFINE P == PartialSums(s)
  <1>6. P = Step(P)
    <2>1. P = CHOOSE h : h = [i \in 0..Len(s) |-> IF i = 0 THEN 0 ELSE h[i - 1] + s[i]]
      BY DEF PartialSums
    <2>2. f = [i \in 0..Len(s) |-> IF i = 0 THEN 0 ELSE f[i - 1] + s[i]]
      BY <1>5
    <2>3. QED
      BY <2>1, <2>2
  <1> HIDE DEF P
  <1>7. DOMAIN P = 0..N /\ P[0] = 0 /\ \A i \in 1..N : P[i] = P[i - 1] + s[i]
    BY <1>1, <1>6, SMTT(40)
  <1>8. \A i \in 0..N : P[i] \in Int
    <2> DEFINE Q == {n \in Nat : n <= N => P[n] \in Int}
    <2>1. 0 \in Q
      BY <1>7
    <2>2. ASSUME NEW n \in Nat, n \in Q PROVE n + 1 \in Q
      <3>1. SUFFICES ASSUME n + 1 <= N PROVE P[n + 1] \in Int
        OBVIOUS
      <3>2. P[n + 1] = P[n] + s[n + 1] /\ P[n] \in Int /\ s[n + 1] \in Int
        BY <1>1, <1>7, <2>2, <3>1
      <3>3. QED
        BY <3>2
    <2>3. \A n \in Nat : n \in Q
      <3> HIDE DEF Q
      <3>1. QED
        BY <2>1, <2>2, SetInduction
    <2>4. QED
      BY <1>1, <2>3
  <1>9. P \in [0..N -> Int]
    BY <1>6, <1>7, <1>8
  <1>10. QED
    BY <1>7, <1>9 DEF AreSums, P, Total

\* A sum is an integer.
LEMMA TotalType ==
    ASSUME NEW s \in Seq(Int)
    PROVE  Total(s) \in Int
  <1>1. Len(s) \in 0..Len(s)
    OBVIOUS
  <1>2. QED
    BY <1>1, SumsAre DEF AreSums

\* The sum of one amount.
LEMMA TotalOne ==
    ASSUME NEW a \in Int
    PROVE  Total(<<a>>) = a
  <1> DEFINE P == PartialSums(<<a>>)
  <1>1. <<a>> \in Seq(Int) /\ Len(<<a>>) = 1 /\ <<a>>[1] = a
    OBVIOUS
  <1>2. AreSums(P, <<a>>, 1) /\ Total(<<a>>) = P[1]
    BY <1>1, SumsAre
  <1> HIDE DEF P
  <1>3. P[1] = P[1 - 1] + a /\ P[0] = 0
    BY <1>1, <1>2 DEF AreSums
  <1>4. QED
    BY <1>2, <1>3

\* Sums of amounts that add up one by one add up.
LEMMA TotalAdds ==
    ASSUME NEW s \in Seq(Int), NEW t \in Seq(Int), NEW u \in Seq(Int),
           Len(t) = Len(s), Len(u) = Len(s),
           \A i \in 1..Len(s) : u[i] = s[i] + t[i]
    PROVE  Total(u) = Total(s) + Total(t)
  <1> DEFINE N == Len(s)
             P == PartialSums(s)
             Q == PartialSums(t)
             R == PartialSums(u)
             S == {n \in Nat : n <= N => R[n] = P[n] + Q[n]}
  <1>1. N \in Nat /\ \A i \in 1..N : s[i] \in Int /\ t[i] \in Int /\ u[i] = s[i] + t[i]
    OBVIOUS
  <1>2. AreSums(P, s, N) /\ AreSums(Q, t, N) /\ AreSums(R, u, N)
    BY SumsAre
  <1>3. Total(s) = P[N] /\ Total(t) = Q[N] /\ Total(u) = R[N]
    BY SumsAre
  <1> HIDE DEF P, Q, R, N
  <1>4. 0 \in S
    BY <1>2 DEF AreSums
  <1>5. ASSUME NEW n \in Nat, n \in S PROVE n + 1 \in S
    <2>1. SUFFICES ASSUME n + 1 <= N PROVE R[n + 1] = P[n + 1] + Q[n + 1]
      OBVIOUS
    <2>2. n + 1 \in 1..N /\ n \in 0..N /\ (n + 1) - 1 = n
      BY <1>1, <2>1
    <2>3. /\ P[n + 1] = P[n] + s[n + 1] /\ Q[n + 1] = Q[n] + t[n + 1]
          /\ R[n + 1] = R[n] + u[n + 1]
          /\ P[n] \in Int /\ Q[n] \in Int
      BY <1>2, <2>2 DEF AreSums
    <2>4. R[n] = P[n] + Q[n]
      BY <1>1, <1>5, <2>1
    <2>5. QED
      BY <1>1, <2>2, <2>3, <2>4, SMTT(40)
  <1>6. \A n \in Nat : n \in S
    <2> HIDE DEF S
    <2>1. QED
      BY <1>4, <1>5, SetInduction
  <1>7. QED
    BY <1>1, <1>3, <1>6

\* y cents are at most n halves away from x, which is in thousandths of a
\* percent of a cent.
Near(x, y, n) ==
    2 * (y * 100000 - x) <= n * 100000 /\ 2 * (x - y * 100000) <= n * 100000

\* One more amount, and one more half cent.
LEMMA NearAdds ==
    ASSUME NEW n \in Nat, NEW a \in Int, NEW b \in Int, NEW c \in Int, NEW d \in Int,
           Near(a, c, n), Near(b, d, 1)
    PROVE  Near(a + b, c + d, n + 1)
  BY DEF Near

\* A product of a sum.
LEMMA Distributes ==
    ASSUME NEW a \in Int, NEW b \in Int, NEW r \in Int
    PROVE  (a + b) * r = a * r + b * r /\ a * r \in Int /\ b * r \in Int
  OBVIOUS

\* A sum of amounts each at most half a cent away from a rate of others is at
\* most that many halves away from the rate of their sum.
LEMMA TotalIsNear ==
    ASSUME NEW s \in Seq(Int), NEW t \in Seq(Int), Len(t) = Len(s), NEW r \in Int,
           \A i \in 1..Len(s) : Near(s[i] * r, t[i], 1)
    PROVE  Near(Total(s) * r, Total(t), Len(s))
  <1> DEFINE N == Len(s)
             P == PartialSums(s)
             Q == PartialSums(t)
             S == {n \in Nat : n <= N => Near(P[n] * r, Q[n], n)}
  <1>1. N \in Nat /\ \A i \in 1..N : s[i] \in Int /\ t[i] \in Int
    OBVIOUS
  <1>2. AreSums(P, s, N) /\ AreSums(Q, t, N)
    BY SumsAre
  <1>3. Total(s) = P[N] /\ Total(t) = Q[N]
    BY SumsAre
  <1>4. \A i \in 1..N : Near(s[i] * r, t[i], 1)
    OBVIOUS
  <1> HIDE DEF P, Q, N
  <1>5. 0 \in S
    <2>1. P[0] = 0 /\ Q[0] = 0
      BY <1>2 DEF AreSums
    <2>2. QED
      BY <2>1 DEF Near
  <1>6. ASSUME NEW n \in Nat, n \in S PROVE n + 1 \in S
    <2>1. SUFFICES ASSUME n + 1 <= N PROVE Near(P[n + 1] * r, Q[n + 1], n + 1)
      OBVIOUS
    <2>2. n + 1 \in 1..N /\ n \in 0..N /\ (n + 1) - 1 = n
      BY <1>1, <2>1
    <2>3. /\ P[n + 1] = P[n] + s[n + 1] /\ Q[n + 1] = Q[n] + t[n + 1]
          /\ P[n] \in Int /\ Q[n] \in Int
      BY <1>2, <2>2 DEF AreSums
    <2>4. s[n + 1] \in Int /\ t[n + 1] \in Int
      BY <1>1, <2>2
    <2>5. /\ (P[n] + s[n + 1]) * r = P[n] * r + s[n + 1] * r
          /\ P[n] * r \in Int /\ s[n + 1] * r \in Int
      <3> DEFINE a == P[n]
                 b == s[n + 1]
      <3>1. a \in Int /\ b \in Int
        BY <2>3, <2>4
      <3> HIDE DEF a, b
      <3>2. (a + b) * r = a * r + b * r /\ a * r \in Int /\ b * r \in Int
        BY <3>1, Distributes
      <3>3. QED
        BY <3>2, Zenon DEF a, b
    <2>6. Near(s[n + 1] * r, t[n + 1], 1)
      BY <1>4, <2>2, Zenon
    <2>7. Near(P[n] * r, Q[n], n)
      BY <1>1, <1>6, <2>1
    <2>8. Near(P[n] * r + s[n + 1] * r, Q[n] + t[n + 1], n + 1)
      BY <2>3, <2>4, <2>5, <2>6, <2>7, NearAdds, Zenon
    <2>9. QED
      BY <2>3, <2>5, <2>8, Zenon
  <1>7. \A n \in Nat : n \in S
    <2> HIDE DEF S
    <2>1. QED
      BY <1>5, <1>6, SetInduction, Zenon
  <1>8. N \in Nat /\ N <= N
    BY <1>1
  <1>9. Near(P[N] * r, Q[N], N)
    BY <1>7, <1>8, Zenon
  <1>10. QED
    BY <1>3, <1>9, Zenon DEF N

\* A function of 1..n is a sequence.
LEMMA FunctionIsSeq ==
    ASSUME NEW n \in Nat, NEW T, NEW f \in [1..n -> T]
    PROVE  f \in Seq(T) /\ Len(f) = n
  <1>1. f \in Seq(T)
    BY SeqDef
  <1>2. Len(f) \in Nat /\ DOMAIN f = 1..Len(f) /\ DOMAIN f = 1..n
    BY <1>1, LenProperties
  <1>3. QED
    BY <1>1, <1>2

\* The amounts x of the lines whose rate, in R, is r.
Masked(x, R, r) == [j \in 1..Len(x) |-> IF R[j] = r THEN x[j] ELSE 0]

\* The amounts of the lines whose rate is that of one of the first m.
Covered(x, R, m) ==
    [j \in 1..Len(x) |-> IF \E i \in 1..m : R[i] = R[j] THEN x[j] ELSE 0]

\* Both are sequences of amounts, as long as the lines.
LEMMA MaskedType ==
    ASSUME NEW x \in Seq(Int), NEW R, NEW r, NEW m
    PROVE  /\ Masked(x, R, r) \in Seq(Int) /\ Len(Masked(x, R, r)) = Len(x)
           /\ Covered(x, R, m) \in Seq(Int) /\ Len(Covered(x, R, m)) = Len(x)
  <1> DEFINE a == Masked(x, R, r)
             b == Covered(x, R, m)
  <1>1. Len(x) \in Nat /\ \A j \in 1..Len(x) : x[j] \in Int
    OBVIOUS
  <1>2. a \in [1..Len(x) -> Int] /\ b \in [1..Len(x) -> Int]
    BY <1>1 DEF Masked, Covered
  <1> HIDE DEF a, b
  <1>3. a \in Seq(Int) /\ Len(a) = Len(x) /\ b \in Seq(Int) /\ Len(b) = Len(x)
    BY <1>1, <1>2, FunctionIsSeq
  <1>4. QED
    BY <1>3 DEF a, b

\* The sums of the groups, each at the first line of its rate, add up to the
\* sum of all: with each line, what is added is what it covers.
LEMMA GroupsAddUp ==
    ASSUME NEW x \in Seq(Int), NEW R, NEW F \in Seq(Int), Len(F) = Len(x),
           \A i \in 1..Len(x) :
              F[i] = IF \A j \in 1..i-1 : R[j] # R[i] THEN Total(Masked(x, R, R[i])) ELSE 0
    PROVE  Total(F) = Total(x)
  <1> DEFINE N == Len(x)
             P == PartialSums(F)
             S == {m \in Nat : m <= N => P[m] = Total(Covered(x, R, m))}
  <1>1. N \in Nat /\ \A i \in 1..N : x[i] \in Int
    OBVIOUS
  <1>2. AreSums(P, F, N) /\ Total(F) = P[N]
    BY SumsAre
  <1>3. \A m : /\ Covered(x, R, m) \in Seq(Int) /\ Len(Covered(x, R, m)) = N
               /\ Total(Covered(x, R, m)) \in Int
    BY MaskedType, TotalType
  <1>4. \A i \in 1..N :
           F[i] = IF \A j \in 1..i-1 : R[j] # R[i] THEN Total(Masked(x, R, R[i])) ELSE 0
    OBVIOUS
  <1>5. \A m : \A j \in 1..N :
           Covered(x, R, m)[j] = IF \E i \in 1..m : R[i] = R[j] THEN x[j] ELSE 0
    BY DEF Covered
  <1>6. \A r : \A j \in 1..N : Masked(x, R, r)[j] = IF R[j] = r THEN x[j] ELSE 0
    BY DEF Masked
  <1> HIDE DEF P, N
  <1>7. 0 \in S
    <2> DEFINE c == Covered(x, R, 0)
    <2>1. c \in Seq(Int) /\ Len(c) = N /\ \A j \in 1..Len(c) : c[j] = c[j] + c[j]
      <3>1. \A j \in 1..N : ~\E i \in 1..0 : R[i] = R[j]
        OBVIOUS
      <3>2. \A j \in 1..N : c[j] = 0
        BY <1>5, <3>1
      <3>3. c \in Seq(Int) /\ Len(c) = N
        BY <1>3
      <3> HIDE DEF c
      <3>4. QED
        BY <3>2, <3>3
    <2> HIDE DEF c
    <2>2. Total(c) = Total(c) + Total(c)
      BY <2>1, TotalAdds
    <2>3. Total(c) = 0
      BY <2>1, <2>2, TotalType
    <2>4. QED
      BY <1>2, <2>3 DEF AreSums, c
  <1>8. ASSUME NEW m \in Nat, m \in S PROVE m + 1 \in S
    <2>1. SUFFICES ASSUME m + 1 <= N PROVE P[m + 1] = Total(Covered(x, R, m + 1))
      OBVIOUS
    <2>2. m + 1 \in 1..N /\ (m + 1) - 1 = m /\ P[m] = Total(Covered(x, R, m))
      BY <1>1, <1>8, <2>1
    <2>3. P[m + 1] = P[m] + F[m + 1]
      BY <1>2, <2>2 DEF AreSums
    <2>4. \A i : i \in 1..m+1 <=> i \in 1..m \/ i = m + 1
      OBVIOUS
    <2> DEFINE a == Covered(x, R, m)
               b == Covered(x, R, m + 1)
               c == Masked(x, R, R[m + 1])
    <2>5. CASE \A j \in 1..m : R[j] # R[m + 1]
      <3>1. F[m + 1] = Total(c)
        BY <1>4, <2>2, <2>5
      <3>2. \A j \in 1..N : b[j] = a[j] + c[j]
        <4>1. ASSUME NEW j \in 1..N PROVE b[j] = a[j] + c[j]
          <5>1. /\ a[j] = IF \E i \in 1..m : R[i] = R[j] THEN x[j] ELSE 0
                /\ b[j] = IF \E i \in 1..m+1 : R[i] = R[j] THEN x[j] ELSE 0
                /\ c[j] = IF R[j] = R[m + 1] THEN x[j] ELSE 0
                /\ x[j] \in Int
            BY <1>1, <1>5, <1>6
          <5> HIDE DEF a, b, c
          <5>2. CASE R[j] = R[m + 1]
            <6>1. ~\E i \in 1..m : R[i] = R[j]
              BY <2>5, <5>2
            <6>2. \E i \in 1..m+1 : R[i] = R[j]
              BY <2>4, <5>2
            <6>3. QED
              BY <5>1, <5>2, <6>1, <6>2
          <5>3. CASE R[j] # R[m + 1]
            <6>1. (\E i \in 1..m : R[i] = R[j]) <=> \E i \in 1..m+1 : R[i] = R[j]
              BY <2>4, <5>3
            <6>2. QED
              BY <5>1, <5>3, <6>1
          <5>4. QED
            BY <5>2, <5>3
        <4>2. QED
          BY <4>1
      <3>3. /\ a \in Seq(Int) /\ Len(a) = N /\ b \in Seq(Int) /\ Len(b) = N
            /\ c \in Seq(Int) /\ Len(c) = N
        BY <1>3, MaskedType DEF N
      <3> HIDE DEF a, b, c
      <3>4. Total(b) = Total(a) + Total(c)
        <4>1. Len(c) = Len(a) /\ Len(b) = Len(a) /\ \A j \in 1..Len(a) : b[j] = a[j] + c[j]
          BY <3>2, <3>3
        <4>2. QED
          BY <3>3, <4>1, TotalAdds
      <3>5. QED
        BY <2>2, <2>3, <3>1, <3>4 DEF a, b
    <2>6. CASE \E j \in 1..m : R[j] = R[m + 1]
      <3>1. F[m + 1] = 0
        BY <1>4, <2>2, <2>6
      <3>2. a = b
        <4>1. \A j \in 1..N :
                 (\E i \in 1..m : R[i] = R[j]) <=> \E i \in 1..m+1 : R[i] = R[j]
          BY <2>4, <2>6
        <4>2. QED
          BY <4>1 DEF Covered, N
      <3> HIDE DEF a, b, c
      <3>3. P[m] \in Int
        BY <1>3, <2>2
      <3>4. QED
        BY <2>2, <2>3, <3>1, <3>2, <3>3 DEF a, b
    <2>7. QED
      BY <2>5, <2>6
  <1>9. \A m \in Nat : m \in S
    <2> HIDE DEF S
    <2>1. QED
      BY <1>7, <1>8, SetInduction
  <1>10. P[N] = Total(Covered(x, R, N))
    BY <1>1, <1>9
  <1>11. Covered(x, R, N) = x
    <2>1. Covered(x, R, N) \in Seq(Int) /\ Len(Covered(x, R, N)) = Len(x)
      BY <1>3 DEF N
    <2>2. \A j \in 1..N : Covered(x, R, N)[j] = x[j]
      BY <1>5
    <2>3. /\ Len(Covered(x, R, N)) = Len(x)
          /\ \A j \in 1..Len(Covered(x, R, N)) : Covered(x, R, N)[j] = x[j]
      BY <2>1, <2>2 DEF N
    <2>4. QED
      BY <2>1, <2>3, SeqEqual
  <1>12. QED
    BY <1>2, <1>10, <1>11

-----------------------------------------------------------------------------
(* The amounts of a document.                                              *)

\* What RoundHalfUp returns is at most half a unit away.
LEMMA RoundsToNear ==
    ASSUME NEW n \in Int
    PROVE  /\ RoundHalfUp(n, 100000) \in Int /\ Near(n, RoundHalfUp(n, 100000), 1)
           /\ RoundHalfUp(n, 10000) \in Int
  BY DEF RoundHalfUp, Near

\* The amounts of a line are integers, and its tax is near its rate.
LEMMA ComputedType ==
    ASSUME NEW line \in [quantity : Int, price : Int, percent : Int]
    PROVE  /\ ComputedLine(line).extension \in Int /\ ComputedLine(line).tax \in Int
           /\ ComputedLine(line).percent = line.percent
           /\ Near(ComputedLine(line).extension * line.percent, ComputedLine(line).tax, 1)
  <1> DEFINE a == line.quantity * line.price
             e == RoundHalfUp(a, 10000)
             b == e * line.percent
  <1>1. a \in Int
    OBVIOUS
  <1>2. e \in Int
    <2> HIDE DEF a
    <2>1. QED
      BY <1>1, RoundsToNear
  <1>3. b \in Int
    <2> HIDE DEF e
    <2>1. QED
      BY <1>2
  <1>4. RoundHalfUp(b, 100000) \in Int /\ Near(b, RoundHalfUp(b, 100000), 1)
    <2> HIDE DEF b
    <2>1. QED
      BY <1>3, RoundsToNear
  <1>5. /\ ComputedLine(line).extension = e /\ ComputedLine(line).percent = line.percent
        /\ ComputedLine(line).tax = RoundHalfUp(b, 100000)
    BY DEF ComputedLine
  <1>6. b = e * line.percent
    OBVIOUS
  <1> HIDE DEF e, b
  <1>7. QED
    BY <1>2, <1>4, <1>5, <1>6

\* The lines of a document: as many as there are, or one.
LEMMA LinesType ==
    ASSUME NEW p \in Payload
    PROVE  /\ Len(Lines(p)) \in Nat /\ DOMAIN Lines(p) = 1..Len(Lines(p))
           /\ \A i \in 1..Len(Lines(p)) :
                 Lines(p)[i].extension \in Int /\ Lines(p)[i].tax \in Int
           /\ p.lines # <<>> => Len(Lines(p)) = Len(p.lines)
           /\ p.lines # <<>> =>
                 \A i \in 1..Len(Lines(p)) : Lines(p)[i] = ComputedLine(p.lines[i])
  <1>1. /\ p.lines \in Seq([quantity : Int, price : Int, percent : Int])
        /\ p.net \in Int /\ p.tax \in Int
    BY DocumentsAssumption
  <1>2. CASE p.lines = <<>>
    <2> DEFINE l == SyntheticLine(ToAmount(p.net), ToAmount(p.tax))
    <2>1. Lines(p) = <<l>>
      BY <1>2 DEF Lines
    <2>2. l.extension \in Int /\ l.tax \in Int
      BY <1>1 DEF SyntheticLine, ToAmount
    <2> HIDE DEF l
    <2>3. QED
      BY <1>2, <2>1, <2>2
  <1>3. CASE p.lines # <<>>
    <2> DEFINE n == Len(p.lines)
    <2>1. n \in Nat /\ DOMAIN p.lines = 1..n
      BY <1>1
    <2>2. Lines(p) = [i \in 1..n |-> ComputedLine(p.lines[i])]
      BY <1>3, <2>1 DEF Lines
    <2>3. DOMAIN Lines(p) = 1..n /\ \A i \in 1..n : Lines(p)[i] = ComputedLine(p.lines[i])
      BY <2>2
    <2>4. Len(Lines(p)) = n
      BY <2>1, <2>2
    <2>5. \A i \in 1..n : /\ ComputedLine(p.lines[i]).extension \in Int
                          /\ ComputedLine(p.lines[i]).tax \in Int
      BY <1>1, ElementOfSeq, ComputedType
    <2> HIDE DEF n
    <2>6. QED
      BY <1>3, <2>1, <2>3, <2>4, <2>5 DEF n
  <1>4. QED
    BY <1>2, <1>3

\* The rates of the lines.
Rates(p) == [i \in 1..Len(Lines(p)) |-> Lines(p)[i].percent]

\* Extensions and taxes, line by line.
LEMMA AmountsType ==
    ASSUME NEW p \in Payload
    PROVE  /\ Extensions(Lines(p)) \in Seq(Int) /\ Len(Extensions(Lines(p))) = Len(Lines(p))
           /\ Taxes(Lines(p)) \in Seq(Int) /\ Len(Taxes(Lines(p))) = Len(Lines(p))
           /\ \A i \in 1..Len(Lines(p)) : /\ Extensions(Lines(p))[i] = Lines(p)[i].extension
                                          /\ Taxes(Lines(p))[i] = Lines(p)[i].tax
  <1> DEFINE l == Lines(p)
             n == Len(l)
  <1>1. n \in Nat /\ DOMAIN l = 1..n
    BY LinesType
  <1>2. \A i \in 1..n : l[i].extension \in Int /\ l[i].tax \in Int
    BY LinesType
  <1> HIDE DEF l, n
  <1>3. Extensions(l) \in [1..n -> Int] /\ Taxes(l) \in [1..n -> Int]
    BY <1>1, <1>2 DEF Extensions, Taxes
  <1>4. /\ Extensions(l) \in Seq(Int) /\ Len(Extensions(l)) = n
        /\ Taxes(l) \in Seq(Int) /\ Len(Taxes(l)) = n
    BY <1>1, <1>3, FunctionIsSeq
  <1>5. \A i \in 1..n : Extensions(l)[i] = l[i].extension /\ Taxes(l)[i] = l[i].tax
    BY <1>1 DEF Extensions, Taxes
  <1>6. QED
    BY <1>4, <1>5 DEF l, n

\* The sums of a group are over its lines.
LEMMA GroupIsMasked ==
    ASSUME NEW p \in Payload, NEW r
    PROVE  /\ Extensions(OfRate(Lines(p), r)) = Masked(Extensions(Lines(p)), Rates(p), r)
           /\ Taxes(OfRate(Lines(p), r)) = Masked(Taxes(Lines(p)), Rates(p), r)
  <1> DEFINE l == Lines(p)
             n == Len(l)
             o == OfRate(l, r)
  <1>1. n \in Nat /\ DOMAIN l = 1..n
    BY LinesType
  <1>2. /\ Len(Extensions(l)) = n /\ Len(Taxes(l)) = n
        /\ \A i \in 1..n : Extensions(l)[i] = l[i].extension /\ Taxes(l)[i] = l[i].tax
    BY AmountsType
  <1>3. \A i \in 1..n : Rates(p)[i] = l[i].percent
    BY DEF Rates
  <1> HIDE DEF l, n
  <1>4. DOMAIN o = 1..n /\ \A i \in 1..n :
           /\ o[i].extension = IF l[i].percent = r THEN l[i].extension ELSE 0
           /\ o[i].tax = IF l[i].percent = r THEN l[i].tax ELSE 0
    BY <1>1 DEF OfRate
  <1> HIDE DEF o
  <1>5. Extensions(o) = [i \in 1..n |-> IF l[i].percent = r THEN l[i].extension ELSE 0]
    BY <1>4 DEF Extensions
  <1>6. Taxes(o) = [i \in 1..n |-> IF l[i].percent = r THEN l[i].tax ELSE 0]
    BY <1>4 DEF Taxes
  <1>7. Masked(Extensions(l), Rates(p), r) =
           [i \in 1..n |-> IF l[i].percent = r THEN l[i].extension ELSE 0]
    BY <1>2, <1>3 DEF Masked
  <1>8. Masked(Taxes(l), Rates(p), r) =
           [i \in 1..n |-> IF l[i].percent = r THEN l[i].tax ELSE 0]
    BY <1>2, <1>3 DEF Masked
  <1>9. QED
    BY <1>5, <1>6, <1>7, <1>8 DEF o, l

\* The subtotals add up to what the lines add up to.
LEMMA SubtotalsAddUp ==
    ASSUME NEW p \in Payload
    PROVE  /\ Total(Extensions(SubtotalLines(p))) = Total(Extensions(Lines(p)))
           /\ Total(Taxes(SubtotalLines(p))) = Total(Taxes(Lines(p)))
  <1> DEFINE l == Lines(p)
             n == Len(l)
             R == Rates(p)
             x == Extensions(l)
             y == Taxes(l)
             F == Extensions(SubtotalLines(p))
             G == Taxes(SubtotalLines(p))
             First(i) == \A j \in 1..i-1 : R[j] # R[i]
  <1>1. n \in Nat /\ DOMAIN l = 1..n /\ \A i \in 1..n : R[i] = l[i].percent
    BY LinesType DEF Rates
  <1>2. x \in Seq(Int) /\ Len(x) = n /\ y \in Seq(Int) /\ Len(y) = n
    BY AmountsType
  <1>3. \A i \in 1..n : /\ TaxSubtotals(p)[R[i]].taxable = Total(Masked(x, R, R[i]))
                        /\ TaxSubtotals(p)[R[i]].tax = Total(Masked(y, R, R[i]))
    <2>1. ASSUME NEW i \in 1..n
          PROVE  TaxSubtotals(p)[R[i]] =
                    [taxable |-> Total(Extensions(OfRate(l, R[i]))),
                     tax     |-> Total(Taxes(OfRate(l, R[i])))]
      <3>1. R[i] \in {l[k].percent : k \in DOMAIN l}
        BY <1>1
      <3>2. QED
        BY <3>1 DEF TaxSubtotals
    <2>2. \A r : /\ Extensions(OfRate(l, r)) = Masked(x, R, r)
                 /\ Taxes(OfRate(l, r)) = Masked(y, R, r)
      BY GroupIsMasked
    <2> HIDE DEF l, n, R, x, y
    <2>3. ASSUME NEW i \in 1..n
          PROVE  /\ TaxSubtotals(p)[R[i]].taxable = Total(Masked(x, R, R[i]))
                 /\ TaxSubtotals(p)[R[i]].tax = Total(Masked(y, R, R[i]))
      <3>1. TaxSubtotals(p)[R[i]] = [taxable |-> Total(Masked(x, R, R[i])),
                                     tax     |-> Total(Masked(y, R, R[i]))]
        BY <2>1, <2>2, Zenon
      <3>2. QED
        BY <3>1
    <2>4. QED
      BY <2>3
  <1>4. \A r : Total(Masked(x, R, r)) \in Int /\ Total(Masked(y, R, r)) \in Int
    BY <1>2, MaskedType, TotalType
  <1>5. \A i \in 1..n : First(i) <=> \A j \in 1..i-1 : l[j].percent # l[i].percent
    BY <1>1
  <1>6. /\ DOMAIN SubtotalLines(p) = 1..n
        /\ \A i \in 1..n :
              SubtotalLines(p)[i] =
                 [extension |-> IF First(i) THEN TaxSubtotals(p)[R[i]].taxable ELSE 0,
                  tax       |-> IF First(i) THEN TaxSubtotals(p)[R[i]].tax ELSE 0]
    BY <1>1, <1>5 DEF SubtotalLines
  <1> HIDE DEF l, n, R, x, y, First
  <1>7. /\ DOMAIN F = 1..n /\ DOMAIN G = 1..n
        /\ \A i \in 1..n :
              /\ F[i] = IF First(i) THEN Total(Masked(x, R, R[i])) ELSE 0
              /\ G[i] = IF First(i) THEN Total(Masked(y, R, R[i])) ELSE 0
    BY <1>3, <1>6 DEF Extensions, Taxes
  <1>8. F = [i \in 1..n |-> F[i]] /\ G = [i \in 1..n |-> G[i]]
    BY <1>6 DEF Extensions, Taxes
  <1> HIDE DEF F, G
  <1>9. F \in [1..n -> Int] /\ G \in [1..n -> Int]
    BY <1>4, <1>7, <1>8
  <1>10. F \in Seq(Int) /\ Len(F) = n /\ G \in Seq(Int) /\ Len(G) = n
    BY <1>1, <1>9, FunctionIsSeq
  <1>11. Total(F) = Total(x)
    <2>1. Len(F) = Len(x) /\ \A i \in 1..Len(x) :
             F[i] = IF \A j \in 1..i-1 : R[j] # R[i] THEN Total(Masked(x, R, R[i])) ELSE 0
      BY <1>2, <1>7, <1>10 DEF First
    <2>2. QED
      BY <1>2, <1>10, <2>1, GroupsAddUp, ZenonT(40)
  <1>12. Total(G) = Total(y)
    <2>1. Len(G) = Len(y) /\ \A i \in 1..Len(y) :
             G[i] = IF \A j \in 1..i-1 : R[j] # R[i] THEN Total(Masked(y, R, R[i])) ELSE 0
      BY <1>2, <1>7, <1>10 DEF First
    <2>2. QED
      BY <1>2, <1>10, <2>1, GroupsAddUp, ZenonT(40)
  <1>13. QED
    BY <1>11, <1>12 DEF F, G, x, y, l

\* The tax of a group is near the rate of what it taxes.
LEMMA SubtotalsAreNear ==
    ASSUME NEW p \in Payload, p.lines # <<>>, NEW r \in DOMAIN TaxSubtotals(p)
    PROVE  Near(TaxSubtotals(p)[r].taxable * r, TaxSubtotals(p)[r].tax, Len(Lines(p)))
  <1> DEFINE l == Lines(p)
             n == Len(l)
             R == Rates(p)
             x == Extensions(l)
             y == Taxes(l)
             s == Masked(x, R, r)
             t == Masked(y, R, r)
  <1>1. /\ n \in Nat /\ n = Len(p.lines) /\ DOMAIN l = 1..n
        /\ \A i \in 1..n : l[i] = ComputedLine(p.lines[i]) /\ R[i] = l[i].percent
    BY LinesType DEF Rates
  <1>2. \A i \in 1..n : p.lines[i] \in [quantity : Int, price : Int, percent : Int]
    BY <1>1, DocumentsAssumption, ElementOfSeq
  <1>3. /\ x \in Seq(Int) /\ Len(x) = n /\ y \in Seq(Int) /\ Len(y) = n
        /\ \A i \in 1..n : x[i] = l[i].extension /\ y[i] = l[i].tax
    BY AmountsType
  <1>4. s \in Seq(Int) /\ Len(s) = n /\ t \in Seq(Int) /\ Len(t) = n
    <2> HIDE DEF x, y, R, n
    <2>1. s \in Seq(Int) /\ Len(s) = Len(x) /\ t \in Seq(Int) /\ Len(t) = Len(y)
      BY <1>3, MaskedType, Zenon
    <2>2. QED
      BY <1>3, <2>1, Zenon
  <1>5. r \in Int
    <2>1. r \in {l[i].percent : i \in DOMAIN l}
      BY DEF TaxSubtotals
    <2>2. PICK i \in 1..n : r = l[i].percent
      BY <1>1, <2>1
    <2>3. l[i].percent = p.lines[i].percent
      BY <1>1, <1>2, ComputedType
    <2>4. QED
      BY <1>2, <2>2, <2>3
  <1>6. TaxSubtotals(p)[r].taxable = Total(s) /\ TaxSubtotals(p)[r].tax = Total(t)
    <2>1. TaxSubtotals(p)[r] = [taxable |-> Total(Extensions(OfRate(l, r))),
                                tax     |-> Total(Taxes(OfRate(l, r)))]
      BY DEF TaxSubtotals
    <2>2. QED
      BY <2>1, GroupIsMasked
  <1>7. ASSUME NEW i \in 1..n
        PROVE  Near(s[i] * r, t[i], 1)
    <2>1. /\ s[i] = IF R[i] = r THEN x[i] ELSE 0
          /\ t[i] = IF R[i] = r THEN y[i] ELSE 0
      BY <1>3 DEF Masked
    <2> HIDE DEF s, t, x, y, R, l, n
    <2>2. CASE R[i] = r
      <3>1. /\ Near(l[i].extension * p.lines[i].percent, l[i].tax, 1)
            /\ l[i].percent = p.lines[i].percent
        BY <1>1, <1>2, ComputedType
      <3>2. Near(l[i].extension * r, l[i].tax, 1)
        BY <1>1, <2>2, <3>1
      <3>3. QED
        BY <1>3, <2>1, <2>2, <3>2
    <2>3. CASE R[i] # r
      <3>1. s[i] = 0 /\ t[i] = 0
        BY <2>1, <2>3
      <3>2. QED
        BY <1>5, <3>1 DEF Near
    <2>4. QED
      BY <2>2, <2>3
  <1> HIDE DEF s, t, n
  <1>8. Near(Total(s) * r, Total(t), n)
    <2>1. Len(t) = Len(s) /\ \A i \in 1..Len(s) : Near(s[i] * r, t[i], 1)
      BY <1>4, <1>7
    <2>2. Near(Total(s) * r, Total(t), Len(s))
      BY <1>4, <1>5, <2>1, TotalIsNear
    <2>3. QED
      BY <1>4, <2>2
  <1>9. QED
    BY <1>6, <1>8 DEF n

\* What validate accepted.
Valid(p) == ValidInvoice(p) \/ ValidPayroll(p) \/ ValidSupport(p)

\* What is generated is valid, and no number of a type and prefix is used twice.
Accepted ==
    /\ generated \in Seq(Payload)
    /\ \A i \in DOMAIN generated : Valid(generated[i])
    /\ \A i, j \in DOMAIN generated : i # j =>
          <<generated[i].type, generated[i].prefix, generated[i].number>>
             # <<generated[j].type, generated[j].prefix, generated[j].number>>

\* What generate_*_xml has generated passed validate, under a number of its own.
LEMMA AcceptedHolds == GenerateSpec => []Accepted
  <1>1. GenerateInit => Accepted
    <2> SUFFICES ASSUME GenerateInit PROVE Accepted
      OBVIOUS
    <2>1. generated = <<>>
      BY DEF GenerateInit
    <2>2. QED
      BY <2>1 DEF Accepted
  <1>2. ASSUME Accepted, NEW p \in Payload, Generate(p)
        PROVE  Accepted'
    <2>1. Unused(p) /\ Valid(p) /\ generated' = Append(generated, p)
      BY <1>2 DEF Generate, GenerateInvoice, GeneratePayroll, GenerateSupport, Valid
    <2>2. generated \in Seq(Payload)
      BY <1>2 DEF Accepted
    <2> DEFINE n == Len(generated)
    <2>3. /\ n \in Nat /\ generated' \in Seq(Payload) /\ DOMAIN generated = 1..n
          /\ DOMAIN generated' = 1..n+1 /\ generated'[n + 1] = p
          /\ \A i \in 1..n : generated'[i] = generated[i]
      BY <2>1, <2>2
    <2>4. \A i \in 1..n+1 : i \in 1..n \/ i = n + 1
      BY <2>3
    <2> HIDE DEF n
    <2>5. \A i \in DOMAIN generated' : Valid(generated'[i])
      BY <1>2, <2>1, <2>3, <2>4 DEF Accepted
    <2>6. ASSUME NEW i \in DOMAIN generated', NEW j \in DOMAIN generated', i # j
          PROVE  <<generated'[i].type, generated'[i].prefix, generated'[i].number>>
                    # <<generated'[j].type, generated'[j].prefix, generated'[j].number>>
      <3>1. CASE i \in 1..n /\ j \in 1..n
        BY <1>2, <2>3, <2>6, <3>1 DEF Accepted
      <3>2. CASE i = n + 1
        <4>1. j \in 1..n
          BY <2>3, <2>4, <2>6, <3>2
        <4>2. QED
          BY <2>1, <2>3, <3>2, <4>1 DEF Unused
      <3>3. CASE j = n + 1
        <4>1. i \in 1..n
          BY <2>3, <2>4, <2>6, <3>3
        <4>2. QED
          BY <2>1, <2>3, <3>3, <4>1 DEF Unused
      <3>4. QED
        BY <2>3, <2>4, <3>1, <3>2, <3>3
    <2>7. QED
      BY <2>3, <2>5, <2>6 DEF Accepted, Valid
  <1>3. Accepted /\ UNCHANGED generated => Accepted'
    BY DEF Accepted
  <1>4. Accepted /\ [\E p \in Payload : Generate(p)]_generated => Accepted'
    BY <1>2, <1>3
  <1>5. QED
    BY <1>1, <1>4, PTL DEF GenerateSpec

\* The amounts of what validate accepts.
LEMMA ValidAddsUp ==
    ASSUME NEW p \in Payload, Valid(p), p.type # "payroll"
    PROVE  /\ Total(Extensions(Lines(p))) = ToAmount(p.net)
           /\ Total(Taxes(Lines(p))) = ToAmount(p.tax)
           /\ ToAmount(p.net) + ToAmount(p.tax) = ToAmount(p.total)
  <1>1. ValidAmounts(p) /\ p.net + p.tax = p.total /\ ComputeLines(p)
    BY DEF Valid, ValidInvoice, ValidPayroll, ValidSupport
  <1>2. p.net \in Int /\ p.tax \in Int /\ p.total \in Int
    BY DocumentsAssumption
  <1>3. ToAmount(p.net) + ToAmount(p.tax) = ToAmount(p.total)
    BY <1>1, <1>2 DEF ValidAmounts, IsAmount, ToAmount
  <1>4. CASE p.lines # <<>>
    BY <1>1, <1>3, <1>4 DEF ComputeLines
  <1>5. CASE p.lines = <<>>
    <2>1. ToAmount(p.net) \in Int /\ ToAmount(p.tax) \in Int
      BY <1>2 DEF ToAmount
    <2> DEFINE a == ToAmount(p.net)
               b == ToAmount(p.tax)
               l == SyntheticLine(a, b)
    <2>2. Lines(p) = <<l>>
      BY <1>5 DEF Lines
    <2>3. l.extension = a /\ l.tax = b
      BY DEF SyntheticLine
    <2> HIDE DEF a, b, l
    <2>4. Len(Lines(p)) = 1 /\ Lines(p)[1] = l
      BY <2>2
    <2>5. Extensions(Lines(p)) = <<a>> /\ Taxes(Lines(p)) = <<b>>
      BY <2>3, <2>4, AmountsType
    <2>6. Total(<<a>>) = a /\ Total(<<b>>) = b
      BY <2>1, TotalOne DEF a, b
    <2>7. QED
      BY <1>3, <2>5, <2>6 DEF a, b
  <1>6. QED
    BY <1>4, <1>5

\* The amounts of every generated document agree to the cent (compute_lines and
\* tax_subtotals), whatever its lines, rates and number of lines.
THEOREM AmountsAddUpHolds == GenerateSpec => []AmountsAddUp
  <1>1. Accepted => AmountsAddUp
    <2> SUFFICES ASSUME Accepted, NEW i \in DOMAIN generated,
                        generated[i].type # "payroll"
                 PROVE  LET p == generated[i] IN
                        /\ Total(Extensions(Lines(p))) = ToAmount(p.net)
                        /\ Total(Taxes(Lines(p))) = ToAmount(p.tax)
                        /\ Total(Extensions(SubtotalLines(p))) = ToAmount(p.net)
                        /\ Total(Taxes(SubtotalLines(p))) = ToAmount(p.tax)
                        /\ ToAmount(p.net) + ToAmount(p.tax) = ToAmount(p.total)
                        /\ p.lines # <<>> =>
                             \A r \in DOMAIN TaxSubtotals(p) :
                                Near(TaxSubtotals(p)[r].taxable * r,
                                     TaxSubtotals(p)[r].tax, Len(Lines(p)))
      BY DEF AmountsAddUp, Near
    <2> DEFINE p == generated[i]
    <2>1. p \in Payload /\ Valid(p) /\ p.type # "payroll"
      BY DEF Accepted
    <2> HIDE DEF p
    <2>2. /\ Total(Extensions(Lines(p))) = ToAmount(p.net)
          /\ Total(Taxes(Lines(p))) = ToAmount(p.tax)
          /\ ToAmount(p.net) + ToAmount(p.tax) = ToAmount(p.total)
      BY <2>1, ValidAddsUp
    <2>3. /\ Total(Extensions(SubtotalLines(p))) = Total(Extensions(Lines(p)))
          /\ Total(Taxes(SubtotalLines(p))) = Total(Taxes(Lines(p)))
      BY <2>1, SubtotalsAddUp
    <2>4. p.lines # <<>> =>
             \A r \in DOMAIN TaxSubtotals(p) :
                Near(TaxSubtotals(p)[r].taxable * r, TaxSubtotals(p)[r].tax, Len(Lines(p)))
      BY <2>1, SubtotalsAreNear
    <2>5. QED
      BY <2>2, <2>3, <2>4, Zenon DEF p
  <1>2. QED
    BY <1>1, AcceptedHolds, PTL

-----------------------------------------------------------------------------
(* Numbers and their digits.                                               *)

\* A sequence, of whatever.
IsSeq(s) == \E S : s \in Seq(S)

\* At most one number of digits is the least.
LEMMA WidthIsOne ==
    ASSUME NEW n, NEW j \in Nat, NEW k \in Nat, j > 0, k > 0, Width(n, j), Width(n, k)
    PROVE  j = k
  <1>1. CASE j < k
    <2>1. j \in 1..(k - 1)
      BY <1>1
    <2>2. QED
      BY <2>1, Zenon DEF Width
  <1>2. CASE k < j
    <2>1. k \in 1..(j - 1)
      BY <1>2
    <2>2. QED
      BY <2>1, Zenon DEF Width
  <1>3. QED
    BY <1>1, <1>2

\* An i32 has at most ten digits.
LEMMA I32Digits == MaxI32 \in Nat /\ MaxI32 < 10^10
  <1>1. MaxI32 \in Nat
    BY IdentifiersAssumption, SMT
  <1>2. MaxI32 < 2147483648
    BY IdentifiersAssumption, SMT
  <1>3. MaxI32 < 10^10
    BY <1>1, <1>2, SMT
  <1>4. QED
    BY <1>1, <1>3, SMT

\* Ten digits are enough for a document number.
LEMMA WidthExists ==
    ASSUME NEW n \in 0..MaxI32
    PROVE  \E k \in 1..10 : Width(n, k)
  <1> DEFINE T == {k \in Nat : k > 0 /\ n < 10^k}
  <1>1. n < 10^10
    BY I32Digits, SMT
  <1>2. T \subseteq Nat /\ 10 \in T
    BY <1>1
  <1>3. PICK k \in T : \A m \in T : ~(m < k)
    <2> HIDE DEF T
    <2>1. QED
      BY <1>2, LeastExists
  <1>4. k \in 1..10
    <2>1. ~(10 < k)
      BY <1>2, <1>3, Zenon
    <2>2. k \in Nat /\ k > 0
      BY <1>3, Zenon
    <2>3. QED
      BY <2>1, <2>2
  <1>5. ASSUME NEW j \in 1..(k - 1)
        PROVE  ~(n < 10^j)
    <2>1. j \in Nat /\ j > 0 /\ j < k
      BY <1>4, <1>5
    <2>2. QED
      BY <1>3, <2>1
  <1>6. Width(n, k)
    BY <1>3, <1>5 DEF Width
  <1>7. QED
    BY <1>4, <1>6

\* The text of what has a width.
LEMMA DigitsAre ==
    ASSUME NEW n, NEW k \in 1..MaxDigits, Width(n, k)
    PROVE  /\ IsSeq(Digits(n)) /\ Len(Digits(n)) = k
           /\ \A i \in 1..k : Digits(n)[i] = (n \div 10^(k - i)) % 10
  <1> DEFINE c == CHOOSE i \in 1..MaxDigits : Width(n, i)
             f == [i \in 1..k |-> (n \div 10^(k - i)) % 10]
             S == {f[i] : i \in 1..k}
  <1>1. c \in 1..MaxDigits /\ Width(n, c)
    BY Zenon
  <1>2. c = k
    <2> HIDE DEF c
    <2>1. c \in Nat /\ c > 0 /\ k \in Nat /\ k > 0
      BY <1>1 DEF MaxDigits
    <2>2. QED
      BY <1>1, <2>1, WidthIsOne
  <1>3. Digits(n) = f
    BY <1>2, Zenon DEF Digits
  <1>4. k \in Nat /\ k > 0
    BY DEF MaxDigits
  <1> HIDE DEF c, f
  <1>5. DOMAIN f = 1..k /\ \A i \in 1..k : f[i] \in S
    BY Zenon DEF f
  <1>6. f = [i \in 1..k |-> f[i]]
    BY Zenon DEF f
  <1> HIDE DEF S
  <1>7. f \in Seq(S) /\ Len(f) = k
    BY <1>4, <1>5, <1>6
  <1>8. \A i \in 1..k : f[i] = (n \div 10^(k - i)) % 10
    BY Zenon DEF f
  <1>9. QED
    BY <1>3, <1>7, <1>8, Zenon DEF IsSeq

\* Digits of each power.
LEMMA DigitType ==
    ASSUME NEW n \in Nat, NEW j \in 0..9
    PROVE  (n \div 10^j) % 10 \in Digit
  <1>1. CASE j = 0  BY <1>1, SMT DEF Digit
  <1>2. CASE j = 1  BY <1>2, SMT DEF Digit
  <1>3. CASE j = 2  BY <1>3, SMT DEF Digit
  <1>4. CASE j = 3  BY <1>4, SMT DEF Digit
  <1>5. CASE j = 4  BY <1>5, SMT DEF Digit
  <1>6. CASE j = 5  BY <1>6, SMT DEF Digit
  <1>7. CASE j = 6  BY <1>7, SMT DEF Digit
  <1>8. CASE j = 7  BY <1>8, SMT DEF Digit
  <1>9. CASE j = 8  BY <1>9, SMT DEF Digit
  <1>10. CASE j = 9 BY <1>10, SMT DEF Digit
  <1>11. QED
    BY <1>1, <1>2, <1>3, <1>4, <1>5, <1>6, <1>7, <1>8, <1>9, <1>10

\* The text of a document number: from one to ten digits, which write it.
LEMMA NumberDigits ==
    ASSUME NEW n \in 0..MaxI32
    PROVE  /\ Digits(n) \in Seq(Digit) /\ Len(Digits(n)) \in 1..10
           /\ Writes(Digits(n), n)
  <1>1. PICK k \in 1..10 : Width(n, k)
    BY WidthExists
  <1>2. n \in Nat /\ k \in 1..MaxDigits /\ k \in Nat
    BY I32Digits DEF MaxDigits
  <1> DEFINE d == Digits(n)
  <1>3. /\ IsSeq(d) /\ Len(d) = k
        /\ \A i \in 1..k : d[i] = (n \div 10^(k - i)) % 10
    BY <1>1, <1>2, DigitsAre
  <1> HIDE DEF d
  <1>4. PICK S : d \in Seq(S)
    BY <1>3 DEF IsSeq
  <1>5. DOMAIN d = 1..k /\ d = [i \in 1..k |-> d[i]]
    BY <1>3, <1>4
  <1>6. \A i \in 1..k : d[i] \in Digit
    <2> TAKE i \in 1..k
    <2>1. k - i \in 0..9
      OBVIOUS
    <2>2. (n \div 10^(k - i)) % 10 \in Digit
      BY <1>2, <2>1, DigitType
    <2>3. QED
      BY <1>3, <2>2
  <1>7. d \in Seq(Digit)
    BY <1>2, <1>5, <1>6
  <1>8. Writes(d, n)
    BY <1>1, <1>3, <1>5, Zenon DEF Writes, Width
  <1>9. QED
    BY <1>3, <1>7, <1>8 DEF d

\* What is left of the digits of a number is told by what is left after one more
\* and that one.
LEMMA DigitsTell ==
    ASSUME NEW n \in Nat, NEW m \in Nat, NEW j \in 0..9,
           n \div 10^(j + 1) = m \div 10^(j + 1),
           (n \div 10^j) % 10 = (m \div 10^j) % 10
    PROVE  n \div 10^j = m \div 10^j
  <1>1. CASE j = 0  BY <1>1, SMT
  <1>2. CASE j = 1  BY <1>2, SMT
  <1>3. CASE j = 2  BY <1>3, SMT
  <1>4. CASE j = 3  BY <1>4, SMT
  <1>5. CASE j = 4  BY <1>5, SMT
  <1>6. CASE j = 5  BY <1>6, SMT
  <1>7. CASE j = 6  BY <1>7, SMT
  <1>8. CASE j = 7  BY <1>8, SMT
  <1>9. CASE j = 8  BY <1>9, SMT
  <1>10. CASE j = 9  BY <1>10, SMT
  <1>11. QED
    BY <1>1, <1>2, <1>3, <1>4, <1>5, <1>6, <1>7, <1>8, <1>9, <1>10

\* Nothing is left after all digits.
LEMMA NothingIsLeft ==
    ASSUME NEW n \in Nat, NEW j \in 1..10, n < 10^j
    PROVE  n \div 10^j = 0
  <1>1. CASE j = 1  BY <1>1, SMT
  <1>2. CASE j = 2  BY <1>2, SMT
  <1>3. CASE j = 3  BY <1>3, SMT
  <1>4. CASE j = 4  BY <1>4, SMT
  <1>5. CASE j = 5  BY <1>5, SMT
  <1>6. CASE j = 6  BY <1>6, SMT
  <1>7. CASE j = 7  BY <1>7, SMT
  <1>8. CASE j = 8  BY <1>8, SMT
  <1>9. CASE j = 9  BY <1>9, SMT
  <1>10. CASE j = 10  BY <1>10, SMT
  <1>11. QED
    BY <1>1, <1>2, <1>3, <1>4, <1>5, <1>6, <1>7, <1>8, <1>9, <1>10

\* Two numbers that the same digits write are one: from the first digit on, what
\* is read of one is what is read of the other.
LEMMA WritesOne ==
    ASSUME NEW d, NEW n \in Nat, NEW m \in Nat, DOMAIN d = 1..Len(d), Len(d) \in 1..10,
           Writes(d, n), Writes(d, m)
    PROVE  n = m
  <1> DEFINE L == Len(d)
             S == {i \in Nat : i <= L => n \div 10^(L - i) = m \div 10^(L - i)}
  <1>1. L \in 1..10 /\ n < 10^L /\ m < 10^L
    BY DEF Writes
  <1>2. ASSUME NEW j \in 0..(L - 1)
        PROVE  (n \div 10^j) % 10 = (m \div 10^j) % 10
    <2>1. L - j \in DOMAIN d /\ L - (L - j) = j
      BY <1>1
    <2>2. /\ d[L - j] = (n \div 10^(L - (L - j))) % 10
          /\ d[L - j] = (m \div 10^(L - (L - j))) % 10
      BY <2>1, Zenon DEF Writes
    <2>3. QED
      BY <2>1, <2>2, Zenon
  <1> HIDE DEF L
  <1>3. 0 \in S
    <2>1. n \div 10^L = 0 /\ m \div 10^L = 0 /\ L - 0 = L
      BY <1>1, NothingIsLeft
    <2>2. n \div 10^(L - 0) = m \div 10^(L - 0)
      BY <2>1, Zenon
    <2>3. QED
      BY <2>2
  <1>4. ASSUME NEW i \in Nat, i \in S
        PROVE  i + 1 \in S
    <2> DEFINE j == L - (i + 1)
    <2>1. SUFFICES ASSUME i + 1 <= L PROVE n \div 10^j = m \div 10^j
      OBVIOUS
    <2>2. j \in 0..9 /\ j \in 0..(L - 1) /\ L - i = j + 1 /\ i <= L
      BY <1>1, <2>1
    <2>3. n \div 10^(L - i) = m \div 10^(L - i)
      BY <1>4, <2>2
    <2> HIDE DEF j
    <2>4. n \div 10^(j + 1) = m \div 10^(j + 1)
      BY <2>2, <2>3, Zenon
    <2>5. QED
      BY <1>2, <2>2, <2>4, DigitsTell
  <1>5. \A i \in Nat : i \in S
    <2> HIDE DEF S
    <2>1. QED
      BY <1>3, <1>4, SetInduction
  <1>6. n \div 10^(L - L) = m \div 10^(L - L) /\ L - L = 0
    <2>1. L \in Nat /\ L <= L /\ L - L = 0
      BY <1>1
    <2>2. L \in S
      BY <1>5, <2>1, Zenon
    <2>3. QED
      BY <2>1, <2>2, Zenon
  <1>7. n \div 10^0 = m \div 10^0
    BY <1>6, Zenon
  <1>8. QED
    BY <1>7, SMT

-----------------------------------------------------------------------------
(* Splitting a number.                                                     *)

\* What follows a prefix, in the sequence of both.
LEMMA Follows ==
    ASSUME NEW S, NEW s \in Seq(S), NEW t \in Seq(S)
    PROVE  /\ s \o t \in Seq(S) /\ Len(s \o t) = Len(s) + Len(t)
           /\ DOMAIN (s \o t) = 1..Len(s) + Len(t)
           /\ \A i \in 1..Len(s) : (s \o t)[i] = s[i]
           /\ \A i \in 1..Len(t) : (s \o t)[Len(s) + i] = t[i]
           /\ SubSeq(s \o t, 1, Len(s)) = s
           /\ SubSeq(s \o t, Len(s) + 1, Len(s \o t)) = t
  <1> DEFINE u == s \o t
             a == Len(s)
             b == Len(t)
  <1>1. a \in Nat /\ b \in Nat
    OBVIOUS
  <1>2. /\ u \in Seq(S) /\ Len(u) = a + b
        /\ \A i \in 1..a + b : u[i] = IF i <= a THEN s[i] ELSE t[i - a]
    BY ConcatProperties
  <1> HIDE DEF u
  <1>3. DOMAIN u = 1..a + b /\ \A i \in 1..a + b : u[i] \in S
    BY <1>2
  <1>4. \A i \in 1..a : u[i] = s[i]
    BY <1>1, <1>2
  <1>5. \A i \in 1..b : u[a + i] = t[i]
    <2> TAKE i \in 1..b
    <2>1. a + i \in 1..a + b /\ ~(a + i <= a) /\ (a + i) - a = i
      BY <1>1
    <2>2. QED
      BY <1>2, <2>1
  <1>6. SubSeq(u, 1, a) = s
    <2> DEFINE x == SubSeq(u, 1, a)
    <2>1. 1 \in Int /\ a \in Int /\ \A i \in 1..a : u[i] \in S
      BY <1>1, <1>3
    <2>2. /\ x \in Seq(S) /\ Len(x) = IF 1 <= a THEN a - 1 + 1 ELSE 0
          /\ \A i \in 1..a - 1 + 1 : x[i] = u[1 + i - 1]
      BY <2>1, SubSeqProperties
    <2> HIDE DEF x
    <2>3. Len(x) = a /\ \A i \in 1..a : x[i] = s[i]
      BY <1>1, <1>4, <2>2
    <2>4. QED
      BY <2>2, <2>3, SeqEqual DEF x
  <1>7. SubSeq(u, a + 1, a + b) = t
    <2> DEFINE x == SubSeq(u, a + 1, a + b)
    <2>1. a + 1 \in Int /\ a + b \in Int /\ \A i \in a + 1..a + b : u[i] \in S
      BY <1>1, <1>3
    <2>2. /\ x \in Seq(S)
          /\ Len(x) = IF a + 1 <= a + b THEN (a + b) - (a + 1) + 1 ELSE 0
          /\ \A i \in 1..(a + b) - (a + 1) + 1 : x[i] = u[(a + 1) + i - 1]
      BY <2>1, SubSeqProperties
    <2> HIDE DEF x
    <2>3. Len(x) = b
      BY <1>1, <2>2
    <2>4. \A i \in 1..b : x[i] = t[i]
      <3> TAKE i \in 1..b
      <3>1. i \in 1..(a + b) - (a + 1) + 1 /\ (a + 1) + i - 1 = a + i
        BY <1>1
      <3>2. QED
        BY <1>5, <2>2, <3>1
    <2>5. QED
      BY <2>2, <2>3, <2>4, SeqEqual DEF x
  <1>8. QED
    BY <1>2, <1>3, <1>4, <1>5, <1>6, <1>7 DEF u

\* A sequence with a length has something.
LEMMA NotEmpty ==
    ASSUME NEW S, NEW d \in Seq(S), Len(d) \in 1..10
    PROVE  d # <<>>
  <1>1. Len(<<>>) = 0 /\ Len(d) # 0
    OBVIOUS
  <1>2. QED
    BY <1>1, Zenon

\* Where the digits of a number end a text, the text splits into the prefix and
\* the number.
LEMMA SplitsAt ==
    ASSUME NEW id, NEW n \in 0..MaxI32, NEW start, NEW end,
           SubSeq(id, start, Len(id)) = Digits(n)
    PROVE  SplitAt(id, end, start) = [prefix |-> SubSeq(id, 1, end), number |-> n]
  <1> DEFINE d == Digits(n)
  <1>1. d \in Seq(Digit) /\ Len(d) \in 1..10 /\ Writes(d, n)
    BY NumberDigits
  <1> HIDE DEF d
  <1>2. d # <<>> /\ DOMAIN d = 1..Len(d) /\ \A i \in DOMAIN d : IsDigit(d[i])
    <2>1. DOMAIN d = 1..Len(d) /\ \A i \in DOMAIN d : d[i] \in Digit
      BY <1>1
    <2>2. d # <<>>
      BY <1>1, NotEmpty, Zenon
    <2>3. QED
      BY <2>1, <2>2, Zenon DEF IsDigit
  <1>3. \A m \in 0..MaxI32 : Writes(d, m) => m = n
    <2> SUFFICES ASSUME NEW m \in 0..MaxI32, Writes(d, m) PROVE m = n
      OBVIOUS
    <2>1. m \in Nat /\ n \in Nat
      BY I32Digits
    <2>2. QED
      BY <1>1, <1>2, <2>1, WritesOne
  <1>4. (CHOOSE m \in 0..MaxI32 : Writes(d, m)) = n
    BY <1>1, <1>3, Zenon
  <1>5. SubSeq(id, start, Len(id)) = d
    BY DEF d
  <1>6. QED
    BY <1>1, <1>2, <1>4, <1>5, Zenon DEF SplitAt

\* A number without a separator, and with a hyphen.
LEMMA SplitsBack ==
    ASSUME NEW x \in Seq(Int), Lettered(x), NEW n \in 0..MaxI32
    PROVE  /\ SplitDocumentId(x \o Digits(n)) = [prefix |-> x, number |-> n]
           /\ SplitDocumentId(x \o <<Hyphen>> \o Digits(n)) = [prefix |-> x, number |-> n]
  <1> DEFINE d == Digits(n)
             a == Len(x)
             k == Len(d)
  <1>1. d \in Seq(Digit) /\ k \in 1..10
    BY NumberDigits
  <1>2. d \in Seq(Int) /\ a \in Nat /\ DOMAIN x = 1..a /\ DOMAIN d = 1..k
    BY <1>1 DEF Digit
  <1>3. \A i \in 1..k : IsDigit(d[i]) /\ d[i] # Hyphen
    BY <1>1 DEF IsDigit, Digit, Hyphen
  <1> HIDE DEF d
  <1>4. SplitDocumentId(x \o d) = [prefix |-> x, number |-> n]
    <2> DEFINE id == x \o d
               digits == {i \in DOMAIN id : IsDigit(id[i])}
               c == CHOOSE i \in digits : \A j \in digits : i <= j
    <2>1. /\ Len(id) = a + k /\ DOMAIN id = 1..a + k
          /\ \A i \in 1..a : id[i] = x[i]
          /\ \A i \in 1..k : id[a + i] = d[i]
          /\ SubSeq(id, 1, a) = x /\ SubSeq(id, a + 1, Len(id)) = d
      BY <1>2, Follows
    <2> HIDE DEF id
    <2>2. ASSUME NEW i \in 1..a + k
          PROVE  id[i] # Hyphen /\ (i <= a => ~IsDigit(id[i])) /\ (i > a => IsDigit(id[i]))
      <3>1. CASE i <= a
        <4>1. i \in 1..a /\ ~(i > a)
          BY <1>2, <3>1
        <4>2. QED
          BY <1>2, <2>1, <4>1, Zenon DEF Lettered
      <3>2. CASE i > a
        <4>1. i - a \in 1..k /\ a + (i - a) = i
          BY <1>1, <1>2, <3>2
        <4>2. id[i] = d[i - a]
          BY <2>1, <4>1
        <4>3. QED
          BY <1>2, <1>3, <3>2, <4>1, <4>2
      <3>3. QED
        BY <1>1, <1>2, <3>1, <3>2
    <2>3. {i \in DOMAIN id : id[i] = Hyphen} = {}
      BY <2>1, <2>2
    <2>4. a + 1 \in digits /\ \A j \in digits : a + 1 <= j
      <3>1. a + 1 \in 1..a + k /\ a + 1 > a
        BY <1>1, <1>2
      <3>2. a + 1 \in digits
        BY <2>1, <2>2, <3>1, Zenon
      <3>3. ASSUME NEW j \in digits
            PROVE  a + 1 <= j
        <4>1. j \in 1..a + k /\ IsDigit(id[j])
          BY <2>1, Zenon
        <4>2. ~(j <= a)
          BY <2>2, <4>1, Zenon
        <4>3. QED
          BY <1>1, <1>2, <4>1, <4>2
      <3>4. QED
        BY <3>2, <3>3
    <2>5. digits \subseteq Int
      BY <2>1
    <2>6. c = a + 1
      <3> HIDE DEF digits
      <3>1. c \in digits /\ \A j \in digits : c <= j
        BY <2>4, Zenon
      <3>2. c <= a + 1 /\ a + 1 <= c /\ c \in Int
        BY <2>4, <2>5, <3>1
      <3> HIDE DEF c
      <3>3. QED
        BY <1>2, <3>2
    <2>7. digits # {}
      BY <2>4
    <2>8. SplitDocumentId(id) = SplitAt(id, c - 1, c)
      BY <2>3, <2>7, Zenon DEF SplitDocumentId
    <2>9. c - 1 = a
      <3> HIDE DEF c
      <3>1. QED
        BY <1>2, <2>6
    <2> HIDE DEF c, digits
    <2>10. SplitAt(id, a, a + 1) = [prefix |-> SubSeq(id, 1, a), number |-> n]
      <3>1. SubSeq(id, a + 1, Len(id)) = Digits(n)
        BY <2>1, Zenon DEF d
      <3> HIDE DEF a
      <3>2. QED
        BY <3>1, SplitsAt
    <2>11. QED
      BY <2>1, <2>6, <2>8, <2>9, <2>10, Zenon DEF id
  <1>5. SplitDocumentId(x \o <<Hyphen>> \o d) = [prefix |-> x, number |-> n]
    <2> DEFINE y == x \o <<Hyphen>>
               id == y \o d
               hyphens == {i \in DOMAIN id : id[i] = Hyphen}
               c == CHOOSE i \in hyphens : \A j \in hyphens : j <= i
    <2>1. <<Hyphen>> \in Seq(Int) /\ Len(<<Hyphen>>) = 1 /\ <<Hyphen>>[1] = Hyphen
      BY DEF Hyphen
    <2>2. /\ y \in Seq(Int) /\ Len(y) = a + 1
          /\ \A i \in 1..a : y[i] = x[i]
          /\ y[a + 1] = Hyphen
          /\ SubSeq(y, 1, a) = x
      BY <1>2, <2>1, Follows
    <2> HIDE DEF y
    <2>3. /\ Len(id) = a + 1 + k /\ DOMAIN id = 1..a + 1 + k /\ id \in Seq(Int)
          /\ \A i \in 1..a + 1 : id[i] = y[i]
          /\ \A i \in 1..k : id[a + 1 + i] = d[i]
          /\ SubSeq(id, a + 1 + 1, Len(id)) = d
      <3>1. /\ id \in Seq(Int) /\ Len(id) = Len(y) + k
            /\ DOMAIN id = 1..Len(y) + k
            /\ \A i \in 1..Len(y) : id[i] = y[i]
            /\ \A i \in 1..k : id[Len(y) + i] = d[i]
            /\ SubSeq(id, Len(y) + 1, Len(id)) = d
        <4>1. y \in Seq(Int) /\ d \in Seq(Int)
          BY <1>2, <2>2, Zenon
        <4>2. QED
          BY <4>1, Follows
      <3>2. QED
        BY <2>2, <3>1, Zenon
    <2> HIDE DEF id
    <2>4. ASSUME NEW i \in 1..a + 1 + k
          PROVE  id[i] = Hyphen <=> i = a + 1
      <3>1. CASE i <= a
        <4>1. i \in 1..a /\ i \in 1..a + 1 /\ i # a + 1
          BY <1>2, <3>1
        <4>2. QED
          BY <1>2, <2>2, <2>3, <4>1, Zenon DEF Lettered
      <3>2. CASE i = a + 1
        <4>1. a + 1 \in 1..a + 1
          BY <1>2
        <4>2. QED
          BY <2>2, <2>3, <3>2, <4>1
      <3>3. CASE i > a + 1
        <4>1. i - (a + 1) \in 1..k /\ a + 1 + (i - (a + 1)) = i
          BY <1>1, <1>2, <3>3
        <4>2. id[i] = d[i - (a + 1)]
          BY <2>3, <4>1
        <4>3. QED
          BY <1>2, <1>3, <3>3, <4>1, <4>2
      <3>4. QED
        BY <1>1, <1>2, <3>1, <3>2, <3>3
    <2>5. hyphens = {a + 1}
      BY <1>1, <1>2, <2>3, <2>4
    <2>6. c = a + 1
      <3> HIDE DEF hyphens
      <3>1. a + 1 <= a + 1
        BY <1>2
      <3>2. QED
        BY <2>5, <3>1, Zenon
    <2>7. SplitDocumentId(id) = SplitAt(id, c - 1, c + 1)
      <3>1. hyphens # {}
        BY <2>5
      <3>2. QED
        BY <3>1, Zenon DEF SplitDocumentId
    <2>8. c - 1 = a /\ c + 1 = a + 1 + 1
      <3> HIDE DEF c
      <3>1. QED
        BY <1>2, <2>6
    <2> HIDE DEF c, hyphens
    <2>9. SplitAt(id, a, a + 1 + 1) = [prefix |-> SubSeq(id, 1, a), number |-> n]
      <3>1. SubSeq(id, a + 1 + 1, Len(id)) = Digits(n)
        BY <2>3, Zenon DEF d
      <3> HIDE DEF a
      <3>2. QED
        BY <3>1, SplitsAt
    <2>10. SubSeq(id, 1, a) = x
      <3> DEFINE z == SubSeq(id, 1, a)
      <3>1. 1 \in Int /\ a \in Int /\ \A i \in 1..a : id[i] \in Int
        BY <1>1, <1>2, <2>3
      <3>2. /\ z \in Seq(Int) /\ Len(z) = IF 1 <= a THEN a - 1 + 1 ELSE 0
            /\ \A i \in 1..a - 1 + 1 : z[i] = id[1 + i - 1]
        BY <3>1, SubSeqProperties
      <3> HIDE DEF z
      <3>3. Len(z) = a
        BY <1>2, <3>2
      <3>4. ASSUME NEW i \in 1..a
            PROVE  z[i] = x[i]
        <4>1. i \in 1..a - 1 + 1 /\ 1 + i - 1 = i /\ i \in 1..a + 1
          BY <1>2
        <4>2. QED
          BY <2>2, <2>3, <3>2, <4>1
      <3>5. QED
        BY <3>2, <3>3, <3>4, SeqEqual DEF z
    <2>11. QED
      BY <2>7, <2>8, <2>9, <2>10, Zenon DEF id, y
  <1>6. QED
    BY <1>4, <1>5 DEF d

-----------------------------------------------------------------------------
(* Unique codes.                                                           *)

\* t is the beginning of s.
Begins(s, t) ==
    /\ IsSeq(s) /\ Len(t) \in Nat /\ Len(t) <= Len(s)
    /\ \A i \in 1..Len(t) : s[i] = t[i]

\* Texts put together are a text, and begin with the first.
LEMMA Joined ==
    ASSUME NEW s, NEW t, IsSeq(s), IsSeq(t)
    PROVE  IsSeq(s \o t) /\ Begins(s \o t, s)
  <1>1. PICK S : s \in Seq(S)
    BY DEF IsSeq
  <1>2. PICK T : t \in Seq(T)
    BY DEF IsSeq
  <1> DEFINE U == S \cup T
  <1>3. s \in Seq(U)
    <2>1. Len(s) \in Nat /\ s = [i \in 1..Len(s) |-> s[i]] /\ \A i \in 1..Len(s) : s[i] \in U
      BY <1>1
    <2> HIDE DEF U
    <2>2. QED
      BY <2>1
  <1>4. t \in Seq(U)
    <2>1. Len(t) \in Nat /\ t = [i \in 1..Len(t) |-> t[i]] /\ \A i \in 1..Len(t) : t[i] \in U
      BY <1>2
    <2> HIDE DEF U
    <2>2. QED
      BY <2>1
  <1> HIDE DEF U
  <1>5. /\ s \o t \in Seq(U) /\ Len(s \o t) = Len(s) + Len(t)
        /\ \A i \in 1..Len(s) : (s \o t)[i] = s[i]
    BY <1>3, <1>4, Follows
  <1>6. Len(s) \in Nat /\ Len(s) <= Len(s) + Len(t)
    BY <1>3, <1>4
  <1>7. IsSeq(s \o t)
    BY <1>5, Zenon DEF IsSeq
  <1>8. Len(s) <= Len(s \o t)
    BY <1>5, <1>6, Zenon
  <1>9. QED
    BY <1>5, <1>6, <1>7, <1>8, Zenon DEF Begins

\* A text that begins with another still does when more is put after it.
LEMMA StillBegins ==
    ASSUME NEW s, NEW t, NEW h, Begins(s, h), IsSeq(t)
    PROVE  Begins(s \o t, h)
  <1>1. IsSeq(s) /\ Len(h) \in Nat /\ Len(h) <= Len(s) /\ \A i \in 1..Len(h) : s[i] = h[i]
    BY DEF Begins
  <1>2. Begins(s \o t, s)
    BY <1>1, Joined
  <1>3. /\ IsSeq(s \o t) /\ Len(s) \in Nat /\ Len(s) <= Len(s \o t)
        /\ \A i \in 1..Len(s) : (s \o t)[i] = s[i]
    BY <1>2 DEF Begins
  <1>4. Len(s \o t) \in Nat
    <2>1. PICK S : s \o t \in Seq(S)
      BY <1>3 DEF IsSeq
    <2> DEFINE u == s \o t
    <2>2. u \in Seq(S)
      BY <2>1
    <2> HIDE DEF u
    <2>3. Len(u) \in Nat
      BY <2>2
    <2>4. QED
      BY <2>3 DEF u
  <1> DEFINE a == Len(h)
             b == Len(s)
             c == Len(s \o t)
  <1>5. a \in Nat /\ b \in Nat /\ c \in Nat /\ a <= b /\ b <= c
    BY <1>1, <1>3, <1>4
  <1> HIDE DEF a, b, c
  <1>6. a <= c /\ \A i \in 1..a : i \in 1..b
    BY <1>5
  <1>7. \A i \in 1..a : (s \o t)[i] = h[i]
    BY <1>1, <1>3, <1>6, Zenon DEF a, b
  <1>8. QED
    BY <1>1, <1>3, <1>6, <1>7, Zenon DEF a, b, c, Begins

\* The texts of amounts are texts.
LEMMA FormatsAmount ==
    ASSUME NEW v, \E k \in 1..MaxDigits : Width(ToAmount(v) \div 100, k)
    PROVE  IsSeq(FormatAmount(v))
  <1> DEFINE n == ToAmount(v) \div 100
             e == <<Dot, (ToAmount(v) \div 10) % 10, ToAmount(v) % 10>>
  <1>1. IsSeq(Digits(n))
    BY DigitsAre
  <1>2. IsSeq(e)
    <2>1. \A x, y, z : <<x, y, z>> \in Seq({x, y, z})
      OBVIOUS
    <2>2. QED
      BY <2>1, Zenon DEF IsSeq
  <1> HIDE DEF n, e
  <1>3. IsSeq(Digits(n) \o e)
    BY <1>1, <1>2, Joined
  <1>4. QED
    BY <1>3 DEF FormatAmount, n, e

\* What a code begins with.
CodeHead(p) == DocumentNumber(p) \o DateTime(p)

\* All three codes begin with prefix, number and date.
LEMMA CodeBegins ==
    ASSUME NEW p \in Payload, Valid(p)
    PROVE  Begins(Code(p), CodeHead(p))
  <1> DEFINE h == CodeHead(p)
  <1>1. \A x \in {p.prefix, p.nit, p.customer, p.key, p.environment} : x \in Seq(Int)
    BY DocumentsAssumption
  <1>2. /\ IsSeq(p.prefix) /\ IsSeq(p.nit) /\ IsSeq(p.customer) /\ IsSeq(p.key)
        /\ IsSeq(p.environment)
    BY <1>1, Zenon DEF IsSeq
  <1>3. ValidAmounts(p)
    BY DEF Valid, ValidInvoice, ValidPayroll, ValidSupport
  <1>4. IsSeq(FormatAmount(p.net)) /\ IsSeq(FormatAmount(p.tax)) /\ IsSeq(FormatAmount(p.total))
    <2>1. ASSUME NEW v \in {p.net, p.tax, p.total}
          PROVE  IsSeq(FormatAmount(v))
      <3>1. IsAmount(v)
        BY <1>3, Zenon DEF ValidAmounts
      <3>2. \E k \in 1..MaxDigits : Width(ToAmount(v) \div 100, k)
        BY <3>1, DocumentsAssumption, Zenon
      <3>3. QED
        BY <3>2, FormatsAmount
    <2>2. QED
      BY <2>1
  <1>5. IsSeq(FormatAmount(0))
    <2>1. ToAmount(0) \div 100 = 0
      BY DEF ToAmount
    <2>2. 0 \in 0..MaxI32
      BY I32Digits, SMT
    <2>3. PICK k \in 1..10 : Width(0, k)
      BY <2>2, WidthExists
    <2>4. k \in 1..MaxDigits
      BY DEF MaxDigits
    <2>5. QED
      BY <2>1, <2>3, <2>4, FormatsAmount, Zenon
  <1>6. \A x, y : IsSeq(<<x, y>>)
    <2>1. \A x, y : <<x, y>> \in Seq({x, y})
      OBVIOUS
    <2>2. QED
      BY <2>1, Zenon DEF IsSeq
  <1>7. IsSeq(<<1, 0, 2>>)
    <2>1. <<1, 0, 2>> \in Seq(Int)
      OBVIOUS
    <2>2. QED
      BY <2>1, Zenon DEF IsSeq
  <1>8. Begins(h, h)
    <2>1. p.number \in 0..MaxI32
      BY I32Digits, DocumentsAssumption, SMT
    <2>2. IsSeq(Digits(p.number))
      BY <2>1, NumberDigits, Zenon DEF IsSeq
    <2>3. IsSeq(DateTime(p))
      <3>1. \A a, b, c, d, e : <<a, b, c, d, e>> \in Seq({a, b, c, d, e})
        OBVIOUS
      <3>2. QED
        BY <3>1, Zenon DEF IsSeq, DateTime
    <2>4. IsSeq(DocumentNumber(p))
      BY <1>2, <2>2, Joined DEF DocumentNumber
    <2>5. IsSeq(h)
      BY <2>3, <2>4, Joined DEF CodeHead
    <2> HIDE DEF h
    <2>6. PICK S : h \in Seq(S)
      BY <2>5 DEF IsSeq
    <2>7. Len(h) \in Nat /\ Len(h) <= Len(h)
      BY <2>6
    <2>8. QED
      BY <2>5, <2>7, Zenon DEF Begins
  <1> DEFINE a == h \o FormatAmount(p.net)
  <1>9. Begins(a, h)
    BY <1>4, <1>8, StillBegins
  <1> HIDE DEF h
  <1>10. Begins(CalculateCufe(p), h)
    <2> DEFINE b1 == a \o <<0, 1>>
               b2 == b1 \o FormatAmount(p.tax)
               b3 == b2 \o <<0, 4>>
               b4 == b3 \o FormatAmount(0)
               b5 == b4 \o <<0, 3>>
               b6 == b5 \o FormatAmount(0)
               b7 == b6 \o FormatAmount(p.total)
               b8 == b7 \o p.nit
               b9 == b8 \o p.customer
               b10 == b9 \o p.key
    <2>1. Begins(b1, h)
      BY <1>6, <1>9, StillBegins, Zenon
    <2>2. Begins(b2, h)
      BY <1>4, <2>1, StillBegins, Zenon
    <2>3. Begins(b3, h)
      BY <1>6, <2>2, StillBegins, Zenon
    <2>4. Begins(b4, h)
      BY <1>5, <2>3, StillBegins, Zenon
    <2>5. Begins(b5, h)
      BY <1>6, <2>4, StillBegins, Zenon
    <2>6. Begins(b6, h)
      BY <1>5, <2>5, StillBegins, Zenon
    <2>7. Begins(b7, h)
      BY <1>4, <2>6, StillBegins, Zenon
    <2>8. Begins(b8, h)
      BY <1>2, <2>7, StillBegins, Zenon
    <2>9. Begins(b9, h)
      BY <1>2, <2>8, StillBegins, Zenon
    <2>10. Begins(b10, h)
      BY <1>2, <2>9, StillBegins, Zenon
    <2>11. Begins(b10 \o p.environment, h)
      BY <1>2, <2>10, StillBegins, Zenon
    <2>12. QED
      BY <2>11, Zenon DEF CalculateCufe, h, CodeHead
  <1>11. Begins(CalculateCune(p), h)
    <2> DEFINE b1 == a \o FormatAmount(p.tax)
               b2 == b1 \o FormatAmount(p.total)
               b3 == b2 \o p.nit
               b4 == b3 \o p.customer
               b5 == b4 \o <<1, 0, 2>>
               b6 == b5 \o p.key
    <2>1. Begins(b1, h)
      BY <1>4, <1>9, StillBegins, Zenon
    <2>2. Begins(b2, h)
      BY <1>4, <2>1, StillBegins, Zenon
    <2>3. Begins(b3, h)
      BY <1>2, <2>2, StillBegins, Zenon
    <2>4. Begins(b4, h)
      BY <1>2, <2>3, StillBegins, Zenon
    <2>5. Begins(b5, h)
      BY <1>7, <2>4, StillBegins, Zenon
    <2>6. Begins(b6, h)
      BY <1>2, <2>5, StillBegins, Zenon
    <2>7. Begins(b6 \o p.environment, h)
      BY <1>2, <2>6, StillBegins, Zenon
    <2>8. QED
      BY <2>7, Zenon DEF CalculateCune, h, CodeHead
  <1>12. Begins(CalculateCuds(p), h)
    <2> DEFINE x == IF p.tax > 0 THEN 1 ELSE 0
               b1 == a \o <<0, x>>
               b2 == b1 \o FormatAmount(p.tax)
               b3 == b2 \o FormatAmount(p.total)
               b4 == b3 \o p.customer
               b5 == b4 \o p.nit
               b6 == b5 \o p.key
    <2>1. Begins(b1, h)
      <3> HIDE DEF x
      <3>1. QED
        BY <1>6, <1>9, StillBegins, Zenon
    <2>2. Begins(b2, h)
      BY <1>4, <2>1, StillBegins, Zenon
    <2>3. Begins(b3, h)
      BY <1>4, <2>2, StillBegins, Zenon
    <2>4. Begins(b4, h)
      BY <1>2, <2>3, StillBegins, Zenon
    <2>5. Begins(b5, h)
      BY <1>2, <2>4, StillBegins, Zenon
    <2>6. Begins(b6, h)
      BY <1>2, <2>5, StillBegins, Zenon
    <2>7. Begins(b6 \o p.environment, h)
      BY <1>2, <2>6, StillBegins, Zenon
    <2>8. QED
      BY <2>7, Zenon DEF CalculateCuds, h, CodeHead
  <1>13. QED
    BY <1>10, <1>11, <1>12, Zenon DEF Code, h

\* What is read at the beginning of a code: no digit in the prefix, then digits,
\* the first of the date after those of the number, and its hyphen.
Reads(c, x, d) ==
    /\ \A i \in 1..Len(x) : c[i] = x[i] /\ ~IsDigit(c[i])
    /\ \A i \in 1..Len(d) : c[Len(x) + i] = d[i]
    /\ \A i \in 1..Len(d) + 1 : IsDigit(c[Len(x) + i]) /\ c[Len(x) + i] # Hyphen
    /\ c[Len(x) + Len(d) + 2] = Hyphen

\* The code of a document reads so.
LEMMA CodeReads ==
    ASSUME NEW p \in Payload, Valid(p), Lettered(p.prefix)
    PROVE  /\ p.prefix \in Seq(Int) /\ p.number \in 0..MaxI32
           /\ Reads(Code(p), p.prefix, Digits(p.number))
  <1> DEFINE x == p.prefix
             d == Digits(p.number)
             e == DateTime(p)
             a == Len(x)
             k == Len(d)
             g == x \o d
             h == g \o e
             c == Code(p)
  <1>1. x \in Seq(Int) /\ p.day \in Int
    BY DocumentsAssumption
  <1>2. p.number \in 0..MaxI32
    BY I32Digits, DocumentsAssumption, SMT
  <1>3. d \in Seq(Digit) /\ k \in 1..10
    BY <1>2, NumberDigits
  <1>4. /\ e \in Seq(Int) /\ Len(e) = 5 /\ e[1] = 2 /\ e[2] = Hyphen
    BY <1>1 DEF DateTime, Hyphen
  <1>5. Begins(c, h)
    BY CodeBegins DEF CodeHead, DocumentNumber
  <1> HIDE DEF x, d, e, c
  <1>6. d \in Seq(Int) /\ a \in Nat /\ DOMAIN x = 1..a
    BY <1>1, <1>3 DEF Digit
  <1>7. /\ g \in Seq(Int) /\ Len(g) = a + k
        /\ \A i \in 1..a : g[i] = x[i]
        /\ \A i \in 1..k : g[a + i] = d[i]
    BY <1>1, <1>6, Follows
  <1> HIDE DEF g
  <1>8. /\ Len(h) = Len(g) + Len(e)
        /\ \A i \in 1..Len(g) : h[i] = g[i]
        /\ \A i \in 1..Len(e) : h[Len(g) + i] = e[i]
    <2>1. g \in Seq(Int) /\ e \in Seq(Int)
      BY <1>4, <1>7, Zenon
    <2>2. QED
      BY <2>1, Follows
  <1> HIDE DEF h
  <1>9. Len(h) = a + k + 5 /\ \A i \in 1..Len(h) : c[i] = h[i]
    BY <1>4, <1>5, <1>7, <1>8, Zenon DEF Begins
  <1> HIDE DEF a, k
  <1>10. ASSUME NEW i \in 1..a
         PROVE  c[i] = x[i] /\ ~IsDigit(c[i])
    <2>1. i \in 1..a + k /\ i \in 1..a + k + 5
      BY <1>3, <1>6
    <2>2. c[i] = x[i]
      BY <1>7, <1>8, <1>9, <2>1, Zenon
    <2>3. ~IsDigit(x[i])
      BY <1>6, Zenon DEF Lettered, x
    <2>4. QED
      BY <2>2, <2>3, Zenon
  <1>11. ASSUME NEW i \in 1..k
         PROVE  c[a + i] = d[i]
    <2>1. a + i \in 1..a + k /\ a + i \in 1..a + k + 5
      BY <1>3, <1>6
    <2>2. QED
      BY <1>7, <1>8, <1>9, <2>1, Zenon
  <1>12. c[a + k + 1] = 2 /\ c[a + k + 2] = Hyphen
    <2>1. /\ 1 \in 1..5 /\ 2 \in 1..5
          /\ a + k + 1 \in 1..a + k + 5 /\ a + k + 2 \in 1..a + k + 5
      BY <1>3, <1>6
    <2>2. h[a + k + 1] = e[1] /\ h[a + k + 2] = e[2]
      BY <1>4, <1>7, <1>8, <2>1, Zenon
    <2>3. c[a + k + 1] = h[a + k + 1] /\ c[a + k + 2] = h[a + k + 2]
      BY <1>9, <2>1, Zenon
    <2>4. QED
      BY <1>4, <2>2, <2>3, Zenon
  <1>13. \A i \in 1..k : d[i] \in Digit
    BY <1>3 DEF k
  <1>14. 2 \in Digit /\ \A y \in Digit : y # Hyphen
    BY DEF Digit, Hyphen
  <1>15. ASSUME NEW i \in 1..k + 1
         PROVE  IsDigit(c[a + i]) /\ c[a + i] # Hyphen
    <2>1. CASE i \in 1..k
      BY <1>11, <1>13, <1>14, <2>1, Zenon DEF IsDigit
    <2>2. CASE i = k + 1
      <3>1. a + i = a + k + 1
        BY <1>3, <1>6, <2>2
      <3>2. QED
        BY <1>12, <1>14, <3>1, Zenon DEF IsDigit
    <2>3. i \in 1..k \/ i = k + 1
      BY <1>3
    <2>4. QED
      BY <2>1, <2>2, <2>3
  <1>16. Reads(c, x, d)
    BY <1>10, <1>11, <1>12, <1>15, Zenon DEF Reads, a, k
  <1>17. QED
    BY <1>1, <1>2, <1>16 DEF x, d, c

\* In a code that reads in two ways, no prefix is the shorter: its first digit
\* would be a letter of the other.
LEMMA NoShorterPrefix ==
    ASSUME NEW c, NEW x \in Seq(Int), NEW y \in Seq(Int), NEW d \in Seq(Int),
           NEW e \in Seq(Int), Reads(c, x, d), Reads(c, y, e)
    PROVE  ~(Len(x) < Len(y))
  <1> DEFINE a == Len(x)
             b == Len(y)
             k == Len(d)
  <1>1. a \in Nat /\ b \in Nat /\ k \in Nat
    OBVIOUS
  <1>2. /\ \A i \in 1..b : ~IsDigit(c[i])
        /\ \A i \in 1..k + 1 : IsDigit(c[a + i])
    BY Zenon DEF Reads
  <1> HIDE DEF a, b, k
  <1>3. SUFFICES ASSUME a < b PROVE FALSE
    BY DEF a, b
  <1>4. a + 1 \in 1..b /\ 1 \in 1..k + 1
    BY <1>1, <1>3
  <1>5. QED
    BY <1>2, <1>4, Zenon

\* And no number has fewer digits: the hyphen would be a digit of the other.
LEMMA NoFewerDigits ==
    ASSUME NEW c, NEW x \in Seq(Int), NEW y \in Seq(Int), NEW d \in Seq(Int),
           NEW e \in Seq(Int), Reads(c, x, d), Reads(c, y, e), Len(x) = Len(y)
    PROVE  ~(Len(d) < Len(e))
  <1> DEFINE a == Len(x)
             k == Len(d)
             l == Len(e)
  <1>1. a \in Nat /\ k \in Nat /\ l \in Nat
    OBVIOUS
  <1>2. c[a + k + 2] = Hyphen /\ \A i \in 1..l + 1 : c[a + i] # Hyphen
    BY Zenon DEF Reads
  <1> HIDE DEF a, k, l
  <1>3. SUFFICES ASSUME k < l PROVE FALSE
    BY DEF k, l
  <1>4. k + 2 \in 1..l + 1 /\ a + (k + 2) = a + k + 2
    BY <1>1, <1>3
  <1>5. QED
    BY <1>2, <1>4, Zenon

\* Equal codes are of the same prefix and number.
LEMMA CodesTell ==
    ASSUME NEW p \in Payload, NEW q \in Payload, Valid(p), Valid(q),
           Lettered(p.prefix), Lettered(q.prefix), Code(p) = Code(q)
    PROVE  p.prefix = q.prefix /\ p.number = q.number
  <1> DEFINE x == p.prefix
             y == q.prefix
             n == p.number
             m == q.number
             d == Digits(n)
             e == Digits(m)
             c == Code(p)
  <1>1. x \in Seq(Int) /\ y \in Seq(Int) /\ n \in 0..MaxI32 /\ m \in 0..MaxI32
    BY CodeReads
  <1>2. Reads(c, x, d) /\ Reads(c, y, e)
    BY CodeReads
  <1> HIDE DEF c, x, y, n, m
  <1>3. /\ d \in Seq(Digit) /\ Len(d) \in 1..10 /\ Writes(d, n)
        /\ e \in Seq(Digit) /\ Len(e) \in 1..10 /\ Writes(e, m)
    BY <1>1, NumberDigits
  <1> HIDE DEF d, e
  <1>4. d \in Seq(Int) /\ e \in Seq(Int)
    BY <1>3 DEF Digit
  <1>5. Len(x) = Len(y)
    <2>1. ~(Len(x) < Len(y))
      BY <1>1, <1>2, <1>4, NoShorterPrefix
    <2>2. ~(Len(y) < Len(x))
      BY <1>1, <1>2, <1>4, NoShorterPrefix
    <2>3. QED
      BY <1>1, <2>1, <2>2
  <1>6. Len(d) = Len(e)
    <2>1. ~(Len(d) < Len(e))
      BY <1>1, <1>2, <1>4, <1>5, NoFewerDigits
    <2>2. ~(Len(e) < Len(d))
      BY <1>1, <1>2, <1>4, <1>5, NoFewerDigits
    <2>3. QED
      BY <1>4, <2>1, <2>2
  <1>7. \A i \in 1..Len(x) : x[i] = y[i]
    BY <1>2, <1>5, Zenon DEF Reads
  <1>8. \A i \in 1..Len(d) : d[i] = e[i]
    <2>1. /\ \A i \in 1..Len(d) : c[Len(x) + i] = d[i]
          /\ \A i \in 1..Len(e) : c[Len(y) + i] = e[i]
      BY <1>2, Zenon DEF Reads
    <2>2. \A i \in 1..Len(d) : c[Len(x) + i] = e[i]
      BY <1>5, <1>6, <2>1, Zenon
    <2>3. QED
      BY <2>1, <2>2
  <1>9. x = y
    BY <1>1, <1>5, <1>7, SeqEqual
  <1>10. d = e
    BY <1>4, <1>6, <1>8, SeqEqual
  <1>11. n \in Nat /\ m \in Nat
    BY <1>1, I32Digits
  <1>12. DOMAIN d = 1..Len(d)
    BY <1>4
  <1>13. n = m
    BY <1>3, <1>10, <1>11, <1>12, WritesOne
  <1>14. QED
    BY <1>9, <1>13 DEF x, y, n, m

\* Documents are told apart by their numbers and codes (calculate_cufe_cude and the
\* others), and split_document_id splits a number as it was put together: for all
\* payloads and every sequence of documents.
THEOREM NumbersIdentifyHolds == GenerateSpec => []NumbersIdentify
  <1>1. Accepted => NumbersIdentify
    <2> SUFFICES ASSUME Accepted, NEW i \in DOMAIN generated, NEW j \in DOMAIN generated,
                        Lettered(generated[i].prefix), Lettered(generated[j].prefix)
                 PROVE  LET p == generated[i]
                            q == generated[j]
                        IN  /\ SplitDocumentId(DocumentNumber(p))
                                  = [prefix |-> p.prefix, number |-> p.number]
                            /\ SplitDocumentId(p.prefix \o <<Hyphen>> \o Digits(p.number))
                                  = SplitDocumentId(DocumentNumber(p))
                            /\ i # j /\ p.type = q.type => Code(p) # Code(q)
      BY Zenon DEF NumbersIdentify
    <2> DEFINE p == generated[i]
               q == generated[j]
    <2>1. p \in Payload /\ q \in Payload /\ Valid(p) /\ Valid(q)
      BY DEF Accepted
    <2>2. i # j => <<p.type, p.prefix, p.number>> # <<q.type, q.prefix, q.number>>
      BY Zenon DEF Accepted
    <2>3. Lettered(p.prefix) /\ Lettered(q.prefix)
      OBVIOUS
    <2> HIDE DEF p, q
    <2>4. p.prefix \in Seq(Int) /\ p.number \in 0..MaxI32
      BY <2>1, <2>3, CodeReads
    <2>5. /\ SplitDocumentId(DocumentNumber(p)) = [prefix |-> p.prefix, number |-> p.number]
          /\ SplitDocumentId(p.prefix \o <<Hyphen>> \o Digits(p.number))
                = [prefix |-> p.prefix, number |-> p.number]
      BY <2>3, <2>4, SplitsBack DEF DocumentNumber
    <2>6. i # j /\ p.type = q.type => Code(p) # Code(q)
      <3> SUFFICES ASSUME i # j, p.type = q.type, Code(p) = Code(q) PROVE FALSE
        OBVIOUS
      <3>1. p.prefix = q.prefix /\ p.number = q.number
        BY <2>1, <2>3, CodesTell
      <3>2. QED
        BY <2>2, <3>1, Zenon
    <2>7. QED
      BY <2>5, <2>6, Zenon DEF p, q
  <1>2. QED
    BY <1>1, AcceptedHolds, PTL
=============================================================================
