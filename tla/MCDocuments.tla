---------------------------- MODULE MCDocuments ----------------------------
(***************************************************************************)
(* An instance of Documents and of XmlScan for TLC, side by side: a        *)
(* behaviour either generates documents or reads one.                      *)
(***************************************************************************)
EXTENDS Documents, XmlScan

CONSTANTS
    MaxPlain   \* bound: events of a document without a signature

LetterA == -2
LetterB == -3

-----------------------------------------------------------------------------
(* Payloads.                                                               *)

Base ==
    [type |-> "invoice", prefix |-> <<LetterA>>, number |-> 1, day |-> 5,
     nit |-> <<9>>, customer |-> <<8>>, key |-> <<7>>, environment |-> <<2>>,
     net |-> 1000, tax |-> 190, total |-> 1190, lines |-> <<>>,
     reference |-> [present |-> FALSE, date |-> 0], concept |-> 0,
     pin |-> FALSE, wellFormed |-> TRUE]

Note(type) ==
    [Base EXCEPT !.type = type, !.pin = TRUE, !.concept = 4,
                 !.reference = [present |-> TRUE, date |-> 5]]

\* A payload whose totals are those of its lines, which may be off by a cent
\* in the net or in the tax, or have three decimals.
WithLines(lines, dnet, dtax) ==
    LET computed == [i \in DOMAIN lines |-> ComputedLine(lines[i])]
        net == 10 * Total(Extensions(computed)) + dnet
        tax == 10 * Total(Taxes(computed)) + dtax
    IN  [Base EXCEPT !.lines = lines, !.net = net, !.tax = tax, !.total = net + tax]

MCLine ==
    {[quantity |-> q, price |-> v, percent |-> r] :
        q \in {0, 333, 1500}, v \in {0, 15, 1005, 100000}, r \in {0, 5000, 19000, 19005}}

MCLines ==
    {<<x>> : x \in MCLine} \cup {<<x, y>> : x, y \in MCLine}
       \cup {<<x, x, x>> : x \in MCLine}

Numbered ==
    {[p EXCEPT !.prefix = x, !.number = n, !.day = d] :
        p \in {Base, [Base EXCEPT !.type = "support_document"],
              [Base EXCEPT !.type = "payroll", !.total = 810]},
        x \in {<<>>, <<LetterA>>, <<LetterA, LetterB>>, <<LetterA, 1>>}, n \in {1, 2, 11, 21}, d \in {1, 2}}

Corrections ==
    {Note("credit_note"), Note("debit_note"),
     [Note("credit_note") EXCEPT !.concept = 6],
     [Note("debit_note") EXCEPT !.concept = 6],
     [Note("credit_note") EXCEPT !.reference.date = 6],
     [Note("debit_note") EXCEPT !.pin = FALSE],
     [Base EXCEPT !.type = "credit_note"]}

Simple ==
    {[p EXCEPT !.net = v[1], !.tax = v[2], !.total = v[3]] :
        p \in {Base, [Base EXCEPT !.type = "support_document"],
              [Base EXCEPT !.type = "payroll"]},
        v \in {<<0, 0, 0>>, <<300, 100, 400>>, <<300, 100, 200>>,
              <<0, 100, 100>>, <<305, 100, 405>>, <<100, 300, -200>>}}
       \cup {[Base EXCEPT !.wellFormed = FALSE], [Base EXCEPT !.type = "order"]}

WithoutLines == Numbered \cup Corrections \cup Simple

MCPayload ==
    WithoutLines
       \cup {WithLines(l, 0, 0) : l \in MCLines}
       \cup {[WithLines(<<x, x>>, d, e) EXCEPT !.type = "support_document"] :
                x \in MCLine, d, e \in {0, 10, 5}}

-----------------------------------------------------------------------------
(* Events.                                                                 *)

MCName == {"a", "b", "Signature", "SignedInfo",
           "Reference-whole", "Reference-part", "Transform"}

Start(n) == [kind |-> "start", name |-> n]
Empty(n) == [kind |-> "empty", name |-> n]
Other(k) == [kind |-> k, name |-> ""]

Unsigned == {Start("a"), Start("b"), Empty("a"), Other("end"), Other("text"),
             Other("doctype"), Other("badref")}

\* SignedInfo inside or outside a Signature, References anywhere.
Signed == {Start("Signature"), Empty("Signature"), Start("SignedInfo"),
           Start("Reference-whole"), Start("Reference-part"),
           Empty("Reference-whole"), Empty("Transform"), Other("end")}

\* Paths from a root of either name, through elements of either.
MCPath == {<<x>> : x \in {"a", "b"}} \cup {<<x, y>> : x, y \in {"a", "b"}}
             \cup {<<x, y, z>> : x, y, z \in {"a", "b"}}

\* There is room left for the ends that are missing.
Closable(bound) == Depth(tokens', Len(tokens')+1) <= bound - Len(tokens')

InSignature == tokens # <<>> /\ tokens[1] \in Signed

\* Up to what parse refuses.
Read ==
    /\ parse.ok
    /\ \/ /\ ~InSignature
          /\ \E t \in Unsigned : ReadEvent(t)
          /\ Closable(MaxPlain)
       \/ /\ tokens = <<>> /\ \E t \in {Start("Signature"), Start("SignedInfo")} : ReadEvent(t)
       \/ /\ InSignature
          /\ \E t \in Signed : ReadEvent(t)
          /\ Closable(MaxTokens)

\* Documents with lines alone.
Candidate ==
    IF generated = <<>> THEN Payload
    ELSE IF Len(generated) < MaxGenerated /\ generated[1].lines = <<>>
    THEN WithoutLines
    ELSE {}

DocumentsInit == GenerateInit /\ ScanInit

DocumentsNext ==
    \/ tokens = <<>> /\ (\E p \in Candidate : Generate(p)) /\ UNCHANGED scanVars
    \/ generated = <<>> /\ Read /\ UNCHANGED generated

DocumentsSpec == DocumentsInit /\ [][DocumentsNext]_<<generated, scanVars>>
=============================================================================
