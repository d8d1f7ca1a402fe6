------------------------------ MODULE XmlScan ------------------------------
(***************************************************************************)
(* How received XML is read: XmlDoc::parse, XmlDoc::text and               *)
(* check_signature_structure, each a loop over the events of quick-xml     *)
(* with its own local variables.  None looks at the others, so here they   *)
(* read every event together.                                              *)
(*                                                                         *)
(* tokens are the events so far; an end closes the last element that is    *)
(* open, as the reader sees to.  Names are local names; of the elements of *)
(* a signature the namespace and the attribute that matters are part of    *)
(* the name.                                                               *)
(***************************************************************************)
EXTENDS Integers, Sequences, FiniteSets, SequencesExt

CONSTANTS
    Name,       \* names of elements, those of a signature among them
    Path,       \* paths whose text is asked for
    MaxTokens   \* bound: events of a document

ASSUME XmlAssumption ==
    "" \notin Name /\ Path \subseteq Seq(Name) /\ MaxTokens \in Nat

VARIABLES
    tokens,     \* the events that were read
    parse,      \* parse: no error so far, root, depth
    text,       \* text, of each path: stack, capture, and what it returned
    structure   \* check_signature_structure: its local variables

scanVars == <<tokens, parse, text, structure>>

Token ==
    [kind : {"start", "empty"}, name : Name]
        \cup [kind : {"end", "text", "doctype", "badref"}, name : {""}]

Opening(t) == t.kind \in {"start", "empty"}

-----------------------------------------------------------------------------
(* XmlDoc.                                                                 *)

\* parse, one event: one root, no DTD, no entity but the known ones.
ParseEvent(p, t) ==
    IF ~p.ok THEN p
    ELSE [ok    |-> /\ t.kind \notin {"doctype", "badref"}
                    /\ Opening(t) /\ p.depth = 0 => p.root = "",
          root  |-> IF Opening(t) /\ p.depth = 0 THEN t.name ELSE p.root,
          depth |-> IF t.kind = "start" THEN p.depth + 1
                    ELSE IF t.kind = "end" THEN p.depth - 1 ELSE p.depth]

ParsedOk == parse.ok /\ parse.root # "" /\ parse.depth = 0

\* text(path), one event: the stack of names, the depth at which the text is
\* captured (0 when it is not), how much there is, and whether it returned.
TextEvent(path, x, t) ==
    LET stack == IF Opening(t) THEN Append(x.stack, t.name) ELSE x.stack
        here  == Opening(t) /\ x.capture = 0 /\ stack = path
    IN  IF x.found THEN x
        ELSE [stack   |-> IF t.kind \in {"end", "empty"} THEN Front(stack) ELSE stack,
              capture |-> IF here THEN Len(stack) ELSE x.capture,
              text    |-> IF t.kind = "text" /\ x.capture > 0 THEN x.text + 1 ELSE x.text,
              found   |-> \/ here /\ t.kind = "empty"
                          \/ t.kind = "end" /\ x.capture = Len(stack)]

-----------------------------------------------------------------------------
(* The structure of a signature.                                           *)

\* With URI="", of the whole document, or another.
Reference == {"Reference-whole", "Reference-part"}

\* The element that is open, "" at the top.
Innermost(path) == IF path = <<>> THEN "" ELSE Last(path)

\* Mutant of StructureEvent: any Reference may hold the Transform.
StructureEventAnywhere(x, t) ==
    [signatures |-> IF Opening(t) /\ t.name = "Signature"
                    THEN x.signatures + 1 ELSE x.signatures,
     path       |-> IF t.kind = "start" THEN Append(x.path, t.name)
                    ELSE IF t.kind = "end" THEN Front(x.path) ELSE x.path,
     inWhole    |-> x.inWhole \/ (Opening(t) /\ t.name = "Reference-whole"),
     enveloped  |-> x.enveloped \/ (Opening(t) /\ t.name = "Transform" /\ x.inWhole),
     covers     |-> x.covers \/ (t.kind = "end" /\ x.inWhole /\ x.enveloped)]

\* check_signature_structure, one event.
StructureEvent(x, t) ==
    LET refHere == /\ Opening(t) /\ t.name \in Reference
                   /\ Innermost(x.path) = "SignedInfo"
        refEnds == t.kind = "end" /\ Innermost(x.path) \in Reference
        inWhole == IF refHere THEN t.name = "Reference-whole" ELSE x.inWhole
    IN  [signatures |-> IF Opening(t) /\ t.name = "Signature"
                        THEN x.signatures + 1 ELSE x.signatures,
         path       |-> IF t.kind = "start" THEN Append(x.path, t.name)
                        ELSE IF t.kind = "end" THEN Front(x.path) ELSE x.path,
         inWhole    |-> inWhole /\ ~refEnds,
         enveloped  |-> /\ x.enveloped \/ (Opening(t) /\ t.name = "Transform" /\ inWhole)
                        /\ ~refEnds,
         covers     |-> x.covers \/ (refEnds /\ x.inWhole /\ x.enveloped)]

CheckStructure == structure.signatures = 1 /\ structure.covers

-----------------------------------------------------------------------------
(* The tree of the elements.                                               *)

\* How many elements are open before the i-th event of s.
Depth(s, i) ==
    Cardinality({k \in 1..i-1 : s[k].kind = "start"})
        - Cardinality({k \in 1..i-1 : s[k].kind = "end"})

\* The j-th event is in the element that begins at the i-th.
Within(s, i, j) ==
    s[i].kind = "start" /\ i < j /\ \A k \in i+1..j : Depth(s, k) > Depth(s, i)

\* The names from the root to the element that begins at the i-th event.
HasPath(s, i, path) ==
    /\ Opening(s[i]) /\ Len(path) = Depth(s, i) + 1
    /\ \A d \in 1..Len(path) :
          \E k \in 1..i : /\ k = i \/ Within(s, k, i)
                          /\ Depth(s, k) = d - 1 /\ s[k].name = path[d]

Named(s, name) == {i \in 1..Len(s) : Opening(s[i]) /\ s[i].name = name}
Roots(s)       == {i \in 1..Len(s) : Opening(s[i]) /\ Depth(s, i) = 0}

\* What is found at a path: the first element, and the texts in it.
IsFirst(s, i, path) == HasPath(s, i, path) /\ \A j \in 1..i-1 : ~HasPath(s, j, path)
TextsIn(s, i)       == {j \in 1..Len(s) : s[j].kind = "text" /\ Within(s, i, j)}

\* The whole-document References that are children of a ds:SignedInfo.
WholeReferences(s) ==
    {i \in Named(s, "Reference-whole") :
        \E k \in 1..i : /\ Within(s, k, i) /\ Depth(s, k) = Depth(s, i) - 1
                        /\ s[k].name = "SignedInfo"}

\* The enveloped Transforms inside the element that begins at the i-th event.
TransformsIn(s, i) == {j \in Named(s, "Transform") : Within(s, i, j)}

\* It has no Reference inside.
Plain(s, i) == \A r \in Reference : \A k \in Named(s, r) : ~Within(s, i, k)

-----------------------------------------------------------------------------
(* Reading.                                                                *)

ScanInit ==
    /\ tokens = <<>>
    /\ parse = [ok |-> TRUE, root |-> "", depth |-> 0]
    /\ text = [p \in Path |-> [stack |-> <<>>, capture |-> 0, text |-> 0, found |-> FALSE]]
    /\ structure = [signatures |-> 0, path |-> <<>>, inWhole |-> FALSE,
                    enveloped |-> FALSE, covers |-> FALSE]

\* read_event, as long as every end has its start.
ReadEvent(t) ==
    /\ Len(tokens) < MaxTokens
    /\ t.kind = "end" => Depth(tokens, Len(tokens) + 1) > 0
    /\ tokens' = Append(tokens, t)
    /\ parse' = ParseEvent(parse, t)
    /\ text' = [p \in Path |-> TextEvent(p, text[p], t)]
    /\ structure' = StructureEvent(structure, t)

ScanNext == \E t \in Token : ReadEvent(t)

ScanSpec == ScanInit /\ [][ScanNext]_scanVars

-----------------------------------------------------------------------------
(* Properties.                                                             *)

Balanced == Depth(tokens, Len(tokens) + 1) = 0

\* What parse and text find in one pass is what the tree of the document has:
\* one root; and the first element with a path, if there is any, with all the
\* text inside it, however deep, also when another of that path follows or is
\* inside.
\*
\* The flags of check_signature_structure, over any References, also empty,
\* nested or out of place: a document with one signature is never refused if
\* some whole-document Reference of a SignedInfo has itself the enveloped
\* Transform, and no Reference inside; and is only accepted for a Transform
\* inside one, never for one that is outside.  After an empty Reference a
\* Transform that follows may count as its own.
ReadsTheTree ==
    /\ ParsedOk <=>
          /\ Balanced /\ Cardinality(Roots(tokens)) = 1
          /\ \A i \in DOMAIN tokens : tokens[i].kind \notin {"doctype", "badref"}
    /\ ParsedOk =>
          \A p \in Path :
             /\ text[p].found <=> \E i \in DOMAIN tokens : HasPath(tokens, i, p)
             /\ \A i \in DOMAIN tokens : IsFirst(tokens, i, p) =>
                   text[p].text = Cardinality(TextsIn(tokens, i))
    /\ /\ Balanced /\ Cardinality(Named(tokens, "Signature")) = 1
       /\ \E i \in WholeReferences(tokens) : Plain(tokens, i) /\ TransformsIn(tokens, i) # {}
       => CheckStructure
    /\ CheckStructure =>
          /\ Cardinality(Named(tokens, "Signature")) = 1
          /\ \E i \in WholeReferences(tokens), j \in Named(tokens, "Transform") :
                i < j /\ (tokens[i].kind = "start" => Within(tokens, i, j))

(* What the comments say of the program, and the program does not do.      *)

\* verify.rs and the README: a document has exactly one ds:Signature, and one
\* of its References covers the whole document with the enveloped transform.
\* The code looks for that Reference in any ds:SignedInfo.
SignatureCovers ==
    ParsedOk /\ CheckStructure =>
       \E k \in Named(tokens, "Signature"), i \in WholeReferences(tokens) :
          Within(tokens, k, i) /\ TransformsIn(tokens, i) # {}
=============================================================================
