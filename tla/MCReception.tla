---------------------------- MODULE MCReception ----------------------------
(***************************************************************************)
(* An instance of Reception for TLC: an invoice for each of two tax ids,   *)
(* and packages that each differ from the first in one thing that          *)
(* register_verified has to see, some with the number of the first.        *)
(***************************************************************************)
EXTENDS Reception, TLC

CONSTANTS n1, n2, supplier

A == -2    \* a letter

Cufe(c) == [text |-> c, upper |-> FALSE]

Signature(name) ==
    [signatures |-> 1, whole |-> TRUE, trusted |-> TRUE,
     certificates |-> {[subject |-> name, issuer |-> "CA"],
                       [subject |-> "CA", issuer |-> "CA"]}]

Package(id, cufe, customer) ==
    [root |-> "AttachedDocument", parent |-> id,
     signature |-> Signature("supplier"),
     invoice |-> [root |-> "Invoice", id |-> id, cufe |-> Cufe(cufe),
                  supplier |-> supplier, customer |-> customer,
                  signature |-> Signature("supplier")],
     response |-> [root |-> "ApplicationResponse", code |-> "02",
                   cufe |-> [text |-> cufe, upper |-> TRUE],
                   signature |-> Signature(Dian)],
     found |-> [signature |-> TRUE, code |-> "02", sender |-> supplier,
                receiver |-> customer, cufe |-> Cufe(cufe)]]

Genuine == Package(<<A, 1>>, "c1", n1)

\* Another invoice, c3, which the DIAN has not validated, with the number of
\* the first and its response.
Unknown == [Genuine EXCEPT !.invoice.cufe = Cufe("c3"), !.found.cufe = Cufe("c3"),
                           !.invoice.id = <<A, Hyphen, 1>>,
                           !.parent = <<A, Hyphen, 1>>]

Packages ==
    {Genuine, Package(<<A, 2>>, "c2", n2), Unknown,
     [Unknown EXCEPT !.response.signature.certificates = {},
                     !.response.cufe = Cufe("c3")],
     [Unknown EXCEPT !.response.signature = Signature("supplier"),
                     !.response.cufe = Cufe("c3")],
     [Unknown EXCEPT !.response.signature.trusted = FALSE,
                     !.response.cufe = Cufe("c3")],
     [Unknown EXCEPT !.response.code = "04", !.response.cufe = Cufe("c3")],
     [Genuine EXCEPT !.invoice.signature.signatures = 2],
     [Genuine EXCEPT !.invoice.supplier = None, !.found.sender = None],
     [Genuine EXCEPT !.parent = <<A, 2>>],
     [Genuine EXCEPT !.parent = <<A, A>>, !.invoice.id = <<A, A>>]}

Entry1(x) == [isXml |-> TRUE, readable |-> TRUE, xml |-> x]
Text      == [isXml |-> FALSE, readable |-> TRUE, xml |-> NoXml]
Blank     == [isXml |-> TRUE, readable |-> FALSE, xml |-> NoXml]

MCZip ==
    {<<Text, Entry1(x)>> : x \in Packages}
       \cup {<<>>, <<Text>>, <<Blank, Entry1(Genuine)>>,
             <<Text, Text, Text, Entry1(Genuine)>>}

Symmetry == Permutations(Tenant) \cup Permutations(Key) \cup Permutations(Call)
               \cup Permutations(Request) \cup Permutations(DocId)
=============================================================================
