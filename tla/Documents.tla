----------------------------- MODULE Documents -----------------------------
(***************************************************************************)
(* The documents that the UBL engine generates: what validate accepts, the *)
(* lines and subtotals of model.rs, and the number and unique code.        *)
(*                                                                         *)
(* Numbers of a payload are integers, in thousandths: enough for every     *)
(* check of a scale to fail or not; computed amounts are in cents.  Texts  *)
(* are abstracted to whether their format is right, except the number, the *)
(* date, the customer and the amounts, which make the unique code: these   *)
(* are sequences of characters (see Identifiers).  SHA-384 is taken to be  *)
(* injective, and the code is the text that it digests.                    *)
(***************************************************************************)
EXTENDS Identifiers

CONSTANTS
    Payload,       \* payloads that clients post
    MaxLines,      \* MAX_LINES
    MaxGenerated   \* bound: documents generated

MaxDigits == 29   \* a Decimal has no more

\* k digits write n, and no fewer.
Width(n, k) == n < 10^k /\ \A j \in 1..(k - 1) : ~(n < 10^j)

\* decimal, with at most two decimals (to_amount) or three and more.
ToAmount(v) == v \div 10
IsAmount(v) == v >= 0 /\ v % 10 = 0

\* A payload is of numbers and texts; numbers are those of a resolution.
ASSUME DocumentsAssumption ==
    /\ MaxGenerated \in Nat
    /\ \A p \in Payload :
          /\ p.number \in 1..MaxI32 /\ p.day \in Int
          /\ \A x \in {p.prefix, p.nit, p.customer, p.key, p.environment} : x \in Seq(Int)
          /\ \A v \in {p.net, p.tax, p.total} :
                v \in Int /\ (IsAmount(v) => \E k \in 1..MaxDigits : Width(ToAmount(v) \div 100, k))
          /\ p.lines \in Seq([quantity : Int, price : Int, percent : Int])

VARIABLE generated   \* payloads whose document was generated

-----------------------------------------------------------------------------
(* Amounts.                                                                *)

RoundHalfUp(n, d) == (2 * n + d) \div (2 * d)

\* Sums of the first amounts of s, and of all.
PartialSums(s) ==
    LET sum[i \in 0..Len(s)] == IF i = 0 THEN 0 ELSE sum[i - 1] + s[i]
    IN  sum
Total(s) == PartialSums(s)[Len(s)]

\* compute, on one line: round2 away from zero, and the tax of what was rounded.
ComputedLine(line) ==
    LET extension == RoundHalfUp(line.quantity * line.price, 10000)
    IN  [extension |-> extension, percent |-> line.percent,
         tax |-> RoundHalfUp(extension * line.percent, 100000)]

ValidLine(line) ==
    line.quantity > 0 /\ line.price >= 0 /\ IsAmount(line.percent) /\ line.percent <= 100000

\* compute without lines: one that is equivalent to the totals.
SyntheticLine(net, tax) ==
    [extension |-> net, tax |-> tax,
     percent |-> IF net = 0 THEN 0 ELSE RoundHalfUp(tax * 10000, net) * 10]

Lines(p) ==
    IF p.lines = <<>> THEN <<SyntheticLine(ToAmount(p.net), ToAmount(p.tax))>>
    ELSE [i \in DOMAIN p.lines |-> ComputedLine(p.lines[i])]

Extensions(lines) == [i \in DOMAIN lines |-> lines[i].extension]
Taxes(lines)      == [i \in DOMAIN lines |-> lines[i].tax]

\* compute_lines: the lines add up to the totals.
ComputeLines(p) ==
    p.lines # <<>> =>
       /\ Len(p.lines) <= MaxLines
       /\ \A i \in DOMAIN p.lines : ValidLine(p.lines[i])
       /\ Total(Extensions(Lines(p))) = ToAmount(p.net)
       /\ Total(Taxes(Lines(p))) = ToAmount(p.tax)

\* The lines with a rate: the others count nothing.
OfRate(lines, r) ==
    [i \in DOMAIN lines |->
       IF lines[i].percent = r THEN lines[i]
       ELSE [extension |-> 0, tax |-> 0, percent |-> lines[i].percent]]

\* Mutant of TaxSubtotals: the tax of a group from its taxable amount.
TaxSubtotalsRounded(p) ==
    [r \in {Lines(p)[i].percent : i \in DOMAIN Lines(p)} |->
       LET taxable == Total(Extensions(OfRate(Lines(p), r)))
       IN  [taxable |-> taxable, tax |-> RoundHalfUp(taxable * r, 100000)]]

\* tax_subtotals: of each rate.
TaxSubtotals(p) ==
    [r \in {Lines(p)[i].percent : i \in DOMAIN Lines(p)} |->
       [taxable |-> Total(Extensions(OfRate(Lines(p), r))),
        tax     |-> Total(Taxes(OfRate(Lines(p), r)))]]

-----------------------------------------------------------------------------
(* Validation.                                                             *)

\* to_amount, for each of the three.
ValidAmounts(p) == IsAmount(p.net) /\ IsAmount(p.tax) /\ IsAmount(p.total)

\* validate_note_fields: the invoice it corrects, not later than the note; the
\* concept, of those of its type; and the PIN.
ValidNote(p) ==
    /\ p.reference.present /\ p.reference.date <= p.day
    /\ p.concept \in 1..IF p.type = "credit_note" THEN 6 ELSE 4
    /\ p.pin

\* InvoicePayload::validate
ValidInvoice(p) ==
    /\ p.type \in {"invoice", "credit_note", "debit_note"}
    /\ p.wellFormed /\ ValidAmounts(p) /\ p.net + p.tax = p.total
    /\ p.type # "invoice" => ValidNote(p)
    /\ ComputeLines(p)

\* PayrollPayload::validate: net is what is earned (devengado), tax what is
\* deducted (deducido), and total what is paid.
ValidPayroll(p) ==
    /\ p.type = "payroll"
    /\ p.wellFormed /\ ValidAmounts(p) /\ p.net - p.tax = p.total

\* SupportDocumentPayload::validate
ValidSupport(p) ==
    /\ p.type = "support_document"
    /\ p.wellFormed /\ ValidAmounts(p) /\ p.net + p.tax = p.total
    /\ ComputeLines(p)

-----------------------------------------------------------------------------
(* Numbers and codes.                                                      *)

\* The text of a number.
Digits(n) ==
    LET k == CHOOSE i \in 1..MaxDigits : Width(n, i)
    IN  [i \in 1..k |-> (n \div 10^(k - i)) % 10]

Dot == -9

\* format_amount: two decimals.
FormatAmount(v) ==
    Digits(ToAmount(v) \div 100)
        \o <<Dot, (ToAmount(v) \div 10) % 10, ToAmount(v) % 10>>

\* Date and time, of a fixed length.
DateTime(p) == <<2, Hyphen, p.day, 1, 5>>

\* Prefix and number, in this order and without a separator.
DocumentNumber(p) == p.prefix \o Digits(p.number)

\* calculate_cufe_cude: key is the technical key of the resolution or, in a
\* note, the PIN; with the codes of IVA, INC and ICA, the last two zero.
CalculateCufe(p) ==
    DocumentNumber(p) \o DateTime(p) \o FormatAmount(p.net)
        \o <<0, 1>> \o FormatAmount(p.tax) \o <<0, 4>> \o FormatAmount(0)
        \o <<0, 3>> \o FormatAmount(0) \o FormatAmount(p.total)
        \o p.nit \o p.customer \o p.key \o p.environment

\* calculate_cune
CalculateCune(p) ==
    DocumentNumber(p) \o DateTime(p) \o FormatAmount(p.net) \o FormatAmount(p.tax)
        \o FormatAmount(p.total) \o p.nit \o p.customer \o <<1, 0, 2>>
        \o p.key \o p.environment

\* calculate_cuds: the seller first, and 01 or 00 as there is tax or not.
CalculateCuds(p) ==
    DocumentNumber(p) \o DateTime(p) \o FormatAmount(p.net)
        \o <<0, IF p.tax > 0 THEN 1 ELSE 0>> \o FormatAmount(p.tax)
        \o FormatAmount(p.total) \o p.customer \o p.nit
        \o p.key \o p.environment

Code(p) ==
    CASE p.type = "payroll" -> CalculateCune(p)
      [] p.type = "support_document" -> CalculateCuds(p)
      [] OTHER -> CalculateCufe(p)

-----------------------------------------------------------------------------
(* Generation.                                                             *)

\* issue_outbound numbers a document of a type and prefix once.
Unused(p) ==
    \A i \in DOMAIN generated :
       <<generated[i].type, generated[i].prefix, generated[i].number>>
          # <<p.type, p.prefix, p.number>>

\* generate_invoice_xml
GenerateInvoice(p) ==
    /\ Unused(p) /\ ValidInvoice(p)
    /\ generated' = Append(generated, p)

\* generate_payroll_xml
GeneratePayroll(p) ==
    /\ Unused(p) /\ ValidPayroll(p)
    /\ generated' = Append(generated, p)

\* generate_support_document_xml
GenerateSupport(p) ==
    /\ Unused(p) /\ ValidSupport(p)
    /\ generated' = Append(generated, p)

Generate(p) ==
    /\ Len(generated) < MaxGenerated
    /\ GenerateInvoice(p) \/ GeneratePayroll(p) \/ GenerateSupport(p)

GenerateInit == generated = <<>>
GenerateSpec == GenerateInit /\ [][\E p \in Payload : Generate(p)]_generated

-----------------------------------------------------------------------------
(* Properties.                                                             *)

\* The subtotals, each at the first line of its rate.
SubtotalLines(p) ==
    [i \in DOMAIN Lines(p) |->
       LET r == Lines(p)[i].percent
           first == \A j \in 1..i-1 : Lines(p)[j].percent # r
       IN  [extension |-> IF first THEN TaxSubtotals(p)[r].taxable ELSE 0,
            tax       |-> IF first THEN TaxSubtotals(p)[r].tax ELSE 0]]

\* The amounts of a document agree with each other to the cent, although each
\* line is rounded on its own: lines, and subtotals, add up to net and tax; and
\* the tax of a subtotal is at most half a cent per line of the document away
\* from the rate of what it taxes.
AmountsAddUp ==
    \A i \in DOMAIN generated :
       LET p == generated[i] IN
       p.type # "payroll" =>
          /\ Total(Extensions(Lines(p))) = ToAmount(p.net)
          /\ Total(Taxes(Lines(p))) = ToAmount(p.tax)
          /\ Total(Extensions(SubtotalLines(p))) = ToAmount(p.net)
          /\ Total(Taxes(SubtotalLines(p))) = ToAmount(p.tax)
          /\ ToAmount(p.net) + ToAmount(p.tax) = ToAmount(p.total)
          /\ p.lines # <<>> =>
               \A r \in DOMAIN TaxSubtotals(p) :
                  LET g == TaxSubtotals(p)[r]
                  IN  /\ 2 * (g.tax * 100000 - g.taxable * r) <= Len(Lines(p)) * 100000
                      /\ 2 * (g.taxable * r - g.tax * 100000) <= Len(Lines(p)) * 100000

Lettered(prefix) ==
    \A i \in DOMAIN prefix : ~IsDigit(prefix[i]) /\ prefix[i] # Hyphen

\* Two documents of a tenant have different numbers, and so different codes,
\* although both are texts put together without separators; and whoever
\* receives one of them splits its number as it was put together.  All this
\* for prefixes of letters: register_numbering_range accepts digits too, with
\* which FE1 and 1 read as FE and 11.
NumbersIdentify ==
    \A i, j \in DOMAIN generated :
       LET p == generated[i]  q == generated[j] IN
       Lettered(p.prefix) /\ Lettered(q.prefix) =>
          /\ SplitDocumentId(DocumentNumber(p)) = [prefix |-> p.prefix, number |-> p.number]
          /\ SplitDocumentId(p.prefix \o <<Hyphen>> \o Digits(p.number))
                = SplitDocumentId(DocumentNumber(p))
          /\ i # j /\ p.type = q.type => Code(p) # Code(q)
=============================================================================
