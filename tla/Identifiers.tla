---------------------------- MODULE Identifiers ----------------------------
(***************************************************************************)
(* The number of a document, from its text: split_document_id.  A text is  *)
(* a sequence of characters, and a digit is its value; the hyphen and the  *)
(* letters are negative.                                                   *)
(***************************************************************************)
EXTENDS Integers, Sequences

CONSTANT MaxI32   \* the largest document number: 2^31 - 1 in the code

ASSUME IdentifiersAssumption == MaxI32 \in Nat /\ MaxI32 <= 2147483647

Digit  == 0..9
Hyphen == -1

IsDigit(c) == c \in Digit

\* The digits are those of n, as parse::<i32> reads them: zeros may precede.
Writes(digits, n) ==
    /\ n < 10^Len(digits)
    /\ \A i \in DOMAIN digits : digits[i] = (n \div 10^(Len(digits) - i)) % 10

NoSplit == [prefix |-> <<>>, number |-> -1]

\* Prefix and digits: at the last hyphen, or else from the first digit on.
SplitAt(id, end, start) ==
    LET digits == SubSeq(id, start, Len(id))
    IN  IF digits = <<>> \/ \E i \in DOMAIN digits : ~IsDigit(digits[i])
           \/ \A n \in 0..MaxI32 : ~Writes(digits, n)
        THEN NoSplit
        ELSE [prefix |-> SubSeq(id, 1, end),
              number |-> CHOOSE n \in 0..MaxI32 : Writes(digits, n)]

\* Mutant of SplitDocumentId: at the last digit, not at the first.
SplitDocumentIdLast(id) ==
    LET hyphens == {i \in DOMAIN id : id[i] = Hyphen}
        digits  == {i \in DOMAIN id : IsDigit(id[i])}
        cut     == IF hyphens # {} THEN hyphens ELSE digits
        p       == CHOOSE i \in cut : \A j \in cut : j <= i
    IN  IF cut = {} THEN NoSplit
        ELSE SplitAt(id, p - 1, IF hyphens # {} THEN p + 1 ELSE p)

SplitDocumentId(id) ==
    LET hyphens == {i \in DOMAIN id : id[i] = Hyphen}
        digits  == {i \in DOMAIN id : IsDigit(id[i])}
    IN  IF hyphens # {}
        THEN LET p == CHOOSE i \in hyphens : \A j \in hyphens : j <= i
             IN  SplitAt(id, p - 1, p + 1)
        ELSE IF digits = {} THEN NoSplit
        ELSE LET p == CHOOSE i \in digits : \A j \in digits : i <= j
             IN  SplitAt(id, p - 1, p)
=============================================================================
