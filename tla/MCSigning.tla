----------------------------- MODULE MCSigning -----------------------------
(* An instance of Signing for TLC: the first certificate has a path of its *)
(* own and expires, the others share one and do not.                       *)
EXTENDS Signing

CONSTANTS c1, p1, p2

MCPathOf == [c \in Cert |-> IF c = c1 THEN p1 ELSE p2]
MCExpiration == [c \in Cert |-> IF c = c1 THEN 1 ELSE 2]
=============================================================================
