---------------------------- MODULE MCIssuance ----------------------------
(* An instance of Issuance for TLC: one series whose resolution is renewed *)
(* with a number repeated, one series whose numbers the server assigns.    *)
EXTENDS Issuance, TLC

CONSTANTS x1, x2, x3, k1

MCRangeInfo ==
    (x1 :> [series |-> "FE", from |-> 1, to |-> 2, last |-> 0,
            validFrom |-> 0, validTo |-> 1]) @@
    (x2 :> [series |-> "FE", from |-> 2, to |-> 3, last |-> 0,
            validFrom |-> 1, validTo |-> 2]) @@
    (x3 :> [series |-> "DS", from |-> 3, to |-> 4, last |-> 3,
            validFrom |-> 0, validTo |-> 2])

MCCall ==
    {[key |-> k1, series |-> "FE", asked |-> 1, content |-> "a"],
     [key |-> k1, series |-> "DS", asked |-> 0, content |-> "a"],
     [key |-> NoKey, series |-> "FE", asked |-> 1, content |-> "b"],
     [key |-> NoKey, series |-> "FE", asked |-> 2, content |-> "b"],
     [key |-> NoKey, series |-> "DS", asked |-> 0, content |-> "b"]}

RequestSymmetry == Permutations(Request)
=============================================================================
