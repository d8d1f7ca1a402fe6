--------------------------- MODULE MCProcessing ---------------------------
(* Instances of Processing for TLC.                                        *)
EXTENDS Processing, TLC

CONSTANTS TransmitMax, PollMax

\* The MaxAttempts of the instance, from the two numbers of the cfg.
MCMaxAttempts ==
    [k \in JobKind |-> IF k = "transmit" THEN TransmitMax ELSE PollMax]

\* Task slots are interchangeable (not used where liveness is checked).
WorkerSymmetry == Permutations(Worker)
=============================================================================
