----------------------------- MODULE MCSettings -----------------------------
(***************************************************************************)
(* What is set up for a tenant, its webhooks and its certificate, with     *)
(* what is done with them.  Webhooks and Signing have nothing in common: a *)
(* behaviour is of one while the other has not begun.                      *)
(***************************************************************************)
EXTENDS MCWebhooks, MCSigning

CONSTANT MaxBusy   \* bound: calls of administrators and signatures at once

Busy == {a \in Admin : call[a].pc # "idle"} \cup {s \in Signer : signer[s].pc # "idle"}

SettingsInit == Init /\ SigningInit

SettingsNext ==
    \/ SigningInit /\ provider = "local" /\ Next /\ UNCHANGED signingVars
    \/ Init /\ SigningNext /\ Cardinality(Busy') <= MaxBusy /\ UNCHANGED vars

\* Neither has anything that it must do before it begins.
SettingsSpec ==
    /\ SettingsInit /\ [][SettingsNext]_<<vars, signingVars>>
    /\ Fairness /\ SigningFairness
=============================================================================
