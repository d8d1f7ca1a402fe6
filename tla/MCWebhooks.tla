---------------------------- MODULE MCWebhooks ----------------------------
(* An instance of Webhooks for TLC: the subscription other is to an event  *)
(* that is not published.                                                  *)
EXTENDS Webhooks

CONSTANT other

MCWants == [h \in Hook |-> IF h = other THEN {} ELSE Event]
=============================================================================
