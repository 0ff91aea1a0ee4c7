--------------------------- MODULE MCWebhookQueue ---------------------------
(* WebhookQueue on small instances. *)
EXTENDS WebhookQueue, TLC

CONSTANTS c1, c2

TwoCalls == {c1, c2}

\* The calls are interchangeable.
CallSymmetry == Permutations(TwoCalls)
=============================================================================
