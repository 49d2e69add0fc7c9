-------------------------- MODULE MCWebhookOutbox --------------------------
(* Small instances of WebhookOutbox.  Only the dispatchers are symmetric:  *)
(* a row that does not exist names an arbitrary, but fixed, webhook.       *)
EXTENDS WebhookOutbox, TLC

Symmetry == Permutations(Workers)
=============================================================================
