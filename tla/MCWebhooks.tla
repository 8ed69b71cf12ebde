----------------------------- MODULE MCWebhooks -----------------------------
(* The instance of Webhooks for TLC.                                       *)
EXTENDS Webhooks
=============================================================================
