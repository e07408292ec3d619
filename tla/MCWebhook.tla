----------------------------- MODULE MCWebhook -----------------------------
(***************************************************************************)
(* An event that is an ordinary one or a refund update of two entries, and *)
(* one of Stripe Identity; two deliveries at a time, a handler of two      *)
(* transactions.                                                           *)
(***************************************************************************)
EXTENDS WebhookDedup
=============================================================================
