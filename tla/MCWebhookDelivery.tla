------------------------- MODULE MCWebhookDelivery -------------------------
(* WebhookDelivery for TLC. *)
EXTENDS WebhookDelivery, TLC

MCSymmetry == Permutations(Delivery)
=============================================================================
