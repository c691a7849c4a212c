-------------------------- MODULE MCWebhookDelivery --------------------------
(* The instance of WebhookDelivery that TLC checks.  Workers are alike, and so
   are endpoints: no property names one of them, and none is about liveness. *)
EXTENDS WebhookDelivery, TLC

Symmetry == Permutations(Worker) \cup Permutations(Endpoint)
=============================================================================
