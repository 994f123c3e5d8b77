------------------------------ MODULE MCWebhooks ------------------------------
(* Events of two kinds, one of which the subscriptions are for. *)
EXTENDS Webhooks

CONSTANTS network, node

MCKinds == {network, node}
MCFilter == {network}

=============================================================================
