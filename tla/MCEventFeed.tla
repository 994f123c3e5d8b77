----------------------------- MODULE MCEventFeed -----------------------------
(* Two writers that change a network and a node. *)
EXTENDS EventFeed

CONSTANTS network, node

MCKinds == {network, node}
MCNetworkKinds == {network}

=============================================================================
