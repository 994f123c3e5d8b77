--------------------------- MODULE MCApplyNetwork ---------------------------
(***************************************************************************)
(* Two applies of one VXLAN network over two nodes.  The intent may span   *)
(* one node or both, in either order, so the edge node can change; a node  *)
(* may be wiped from outside or lose its external_ids.                     *)
(***************************************************************************)
EXTENDS ApplyNetwork

CONSTANTS o1, o2, a, b, m1, s1, s2

MCOwners == {o1, o2}
MCNodes == {a, b}
MCMtus == {m1}
MCServices == {s1, s2}

MCMemberLists == {<<a, b>>, <<b, a>>, <<a>>, <<>>}
MCPair == {<<a, b>>}

\* The first revision: both nodes and edge services.
MCServedPair ==
    {[version |-> 1, members |-> <<a, b>>, mtu |-> m1, service |-> s1]}
\* With edge services, on both nodes or on none at all.
MCServedIntents ==
    {[version |-> 1, members |-> ms, mtu |-> m1, service |-> s1] : ms \in {<<a, b>>, <<>>}}

Wiped == EmptyView
Altered == [bridge |-> "altered", stray |-> TRUE,
            ports |-> [n \in Nodes |-> IF n = b THEN AlteredPort ELSE NoPort]]
MCOutsideViews == {Wiped, Altered}

=============================================================================
