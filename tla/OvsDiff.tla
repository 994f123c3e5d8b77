------------------------------- MODULE OvsDiff -------------------------------
(***************************************************************************)
(* The pure core of reconciliation for one VXLAN network: the plan the     *)
(* diff engine computes for a node from an observation of its OVS state    *)
(* (core/services/diff_engine.py), and what each step does to the state    *)
(* when the agent executes it (netos_agent ApplyPlan over an OvsdbPort).   *)
(*                                                                         *)
(* What is kept of OVS is what the diff tells apart: whether the network's *)
(* bridge is there and carries our external_ids and datapath, the options  *)
(* of the tunnel port to each peer, and whether another bridge claims the  *)
(* network.  A node's mgmt_ip and the network's VNI never change, so the   *)
(* MTU stands for a tunnel's options.  DHCP, DNS, NAT and firewall form    *)
(* one edge service, which get_state does not report.                      *)
(*                                                                         *)
(* A plan is a set: the diff emits the bridge step first and the agent     *)
(* keeps that order; the other steps touch disjoint state and commute.     *)
(***************************************************************************)
EXTENDS Naturals, Sequences, FiniteSets

CONSTANTS
    Nodes,          \* node ids
    Mtus,           \* MTUs an operator may ask for
    Services,       \* edge-service settings an operator may ask for
    NoService,      \* no DHCP, DNS zone, NAT or firewall policy
    NoPort,         \* the tunnel port is not there
    AlteredPort     \* it is there with other external_ids, type or options

ASSUME DiffAssumption ==
    /\ NoService \notin Services
    /\ NoPort # AlteredPort
    /\ NoPort \notin Mtus
    /\ AlteredPort \notin Mtus

\* The bridge of the network's name: as asked; claimed for the network but not
\* as asked (datapath, another external id); not claimed for it.
Bridges == {"absent", "ours", "altered", "foreign"}

\* OvsStateView / ObservedState, as far as this network is concerned.
View == [bridge : Bridges,
         ports  : [Nodes -> Mtus \cup {NoPort, AlteredPort}],
         stray  : BOOLEAN]

EmptyView == [bridge |-> "absent", ports |-> [p \in Nodes |-> NoPort], stray |-> FALSE]

\* States OVS can be in: a port lives on the bridge.
WellFormed(v) == v.bridge = "absent" => v.ports = [p \in Nodes |-> NoPort]

Members(net) == {net.members[i] : i \in DOMAIN net.members}

\* The designated carrier of edge services: node_ids[0].
IsEdgeNode(net, n) == net.members # <<>> /\ net.members[1] = n

BridgeStep == [do |-> "ensure_bridge"]
TunnelStep(p, m) == [do |-> "ensure_vxlan_port", peer |-> p, mtu |-> m]
DeleteStrayStep == [do |-> "delete_stray_bridge"]
DeleteBridgeStep == [do |-> "delete_bridge"]
EdgeStep(s) == [do |-> "ensure_edge_services", service |-> s]

Steps == {BridgeStep, DeleteStrayStep, DeleteBridgeStep}
             \cup {TunnelStep(p, m) : p \in Nodes, m \in Mtus}
             \cup {EdgeStep(s) : s \in Services}

EdgeSteps(net, n) ==
    IF IsEdgeNode(net, n) /\ net.service # NoService
    THEN {EdgeStep(net.service)} ELSE {}

\* _cleanup_for_network: a node outside the network only loses bridges.
CleanupSteps(v) ==
    (IF v.bridge \in {"ours", "altered"} THEN {DeleteBridgeStep} ELSE {})
        \cup (IF v.stray THEN {DeleteStrayStep} ELSE {})

\* The OVS part of diff_for_node on a member; peers are the members whose node
\* record the caller found.
StructuralSteps(net, n, peers, v) ==
    (IF v.bridge = "ours" THEN {} ELSE {BridgeStep})
        \cup {TunnelStep(p, net.mtu) : p \in {q \in peers \ {n} : v.ports[q] # net.mtu}}
        \cup (IF v.stray THEN {DeleteStrayStep} ELSE {})

DiffForNode(net, n, peers, v) ==
    IF n \in Members(net)
    THEN StructuralSteps(net, n, peers, v) \cup EdgeSteps(net, n)
    ELSE CleanupSteps(v)

IsEdgeStep(s) == s.do = "ensure_edge_services"

\* No structural step left; edge services are taken on trust.
IsInCompliance(net, n, peers, v) ==
    \A s \in DiffForNode(net, n, peers, v) : IsEdgeStep(s)

-----------------------------------------------------------------------------
(* What the controller shows: drift and topology (core/use_cases/topology.py) *)

\* Mutant: strays are no drift.
DriftingButStray(s) == s.do \in {"ensure_bridge", "delete_bridge", "ensure_vxlan_port"}

\* Steps that _step_to_drift_item makes an item of; it has its own list.
IsDrift(s) == s.do \in {"ensure_bridge", "delete_bridge", "delete_stray_bridge", "ensure_vxlan_port"}

\* ScanDrift, for a node that was observed.
DriftOf(net, n, peers, v) == {s \in DiffForNode(net, n, peers, v) : IsDrift(s)}

\* Tunnels the topology draws: one for each unordered pair of members.
TunnelEdges(net) ==
    UNION {{{net.members[i], net.members[j]} : j \in i + 1 .. Len(net.members)} : i \in DOMAIN net.members}

-----------------------------------------------------------------------------
(* The agent *)

\* The step raises NotFoundError: a port needs its bridge.
StepImpossible(s, v) == s.do = "ensure_vxlan_port" /\ v.bridge = "absent"

\* Mutant: the plan's order is lost.
MayRunAnywhere(s, steps) == TRUE

\* The agent reaches s before the rest of steps.
MayRunFirst(s, steps) == BridgeStep \in steps => s = BridgeStep

\* Mutant: a bridge that is not as asked is deleted and made anew.
AfterStepRecreates(s, v) ==
    CASE s.do = "ensure_bridge" -> [EmptyView EXCEPT !.bridge = "ours", !.stray = v.stray]
      [] s.do = "ensure_vxlan_port" ->
            IF v.bridge = "absent" THEN v ELSE [v EXCEPT !.ports[s.peer] = s.mtu]
      [] s.do = "delete_stray_bridge" -> [v EXCEPT !.stray = FALSE]
      [] s.do = "delete_bridge" -> [EmptyView EXCEPT !.stray = v.stray]
      [] s.do = "ensure_edge_services" -> v

\* Mutant: a tunnel port that is there is taken as it is, whatever its options.
AfterStepKeepsPort(s, v) ==
    CASE s.do = "ensure_bridge" -> [v EXCEPT !.bridge = "ours"]
      [] s.do = "ensure_vxlan_port" ->
            IF v.bridge = "absent" \/ v.ports[s.peer] # NoPort THEN v
            ELSE [v EXCEPT !.ports[s.peer] = s.mtu]
      [] s.do = "delete_stray_bridge" -> [v EXCEPT !.stray = FALSE]
      [] s.do = "delete_bridge" -> [EmptyView EXCEPT !.stray = v.stray]
      [] s.do = "ensure_edge_services" -> v

\* What an executed step leaves of the node's OVS state.
AfterStep(s, v) ==
    CASE s.do = "ensure_bridge" -> [v EXCEPT !.bridge = "ours"]
      [] s.do = "ensure_vxlan_port" ->
            IF v.bridge = "absent" THEN v ELSE [v EXCEPT !.ports[s.peer] = s.mtu]
      [] s.do = "delete_stray_bridge" -> [v EXCEPT !.stray = FALSE]
      [] s.do = "delete_bridge" -> [EmptyView EXCEPT !.stray = v.stray]
      [] s.do = "ensure_edge_services" -> v

\* The edge-service state a step leaves on the node that runs it.
EdgeAfterStep(s, e) == IF IsEdgeStep(s) THEN s.service ELSE e

=============================================================================
