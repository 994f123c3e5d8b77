---------------------------- MODULE MCAgentPlan ----------------------------
(***************************************************************************)
(* An agent: every state of a node of a network over up to three nodes,    *)
(* and, where there is nothing to do for OVS, the steps for the edge       *)
(* services, which share no state with it.                                 *)
(***************************************************************************)
EXTENDS AgentPlan, EdgeServices, TLC

CONSTANTS a, b, c, m1, m2, s1, s2

MCNodes == {a, b, c}
MCMtus == {m1, m2}
MCServices == {s1, s2}
MCNets == [members : {<<a, b, c>>, <<b, a>>, <<a>>, <<>>}, mtu : {m1}, service : {s1, NoService}]

NothingForOvs ==
    /\ net.members = <<>> /\ net.service = NoService /\ node = a
    /\ view = EmptyView /\ edge = NoService

AgentInit == Init /\ EdgeInit

AgentSpec ==
    /\ AgentInit
    /\ [][\/ Next /\ UNCHANGED edgeVars
          \/ NothingForOvs /\ round = 1 /\ EdgeNext /\ UNCHANGED planVars]_<<planVars, edgeVars>>

\* The adapters share nothing but the host they run on: CoreDNS and nftables,
\* which have the most states, are not both in use.
NotBothAtOnce ==
    \/ corefile = {} /\ \A z \in Zones : file[z] = NoSpec /\ running[z] = NoSpec
    \/ intent = NoIntent /\ kernel = Table(NoIntent)

EdgeSymmetry == Permutations(Policies) \cup Permutations(Specs) \cup Permutations(Zones)

=============================================================================
