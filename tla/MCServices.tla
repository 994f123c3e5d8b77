----------------------------- MODULE MCServices -----------------------------
(***************************************************************************)
(* One deployment for each group of tables that belong together, some with *)
(* rows already there.                                                     *)
(***************************************************************************)
EXTENDS Services

MCCidrs == {<<0, 3>>, <<0, 1>>}
MCPools == {<<>>, << <<1, 1>>, <<2, 3>> >>}
MCRanges == {{}, {<<1, 1>>}, {<<2, 2>>}}
MCGateways == {None, 1}
MCNatSpecs == {None}
MCUplinks == {None, "wan0"}

Rule(priority, direction, source, service, action, enabled) ==
    [priority |-> priority, direction |-> direction, source |-> source, service |-> service,
     action |-> action, enabled |-> enabled]

MCRuleSpecs ==
    { Rule(1, "ingress", "cidr", "ssh", "allow", TRUE), Rule(1, "both", "any", None, "deny", TRUE),
      Rule(2, "both", "blank", "ssh", "allow", TRUE), Rule(1, "both", "group", None, "allow", TRUE),
      Rule(1, "both", "any", None, "allow", FALSE) }

MCExprs ==
    { [minute |-> Step(2), day |-> Every], [minute |-> At(0), day |-> From(1, 2)],
      [minute |-> Every, day |-> Step(2)], [minute |-> Step(0), day |-> Every] }

OneAccount == CHOOSE a \in Accounts : TRUE

MCDeployments ==
    { [networks |-> <<>>, allocs |-> <<>>],
      [networks |-> [w \in Networks |-> Rehashed([subnet |-> Subnet(<<0, 3>>, None, << <<1, 1>>, <<2, 3>> >>, {}),
                                                 nat |-> None, hash |-> None])],
       allocs |-> <<>>, nodes |-> [n \in {"n1"} |-> [name |-> n]], tokens |-> <<>>,
       accounts |-> [a \in {OneAccount} |-> AccountRow(BootName, "admin")]],
      [audit |-> <<>>, operations |-> <<>>],
      <<>>,
      [accounts |-> <<>>, tokens |-> <<>>],
      [projects |-> <<>>, members |-> <<>>, tokens |-> <<>>,
       accounts |-> [a \in {OneAccount} |-> AccountRow(BootName, "admin")]],
      [routers |-> <<>>, fips |-> <<>>, peers |-> <<>>],
      [nodes |-> [n \in {"n1"} |-> [name |-> n]], ports |-> <<>>, trunks |-> <<>>,
       networks |-> [w \in Networks |-> Rehashed([subnet |-> None, nat |-> None, hash |-> None])]],
      [groups |-> <<>>, groupMembers |-> <<>>],
      [addressPools |-> <<>>, qos |-> <<>>],
      [policies |-> [k \in PolicyIds |-> PolicyRow], services |-> [v \in Services |-> [ports |-> {22}]]],
      [quotas |-> <<>>], [snapshots |-> <<>>], [bonds |-> <<>>], [retention |-> <<>>],
      [lbs |-> <<>>, lbPools |-> <<>>, lbMembers |-> <<>>, monitors |-> <<>>],
      [lbs |-> <<>>, listeners |-> <<>>],
      [schedules |-> <<>>], [mirrors |-> <<>>],
      [tunnels |-> <<>>, vpnPeers |-> <<>>] }

=============================================================================
