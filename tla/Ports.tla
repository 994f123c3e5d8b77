------------------------------- MODULE Ports --------------------------------
(***************************************************************************)
(* Logical ports, security groups and their members, address pools and QoS *)
(* policies (core/use_cases/n1.py), trunk ports (n2.py).                   *)
(*                                                                         *)
(* Names, descriptions and labels are left out: an update that changes     *)
(* nothing else still saves the row it read.  cidrs, rate and vlans stand  *)
(* for the values an update may replace.                                   *)
(***************************************************************************)
EXTENDS Repositories

CONSTANTS
    PortIds, Vifs,
    Groups, MemberValues,
    AddressPools, QosPolicies, Trunks,
    Versions,       \* contents of a pool, limits of a QoS policy
    Vlans

ASSUME PortsAssumption == None \notin Groups

-----------------------------------------------------------------------------
(* Logical ports.  Address and MAC are set once. *)

Port(p) == Rows("ports")[p]

LogicalPortRows ==
    [node : Ids("nodes"), network : Ids("networks"), vif : Vifs \cup {None},
     status : {"pending", "active", "detached"}]

SavesPort(p, row) == Handles({"ports"}, <<Put("ports", p, row)>>)

NewPort(n, w, v) == [node |-> n, network |-> w, vif |-> v, status |-> "pending"]
Attached(p, v) == [Port(p) EXCEPT !.status = "active", !.vif = IF v # None THEN v ELSE @]
Detached(p) == [Port(p) EXCEPT !.status = "detached", !.vif = None]

CreateLogicalPort ==
    \E p \in FreshIds("ports", PortIds), n \in Ids("nodes"), w \in Ids("networks"), v \in Vifs \cup {None} :
        /\ "ports" \in DOMAIN db
        /\ Handles({"nodes", "networks"}, <<Put("ports", p, NewPort(n, w, v))>>)

UpdateLogicalPort == \E p \in Ids("ports") : SavesPort(p, Port(p))

AttachLogicalPort == \E p \in Ids("ports"), v \in Vifs \cup {None} : SavesPort(p, Attached(p, v))

DetachLogicalPort == \E p \in Ids("ports") : SavesPort(p, Detached(p))

DeleteLogicalPort == \E p \in Ids("ports") : Handles({"ports"}, <<Drop("ports", p)>>)

\* RemoveNode and the deletion of a network, as these tables see them.
NodeDeleted == \E n \in Ids("nodes") : "ports" \in DOMAIN db /\ Handles({"nodes"}, <<Drop("nodes", n)>>)

-----------------------------------------------------------------------------
(* Security groups. *)

SecurityGroupRows == [name : 0 .. 1]
SecurityGroupMemberRows == [group : Ids("groups"), value : MemberValues]

GroupMember(m) == Rows("groupMembers")[m]

NewGroup(name) == [name |-> name]
NewGroupMember(g, v) == [group |-> g, value |-> v]

CreateSecurityGroup ==
    \E g \in FreshIds("groups", Groups) :
        "groups" \in DOMAIN db /\ Handles({}, <<Put("groups", g, NewGroup(0))>>)

UpdateSecurityGroup ==
    \E g \in Ids("groups"), name \in 0 .. 1 : Handles({"groups"}, <<Put("groups", g, NewGroup(name))>>)

\* Two commits: the members, then the group.
DeleteSecurityGroup ==
    \E g \in Ids("groups") :
        Handles({"groups"}, <<Empty("groupMembers", "group", g), Drop("groups", g)>>)

AddSecurityGroupMember ==
    \E g \in Ids("groups"), v \in MemberValues :
        Handles({"groups"}, <<Put("groupMembers", <<g, v>>, NewGroupMember(g, v))>>)

RemoveSecurityGroupMember ==
    \E g \in Ids("groups"), v \in MemberValues : Handles({"groups"}, <<Drop("groupMembers", <<g, v>>)>>)

-----------------------------------------------------------------------------
(* Address pools and QoS policies. *)

AddressPoolRows == [cidrs : Versions]
QosPolicyRows == [rate : Versions \cup {None}]

QosPolicy(o) == Rows("qos")[o]

NewPool(c) == [cidrs |-> c]

CreateAddressPool ==
    \E a \in FreshIds("addressPools", AddressPools), c \in Versions :
        "addressPools" \in DOMAIN db /\ Handles({}, <<Put("addressPools", a, NewPool(c))>>)

UpdateAddressPool ==
    \E a \in Ids("addressPools"), c \in Versions :
        Handles({"addressPools"}, <<Put("addressPools", a, NewPool(c))>>)

DeleteAddressPool == \E a \in Ids("addressPools") : Handles({"addressPools"}, <<Drop("addressPools", a)>>)

\* 0 is no rate: the constructor, an update and every load refuse it.
RateValid(r) == r # 0

CreateQosPolicy ==
    \E o \in FreshIds("qos", QosPolicies), r \in Versions \cup {None} :
        "qos" \in DOMAIN db /\ RateValid(r) /\ Handles({}, <<Put("qos", o, [rate |-> r])>>)

\* None leaves the rate as it is.
UpdateQosPolicy ==
    \E o \in Ids("qos"), r \in Versions \cup {None} :
        LET rate == IF r = None THEN QosPolicy(o).rate ELSE r
        IN RateValid(rate) /\ Handles({"qos"}, <<Put("qos", o, [rate |-> rate])>>)

DeleteQosPolicy == \E o \in Ids("qos") : Handles({"qos"}, <<Drop("qos", o)>>)

-----------------------------------------------------------------------------
(* Trunk ports. *)

TrunkPort(t) == Rows("trunks")[t]

TrunkPortRows == [node : Ids("nodes"), vlans : SUBSET Vlans, native : Vlans \cup {None}]

\* TrunkPort.__post_init__, run at every load.
TrunkValid(t) == t.native = None \/ t.native \in t.vlans

CreateTrunkPort ==
    \E t \in FreshIds("trunks", Trunks), n \in Ids("nodes"), vlans \in SUBSET Vlans,
       native \in Vlans \cup {None} :
        LET row == [node |-> n, vlans |-> vlans, native |-> native]
        IN "trunks" \in DOMAIN db /\ TrunkValid(row) /\ Handles({"nodes"}, <<Put("trunks", t, row)>>)

SavesTrunk(t, row) == TrunkValid(row) /\ Handles({"trunks"}, <<Put("trunks", t, row)>>)

\* vlans may be left out; native is always set, to None when it is left out.
UpdateTrunkPort ==
    \E t \in Ids("trunks"), vlans \in (SUBSET Vlans) \cup {None}, native \in Vlans \cup {None} :
        LET row == [TrunkPort(t) EXCEPT !.vlans = IF vlans = None THEN @ ELSE vlans, !.native = native]
        IN SavesTrunk(t, row)

DeleteTrunkPort == \E t \in Ids("trunks") : Handles({"trunks"}, <<Drop("trunks", t)>>)

PortsNext ==
    \/ CreateLogicalPort \/ UpdateLogicalPort \/ AttachLogicalPort \/ DetachLogicalPort
    \/ DeleteLogicalPort \/ NodeDeleted
    \/ CreateSecurityGroup \/ UpdateSecurityGroup \/ DeleteSecurityGroup
    \/ AddSecurityGroupMember \/ RemoveSecurityGroupMember
    \/ CreateAddressPool \/ UpdateAddressPool \/ DeleteAddressPool
    \/ CreateQosPolicy \/ UpdateQosPolicy \/ DeleteQosPolicy
    \/ CreateTrunkPort \/ UpdateTrunkPort \/ DeleteTrunkPort

-----------------------------------------------------------------------------
(* Properties. *)

\* Every row can be loaded again - a trunk has its native VLAN among those it
\* allows, a QoS policy a positive rate - and nothing is left of what was deleted:
\* create and add look the owner up before an await (n1.py:99, 417), a deletion in
\* between takes the new row with it or the row is refused.
PortsTypeOK ==
    /\ \A p \in Ids("ports") : Port(p) \in LogicalPortRows
    /\ \A g \in Ids("groups") : Rows("groups")[g] \in SecurityGroupRows
    /\ \A m \in Ids("groupMembers") : GroupMember(m) \in SecurityGroupMemberRows
    /\ \A a \in Ids("addressPools") : Rows("addressPools")[a] \in AddressPoolRows
    /\ \A o \in Ids("qos") : QosPolicy(o) \in QosPolicyRows /\ RateValid(QosPolicy(o).rate)
    /\ \A t \in Ids("trunks") : TrunkPort(t) \in TrunkPortRows /\ TrunkValid(TrunkPort(t))

=============================================================================
