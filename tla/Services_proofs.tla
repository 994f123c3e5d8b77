--------------------------- MODULE Services_proofs ---------------------------
(***************************************************************************)
(* The properties of Services, from the invariant of Store_proofs and two  *)
(* that are stronger.                                                      *)
(*                                                                         *)
(* RowsAreSound and DerivedIsOwn follow of GoodState alone.  TakenOnce and *)
(* AddressesFit need to know what a suspended request has seen: SeenInv    *)
(* says that it is still so unless another write has overtaken it, in      *)
(* which case its save is late; that the saves of one request are of       *)
(* different rows, so that none unsees what the next has seen; and, for    *)
(* RefusedIsThere, that a bundle is put back in order, and that nobody     *)
(* takes the subnet from a network it has put back.  The steps that        *)
(* AccessHolds, NothingForgotten and SchedulesRunAsAsked forbid need       *)
(* StepInv: that besides what a request is about to create is nobody       *)
(* else's - else its save would revive a token or an account -, and that   *)
(* what a sweep is about to delete is in the archive.  RowStep then says   *)
(* what any step may do to a row, and each action property is a case of it. *)
(***************************************************************************)
EXTENDS Store_proofs

(* Networks and addresses load, and an address has its network. *)
LEMMA IpamSound == ASSUME GoodState PROVE IpamTypeOK
<1>1. \A n \in Ids("networks") : Network(n) \in NetworkRows
  BY NetworkThere DEF NetworkOk
<1>2. ASSUME NEW a \in Ids("allocs")
      PROVE  Allocation(a) \in AllocationRows /\ Allocation(a).subnet \in Ids("networks")
  <2>1. Allocation(a) \in AllocationRows /\ Allocation(a) = Rows("allocs")[a]
    BY RowThere DEF GoodRow, AllocationOk, Allocation
  <2>2. Allocation(a).subnet # None
    BY <2>1, IpamAssumption DEF AllocationRows
  <2> QED
    BY <2>1, <2>2, Leads, TheKeys
<1> QED
  BY <1>1, <1>2 DEF IpamTypeOK

(* Accounts, tokens and projects load, and a token has its account. *)
LEMMA AccessSound == ASSUME GoodState PROVE AccessTypeOK
<1>1. ASSUME NEW tk \in Ids("tokens") PROVE Token(tk) \in TokenRows /\ Token(tk).account \in Ids("accounts")
  <2>1. Token(tk) \in TokenRows /\ Token(tk) = Rows("tokens")[tk]
    BY TokenThere DEF Token
  <2>2. Token(tk).account # None
    BY <2>1, AccessAssumption DEF TokenRows
  <2> QED
    BY <2>1, <2>2, Leads, TheKeys
<1>2. ASSUME NEW k \in Ids("members")
      PROVE  ProjectMember(k) \in ProjectMemberRows /\ ProjectMember(k).project \in Ids("projects")
  <2>1. ProjectMember(k) \in ProjectMemberRows /\ ProjectMember(k) = Rows("members")[k]
    BY RowThere DEF GoodRow, MemberOk, ProjectMember
  <2>2. ProjectMember(k).project # None
    BY <2>1, AccessAssumption DEF ProjectMemberRows
  <2> QED
    BY <2>1, <2>2, Leads, TheKeys
<1>3. ASSUME NEW a \in Ids("accounts") PROVE Account(a) \in AccountRows /\ Named(Account(a).name) = {a}
  <2>1. \A b \in Ids("accounts") : Account(b) \in AccountRows /\ Account(b) = Rows("accounts")[b]
    BY AccountThere DEF Account
  <2>2. \A b \in Ids("accounts") : Account(b).name # None
    BY <2>1, AccessAssumption DEF AccountRows
  <2>3. ASSUME NEW b \in Ids("accounts"), Account(b).name = Account(a).name PROVE b = a
    <3>1. <<"accounts", {"name"}>> \in UniqueKeys
      BY DEF UniqueKeys
    <3>2. \A c \in {"name"} : Rows("accounts")[b][c] = Rows("accounts")[a][c] /\ Rows("accounts")[a][c] # None
      BY <2>1, <2>2, <2>3
    <3> QED
      BY <3>1, <3>2, Alone
  <2> QED
    BY <2>1, <2>3 DEF Named
<1>4. ASSUME NEW p \in Ids("projects"), NEW o \in Ids("projects")
      PROVE  Project(p) \in ProjectRows /\ (Project(p).slug = Project(o).slug => p = o)
  <2>1. \A x \in Ids("projects") : Project(x) \in ProjectRows /\ Project(x) = Rows("projects")[x]
    BY RowThere DEF GoodRow, ProjectOk, Project
  <2>2. ASSUME Project(p).slug = Project(o).slug PROVE p = o
    <3>1. <<"projects", {"slug"}>> \in UniqueKeys
      BY DEF UniqueKeys
    <3>2. Project(o).slug # None
      BY <2>1, AccessAssumption DEF ProjectRows
    <3>3. \A c \in {"slug"} : Rows("projects")[p][c] = Rows("projects")[o][c] /\ Rows("projects")[o][c] # None
      BY <2>1, <2>2, <3>2
    <3> QED
      BY <3>1, <3>3, Alone
  <2> QED
    BY <2>1, <2>2
<1> QED
  BY <1>1, <1>2, <1>3, <1>4 DEF AccessTypeOK

(* A router that is there passed its validation. *)
LEMMA RouterThere ==
    ASSUME GoodState, NEW id \in Ids("routers")
    PROVE  RouterOk(id, Router(id)) /\ Router(id) \in RouterRows
BY RowThere DEF GoodRow, Router, RouterOk

(* Routers, floating IPs and peers load, and refer to routers that are   *)
(* there.                                                                *)
LEMMA RoutingSound == ASSUME GoodState PROVE RoutingTypeOK
<1>1. \A id \in Ids("routers") : Router(id) \in RouterRows /\ RouterValid(Router(id))
  BY RouterThere DEF RouterOk
<1>2. \A f \in Ids("fips") : FloatingIp(f) \in FloatingIpRows
  BY RowThere DEF GoodRow, FipOk, FloatingIp
<1>3. ASSUME NEW p \in Ids("peers") PROVE BgpPeer(p) \in BgpPeerRows /\ BgpPeer(p).router \in Ids("routers")
  <2>1. BgpPeer(p) \in BgpPeerRows /\ BgpPeer(p) = Rows("peers")[p]
    BY RowThere DEF GoodRow, PeerOk, BgpPeer
  <2>2. BgpPeer(p).router # None
    BY <2>1, RoutingAssumption DEF BgpPeerRows
  <2> QED
    BY <2>1, <2>2, Leads, TheKeys
<1> QED
  BY <1>1, <1>2, <1>3 DEF RoutingTypeOK

(* Ports, groups, pools, trunks and QoS policies load, and refer to what *)
(* is there.                                                             *)
LEMMA PortsSound == ASSUME GoodState PROVE PortsTypeOK
<1>1. ASSUME NEW p \in Ids("ports") PROVE Port(p) \in LogicalPortRows
  <2> DEFINE row == Port(p)
  <2>1. PortOk(row) /\ row = Rows("ports")[p]
    BY RowThere DEF GoodRow, Port
  <2>2. row.node \in Ids("nodes") /\ row.network \in Ids("networks")
    <3>1. row.node # None /\ row.network # None
      BY <2>1 DEF PortOk
    <3> QED
      BY <2>1, <3>1, Leads, TheKeys
  <2> HIDE DEF row
  <2>3. row \in LogicalPortRows
    BY <2>1, <2>2 DEF PortOk, LogicalPortRows
  <2> QED
    BY <2>3 DEF row
<1>2. \A g \in Ids("groups") : Rows("groups")[g] \in SecurityGroupRows
  BY RowThere DEF GoodRow, GroupOk
<1>3. ASSUME NEW m \in Ids("groupMembers") PROVE GroupMember(m) \in SecurityGroupMemberRows
  <2> DEFINE row == GroupMember(m)
  <2>1. GroupMemberOk(row) /\ row = Rows("groupMembers")[m]
    BY RowThere DEF GoodRow, GroupMember
  <2>2. row.group \in Ids("groups")
    <3>1. row.group # None
      BY <2>1 DEF GroupMemberOk
    <3> QED
      BY <2>1, <3>1, Leads, TheKeys
  <2> HIDE DEF row
  <2>3. row \in SecurityGroupMemberRows
    BY <2>1, <2>2 DEF GroupMemberOk, SecurityGroupMemberRows
  <2> QED
    BY <2>3 DEF row
<1>4. \A a \in Ids("addressPools") : Rows("addressPools")[a] \in AddressPoolRows
  BY RowThere DEF GoodRow, AddressPoolOk
<1>5. \A o \in Ids("qos") : QosPolicy(o) \in QosPolicyRows /\ RateValid(QosPolicy(o).rate)
  BY RowThere DEF GoodRow, QosOk, QosPolicy
<1>6. ASSUME NEW t \in Ids("trunks") PROVE TrunkPort(t) \in TrunkPortRows /\ TrunkValid(TrunkPort(t))
  <2> DEFINE row == TrunkPort(t)
  <2>1. TrunkOk(row) /\ row = Rows("trunks")[t]
    BY RowThere DEF GoodRow, TrunkPort
  <2>2. row.node \in Ids("nodes")
    <3>1. row.node # None
      BY <2>1 DEF TrunkOk
    <3> QED
      BY <2>1, <3>1, Leads, TheKeys
  <2> HIDE DEF row
  <2>3. row \in TrunkPortRows /\ TrunkValid(row)
    BY <2>1, <2>2 DEF TrunkOk, TrunkPortRows
  <2> QED
    BY <2>3 DEF row
<1> QED
  BY <1>1, <1>2, <1>3, <1>4, <1>5, <1>6 DEF PortsTypeOK

(* A policy that is there is of a state its class allows. *)
LEMMA PolicyThere ==
    ASSUME GoodState, NEW id \in Ids("policies")
    PROVE  PolicyOk(Policy(id))
BY RowThere DEF GoodRow, Policy

(* Services and policies load, and what was compiled is a ruleset. *)
LEMMA PoliciesSound == ASSUME GoodState PROVE PoliciesTypeOK
<1>1. \A v \in Ids("services") : ServiceObject(v) \in ServiceObjectRows
  BY RowThere DEF GoodRow, ServiceOk, ServiceObject
<1>2. ASSUME NEW id \in Ids("policies")
      PROVE  /\ Policy(id).status \in {"draft", "compiled", "applied"} /\ Policy(id).rules \subseteq PolicyRuleRows
             /\ Policy(id).status = "draft" <=> Policy(id).compiled = None
             /\ Policy(id).compiled \in Compilations \cup {None}
             /\ \A r, s \in Policy(id).rules : r.id = s.id => r = s
  <2> DEFINE row == Policy(id)
  <2>1. PolicyOk(row)
    BY PolicyThere
  <2> HIDE DEF row
  <2>2. /\ row.status \in {"draft", "compiled", "applied"} /\ row.rules \subseteq PolicyRuleRows
        /\ row.status = "draft" <=> row.compiled = None
        /\ row.compiled \in Compilations \cup {None}
        /\ \A r, s \in row.rules : r.id = s.id => r = s
    BY <2>1 DEF PolicyOk
  <2> QED
    BY <2>2 DEF row
<1> QED
  BY <1>1, <1>2 DEF PoliciesTypeOK

(* Quotas, snapshots, bonds and retention policies load. *)
LEMMA GovernanceSound == ASSUME GoodState PROVE GovernanceTypeOK
<1>1. \A b \in Ids("bonds") : Bond(b) \in BondRows /\ MtuValid(Bond(b).mtu)
  BY RowThere DEF GoodRow, BondOk, Bond
<1>2. \A k \in Ids("retention") : RetentionPolicy(k) \in RetentionRows /\ DaysValid(RetentionPolicy(k).days)
  BY RowThere DEF GoodRow, RetentionOk, RetentionPolicy
<1>3. ASSUME NEW s \in Ids("snapshots") PROVE Snapshot(s) \in SnapshotRows
  <2> DEFINE row == Snapshot(s)
  <2>1. row \in [project : Owners, version : 1 .. asked]
    BY RowThere DEF GoodRow, SnapshotOk, Snapshot
  <2>2. 1 .. asked \subseteq 1 .. MaxAsked
    BY StoreAssumption DEF GoodState
  <2> HIDE DEF row
  <2>3. row \in SnapshotRows
    BY <2>1, <2>2 DEF SnapshotRows
  <2> QED
    BY <2>3 DEF row
<1>4. \A k \in Ids("quotas") : Quota(k) \in QuotaRows
  BY RowThere DEF GoodRow, QuotaOk, Quota
<1> QED
  BY <1>1, <1>2, <1>3, <1>4 DEF GovernanceTypeOK

(* Load balancers and their parts load, and refer to what is there. *)
LEMMA BalancingSound == ASSUME GoodState PROVE BalancingTypeOK
<1>1. ASSUME NEW n \in Ids("listeners") PROVE Listener(n) \in ListenerRows /\ Listener(n).lb \in Ids("lbs")
  <2>1. Listener(n) \in ListenerRows /\ Listener(n) = Rows("listeners")[n]
    BY RowThere DEF GoodRow, ListenerOk, Listener
  <2>2. Listener(n).lb # None
    BY <2>1, BalancingAssumption DEF ListenerRows
  <2> QED
    BY <2>1, <2>2, Leads, TheKeys
<1>2. ASSUME NEW p \in Ids("lbPools") PROVE LbPool(p) \in LbPoolRows /\ LbPool(p).lb \in Ids("lbs")
  <2>1. LbPool(p) \in LbPoolRows /\ LbPool(p) = Rows("lbPools")[p]
    BY RowThere DEF GoodRow, LbPoolOk, LbPool
  <2>2. LbPool(p).lb # None
    BY <2>1, BalancingAssumption DEF LbPoolRows
  <2> QED
    BY <2>1, <2>2, Leads, TheKeys
<1>3. ASSUME NEW m \in Ids("lbMembers") PROVE LbMember(m) \in LbMemberRows /\ LbMember(m).pool \in Ids("lbPools")
  <2>1. LbMember(m) \in LbMemberRows /\ LbMember(m) = Rows("lbMembers")[m]
    BY RowThere DEF GoodRow, LbMemberOk, LbMember
  <2>2. LbMember(m).pool # None
    BY <2>1, BalancingAssumption DEF LbMemberRows
  <2> QED
    BY <2>1, <2>2, Leads, TheKeys
<1>4. ASSUME NEW k \in Ids("monitors")
      PROVE  Monitor(k) \in MonitorRows /\ Monitor(k).pool \in Ids("lbPools") /\ Monitor(k).pool # None
  <2>1. Monitor(k) \in MonitorRows /\ Monitor(k) = Rows("monitors")[k]
    BY RowThere DEF GoodRow, MonitorOk, Monitor
  <2>2. Monitor(k).pool # None
    BY <2>1, BalancingAssumption DEF MonitorRows
  <2> QED
    BY <2>1, <2>2, Leads, TheKeys
<1>5. ASSUME NEW p \in Ids("lbPools") PROVE Cardinality(MonitorsOf(p)) <= 1
  <2>1. \A k, l \in MonitorsOf(p) : k = l
    <3> SUFFICES ASSUME NEW k \in MonitorsOf(p), NEW l \in MonitorsOf(p) PROVE k = l
      OBVIOUS
    <3>1. k \in Ids("monitors") /\ l \in Ids("monitors") /\ Monitor(k).pool = p /\ Monitor(l).pool = p
      BY DEF MonitorsOf
    <3>2. <<"monitors", {"pool"}>> \in UniqueKeys
      BY DEF UniqueKeys
    <3>3. \A c \in {"pool"} : Rows("monitors")[k][c] = Rows("monitors")[l][c] /\ Rows("monitors")[l][c] # None
      BY <1>4, <3>1 DEF Monitor
    <3> QED
      BY <3>1, <3>2, <3>3, Alone
  <2> QED
    BY <2>1, AtMostOne
<1> QED
  BY <1>1, <1>2, <1>3, <1>4, <1>5 DEF BalancingTypeOK

(* A schedule that is there has an expression that its parser accepts. *)
LEMMA ScheduleThere ==
    ASSUME GoodState, NEW s \in Ids("schedules")
    PROVE  /\ Schedule(s) \in ScheduleRows /\ ExprValid(Schedule(s).expr)
           /\ Schedule(s).status = "paused" => ~ Schedule(s).enabled
<1> DEFINE row == Schedule(s)
<1>1. ScheduleOk(s, row, asked)
  BY RowThere DEF GoodRow, Schedule
<1>2. 0 .. asked \subseteq 0 .. MaxAsked
  BY StoreAssumption DEF GoodState
<1> HIDE DEF row
<1>3. row \in ScheduleRows /\ ExprValid(row.expr) /\ (row.status = "paused" => ~ row.enabled)
  BY <1>1, <1>2 DEF ScheduleOk, ScheduleRows
<1> QED
  BY <1>3 DEF row

(* Schedules, mirrors, tunnels and peers load, and refer to what is      *)
(* there.                                                                *)
LEMMA AdvancedSound == ASSUME GoodState PROVE AdvancedTypeOK
<1>2. \A m \in Ids("mirrors") :
        LET row == Mirror(m)
        IN row \in MirrorRows /\ row.applied = IF row.status = "active" THEN MirrorConfig(row) ELSE None
  BY RowThere DEF GoodRow, MirrorOk, Mirror
<1>3. \A t \in Ids("tunnels") : Tunnel(t) \in TunnelRows
  BY RowThere DEF GoodRow, TunnelOk, Tunnel
<1>4. ASSUME NEW p \in Ids("vpnPeers") PROVE VpnPeer(p) \in VpnPeerRows /\ VpnPeer(p).tunnel \in Ids("tunnels")
  <2>1. VpnPeer(p) \in VpnPeerRows /\ VpnPeer(p) = Rows("vpnPeers")[p]
    BY RowThere DEF GoodRow, VpnPeerOk, VpnPeer
  <2>2. VpnPeer(p).tunnel # None
    BY <2>1, AdvancedAssumption DEF VpnPeerRows
  <2> QED
    BY <2>1, <2>2, Leads, TheKeys
<1> QED
  BY <1>2, <1>3, <1>4, ScheduleThere DEF AdvancedTypeOK

(* In every table the rows load and refer to rows that are there,        *)
(* whatever another handler deleted or edited between a look-up and a    *)
(* save.                                                                 *)
THEOREM RowsSound == Spec => []RowsAreSound
<1>1. GoodState => RowsAreSound
  BY IpamSound, AccessSound, RoutingSound, PortsSound, PoliciesSound, GovernanceSound, BalancingSound, AdvancedSound
  DEF RowsAreSound
<1> QED
  BY <1>1, StateIsGood, PTL

------------------------------------------------------------------------------
(* What is computed from a row and stored with it. *)

(* The unique key of the addresses. *)
LEMMA AddressesAlone == ASSUME GoodState PROVE AddressesUnique
<1> SUFFICES ASSUME NEW a \in Ids("allocs"), NEW b \in Ids("allocs"), Allocation(a) = Allocation(b)
             PROVE  a = b
  BY DEF AddressesUnique
<1>1. Allocation(b) \in AllocationRows /\ Allocation(a) = Rows("allocs")[a] /\ Allocation(b) = Rows("allocs")[b]
  BY RowThere DEF GoodRow, AllocationOk, Allocation
<1>2. <<"allocs", {"subnet", "ip"}>> \in UniqueKeys
  BY DEF UniqueKeys
<1>3. Allocation(b).subnet # None /\ Allocation(b).ip # None
  <2>1. Allocation(b).ip \in Addresses /\ Allocation(b).subnet \in Networks
    BY <1>1 DEF AllocationRows
  <2>2. Addresses \subseteq Nat
    BY IpamAssumption DEF Addresses
  <2> QED
    BY <2>1, <2>2, IpamAssumption
<1>4. \A c \in {"subnet", "ip"} : Rows("allocs")[a][c] = Rows("allocs")[b][c] /\ Rows("allocs")[b][c] # None
  BY <1>1, <1>3
<1> QED
  BY <1>2, <1>4, Alone

(* No route is stored twice. *)
LEMMA RoutesDiffer == ASSUME GoodState PROVE NoDuplicateRoute
<1> SUFFICES ASSUME NEW id \in Ids("routers") PROVE "DUPLICATE_ROUTE" \notin Preflight(Router(id))
  BY DEF NoDuplicateRoute
<1>1. \A m, n \in DOMAIN Router(id).routes : m # n => Router(id).routes[m] # Router(id).routes[n]
  BY RouterThere DEF RouterOk
<1> QED
  BY <1>1 DEF Preflight

(* A packet meets a rule. *)
Meets(r, found, p) == (r.source = "cidr" => p.inside) /\ p.port \in Statement(r, found).ports

(* The verdict on a packet is that of the first used rule it meets. *)
LEMMA VerdictFact ==
    ASSUME NEW R \in SUBSET PolicyRuleRows, IsFiniteSet(R), \A r, s \in R : r.id = s.id => r = s,
           NEW found, NEW p \in Packets
    PROVE  \/ Verdict(Ruleset(R, found), p) = "deny" /\ \A r \in Used(R, p.chain) : ~ Meets(r, found, p)
           \/ \E r \in Used(R, p.chain) :
                /\ Meets(r, found, p) /\ Verdict(Ruleset(R, found), p) = r.action
                /\ \A s \in Used(R, p.chain) : Meets(s, found, p) => s = r \/ Before(r, s)
<1> DEFINE U == Used(R, p.chain)
           n == Cardinality(U)
           f == Ordered(U)
           chain == Chain(R, p.chain, found)
           hits == {i \in DOMAIN chain : (chain[i].cidr => p.inside) /\ p.port \in chain[i].ports}
<1>1. U \in SUBSET R
  BY DEF Used
<1>2. IsListing(f, U, n) /\ n \in Nat
  BY <1>1, RulesFact
<1>3. chain = [i \in DOMAIN f |-> Statement(f[i], found)]
  BY DEF Chain
<1>4. Ruleset(R, found)[p.chain] = chain
  <2>1. p.chain = "ingress" \/ p.chain = "egress"
    BY DEF Packets
  <2> QED
    BY <2>1 DEF Ruleset
<1>5. Verdict(Ruleset(R, found), p) = IF hits = {} THEN "deny" ELSE chain[Min(hits)].action
  BY <1>4 DEF Verdict
<1> HIDE DEF chain, U, n, f
<1>6. DOMAIN chain = 1 .. n /\ \A i \in 1 .. n : f[i] \in U /\ chain[i] = Statement(f[i], found)
  BY <1>2, <1>3 DEF IsListing
<1>7. \A i \in 1 .. n : i \in hits <=> Meets(f[i], found, p)
  <2> SUFFICES ASSUME NEW i \in 1 .. n PROVE i \in hits <=> Meets(f[i], found, p)
    OBVIOUS
  <2>1. chain[i].cidr = (f[i].source = "cidr") /\ chain[i].ports = Statement(f[i], found).ports
    BY <1>6 DEF Statement
  <2> QED
    BY <1>6, <2>1 DEF Meets
<1>8. hits \subseteq 1 .. n
  BY <1>6
<1>9. CASE hits = {}
  <2>1. ASSUME NEW r \in U PROVE ~ Meets(r, found, p)
    <3>1. PICK i \in 1 .. n : f[i] = r
      BY <1>2 DEF IsListing
    <3> QED
      BY <1>7, <1>9, <3>1
  <2> QED
    BY <1>5, <1>9, <2>1 DEF U
<1>10. CASE hits # {}
  <2> DEFINE m == Min(hits)
             r == f[m]
  <2>1. m \in hits /\ \A i \in hits : m <= i
    BY <1>2, <1>8, <1>10, MinFact
  <2> HIDE DEF m
  <2>2. m \in 1 .. n /\ r \in U /\ Meets(r, found, p)
    BY <1>6, <1>7, <1>8, <2>1
  <2>3. Verdict(Ruleset(R, found), p) = r.action
    <3>1. Verdict(Ruleset(R, found), p) = chain[m].action
      BY <1>5, <1>10 DEF m
    <3>2. chain[m] = Statement(r, found)
      BY <1>6, <2>2
    <3> QED
      BY <3>1, <3>2 DEF Statement
  <2>4. ASSUME NEW s \in U, Meets(s, found, p) PROVE s = r \/ Before(r, s)
    <3>1. PICK i \in 1 .. n : f[i] = s
      BY <1>2 DEF IsListing
    <3>2. i \in hits
      BY <1>7, <2>4, <3>1
    <3>3. m <= i
      BY <2>1, <3>2
    <3>4. m = i \/ m < i
      BY <1>2, <2>2, <3>3
    <3>5. m < i => Before(f[m], f[i])
      BY <1>2, <2>2 DEF IsListing
    <3> QED
      BY <3>1, <3>4, <3>5
  <2> HIDE DEF r
  <2> QED
    BY <2>2, <2>3, <2>4 DEF U
<1> QED
  BY <1>9, <1>10

(* What the ruleset of a compiled policy is made of. *)
LEMMA CompiledThere ==
    ASSUME GoodState, NEW id \in Ids("policies"), Policy(id).compiled # None
    PROVE  /\ Policy(id).rules \in SUBSET PolicyRuleRows /\ IsFiniteSet(Policy(id).rules)
           /\ \A r, s \in Policy(id).rules : r.id = s.id => r = s
           /\ Policy(id).compiled.ruleset = Ruleset(Policy(id).rules, Policy(id).compiled.seen)
           /\ DOMAIN Policy(id).compiled.seen \subseteq Services
<1> DEFINE row == Policy(id)
           c == row.compiled
<1>1. PolicyOk(row)
  BY PolicyThere
<1> HIDE DEF row
<1>2. /\ row.rules \in SUBSET PolicyRuleRows /\ IsFiniteSet(row.rules)
      /\ \A r, s \in row.rules : r.id = s.id => r = s
      /\ c = [ruleset |-> Ruleset(row.rules, c.seen), seen |-> c.seen]
      /\ c \in Compilations
  BY <1>1 DEF PolicyOk, row
<1>3. c.ruleset = Ruleset(row.rules, c.seen)
  BY <1>2
<1>4. DOMAIN c.seen \subseteq Services
  BY <1>2 DEF Compilations
<1> QED
  BY <1>2, <1>3, <1>4 DEF row

(* Where all could be resolved the ruleset decides as the rules do. *)
LEMMA RulesetDecides == ASSUME GoodState PROVE RulesetDecidesAsRules
<1> SUFFICES ASSUME NEW id \in Ids("policies"), Policy(id).compiled # None,
                    \A r \in Policy(id).rules :
                        Resolved(r) /\ (r.service = None \/ r.service \in DOMAIN Policy(id).compiled.seen),
                    NEW p \in Packets
             PROVE  Verdict(Policy(id).compiled.ruleset, p)
                        \in Decisions(Policy(id).rules, Policy(id).compiled.seen, p)
  BY DEF RulesetDecidesAsRules
<1> DEFINE R == Policy(id).rules
           found == Policy(id).compiled.seen
           verdict == Verdict(Policy(id).compiled.ruleset, p)
           U == Used(R, p.chain)
           about == About(R, found, p)
<1>1. /\ R \in SUBSET PolicyRuleRows /\ IsFiniteSet(R) /\ \A r, s \in R : r.id = s.id => r = s
      /\ DOMAIN found \subseteq Services
      /\ verdict = Verdict(Ruleset(R, found), p)
  BY CompiledThere
<1>2. \A r \in R : Resolved(r) /\ (r.service = None \/ r.service \in DOMAIN found)
  OBVIOUS
<1> HIDE DEF R, found, verdict
<1>3. \/ verdict = "deny" /\ \A r \in U : ~ Meets(r, found, p)
      \/ \E r \in U : /\ Meets(r, found, p) /\ verdict = r.action
                      /\ \A s \in U : Meets(s, found, p) => s = r \/ Before(r, s)
  BY <1>1, VerdictFact
<1>4. \A r \in R : r \in about <=> r \in U /\ Meets(r, found, p)
  <2> SUFFICES ASSUME NEW r \in R PROVE r \in about <=> r \in U /\ Meets(r, found, p)
    OBVIOUS
  <2>1. Resolved(r) /\ (r.service = None \/ r.service \in DOMAIN found)
    BY <1>2
  <2>2. None \notin DOMAIN found
    BY <1>1, PoliciesAssumption
  <2>3. p.port \in PortNumbers
    BY DEF Packets
  <2>4. Statement(r, found).ports = IF r.service \in DOMAIN found THEN found[r.service] ELSE PortNumbers
    BY DEF Statement
  <2>5. (r.service # None => p.port \in found[r.service]) <=> p.port \in Statement(r, found).ports
    BY <2>1, <2>2, <2>3, <2>4
  <2> QED
    BY <2>1, <2>5 DEF Meets, Used, About
<1>5. about \subseteq R /\ U \subseteq R
  BY DEF About, Used
<1>6. \A r \in R : r.priority \in Nat
  <2>1. \A r \in RuleSpecs : r.priority \in Nat
    BY PoliciesAssumption
  <2> QED
    BY <1>1, <2>1 DEF PolicyRuleRows
<1> HIDE DEF U
<1>7. Decisions(R, found, p) =
        IF about = {} THEN {"deny"}
        ELSE {r.action : r \in {x \in about : \A s \in about : x.priority <= s.priority}}
  BY DEF Decisions
<1> HIDE DEF about
<1>8. CASE verdict = "deny" /\ \A r \in U : ~ Meets(r, found, p)
  <2>1. about = {}
    BY <1>4, <1>5, <1>8
  <2> QED
    BY <1>7, <1>8, <2>1 DEF verdict, R, found
<1>9. CASE \E r \in U : /\ Meets(r, found, p) /\ verdict = r.action
                        /\ \A s \in U : Meets(s, found, p) => s = r \/ Before(r, s)
  <2>1. PICK r \in U : /\ Meets(r, found, p) /\ verdict = r.action
                       /\ \A s \in U : Meets(s, found, p) => s = r \/ Before(r, s)
    BY <1>9
  <2>2. r \in about
    BY <1>4, <1>5, <2>1
  <2>3. \A s \in about : r.priority <= s.priority
    <3> SUFFICES ASSUME NEW s \in about PROVE r.priority <= s.priority
      OBVIOUS
    <3>1. s = r \/ Before(r, s)
      BY <1>4, <1>5, <2>1
    <3>2. r.priority \in Nat /\ s.priority \in Nat
      BY <1>5, <1>6
    <3> QED
      BY <3>1, <3>2 DEF Before
  <2>4. verdict \in Decisions(R, found, p)
    BY <1>7, <2>1, <2>2, <2>3
  <2> QED
    BY <2>4 DEF verdict, R, found
<1> QED
  BY <1>3, <1>8, <1>9

(* A group that nothing resolves takes its own rule out and lets nothing in. *)
LEMMA NothingUnwanted == ASSUME GoodState PROVE NoUnwantedAccept
<1> SUFFICES ASSUME NEW id \in Ids("policies"), Policy(id).compiled # None, NEW p \in Packets,
                    Verdict(Policy(id).compiled.ruleset, p) = "allow"
             PROVE  \E r \in Policy(id).rules :
                        /\ r.enabled /\ r.action = "allow" /\ r.direction \in {p.chain, "both"}
                        /\ r.source \in {"any", "blank"} \/ (r.source = "cidr" /\ p.inside)
  BY DEF NoUnwantedAccept
<1> DEFINE R == Policy(id).rules
           found == Policy(id).compiled.seen
<1>1. /\ R \in SUBSET PolicyRuleRows /\ IsFiniteSet(R) /\ \A r, s \in R : r.id = s.id => r = s
      /\ Verdict(Ruleset(R, found), p) = "allow"
  BY CompiledThere
<1> HIDE DEF R, found
<1>2. PICK r \in Used(R, p.chain) : Meets(r, found, p) /\ r.action = "allow"
  BY <1>1, VerdictFact
<1>3. /\ r \in R /\ r.enabled /\ r.direction \in {p.chain, "both"} /\ r.source # "group"
      /\ r.source = "cidr" => p.inside
  BY <1>2 DEF Used, Resolved, Meets
<1>4. r.source \in {"any", "cidr", "blank", "group"}
  BY <1>1, <1>3 DEF PolicyRuleRows, Sources
<1> QED
  BY <1>2, <1>3, <1>4 DEF R

(* The configuration applied to a router, a policy's compiled ruleset,   *)
(* the subnet part of a network's hash and the status of a floating IP   *)
(* and of a balancer are those of the row they are stored with,          *)
(* whichever saves overtook one another.                                 *)
THEOREM DerivedStaysOwn == Spec => []DerivedIsOwn
<1>1. ASSUME GoodState PROVE DerivedIsOwn
  <2>1. AppliedIsOwn
    BY <1>1, RouterThere DEF AppliedIsOwn, RouterOk
  <2>2. HashCoversSubnet
    BY <1>1, NetworkThere DEF HashCoversSubnet, NetworkOk
  <2>3. ASSUME NEW f \in Ids("fips")
        PROVE  /\ FloatingIp(f).status = "active" <=> FloatingIp(f).port # None
               /\ FloatingIp(f).router \in Ids("routers") \cup {None}
               /\ FloatingIp(f).status = "down" => FloatingIp(f).router = None
    <3>1. FipOk(FloatingIp(f)) /\ FloatingIp(f) = Rows("fips")[f]
      BY <1>1, RowThere DEF GoodRow, FloatingIp
    <3>2. FloatingIp(f).router = None \/ FloatingIp(f).router \in Ids("routers")
      BY <1>1, <3>1, Leads, TheKeys
    <3> QED
      BY <3>1, <3>2 DEF FipOk
  <2>4. DownWasAskedFor
    BY <1>1, RowThere DEF DownWasAskedFor, GoodRow, BalancerOk, Balancer
  <2> QED
    BY <1>1, <2>1, <2>2, <2>3, <2>4, RulesetDecides, NothingUnwanted DEF DerivedIsOwn, FipBound
<1> QED
  BY <1>1, StateIsGood, PTL

------------------------------------------------------------------------------
(* The allocator and the scheduler. *)

(* The address allocator of a network returns an address exactly as long *)
(* as there is one to reserve.                                           *)
THEOREM AllocatorStaysExact == Spec => []AllocatorIsExact
<1>1. ASSUME GoodState PROVE AllocatorIsExact
  <2> SUFFICES ASSUME NEW n \in Ids("networks"), Network(n).subnet # None
               PROVE  \/ NextAvailable(Network(n).subnet, InUse(n)) \in OpenIn(Network(n).subnet, InUse(n))
                      \/ /\ OpenIn(Network(n).subnet, InUse(n)) = {}
                         /\ NextAvailable(Network(n).subnet, InUse(n)) = None
    BY DEF AllocatorIsExact, OpenIn
  <2>1. Network(n).subnet \in Subnets
    BY <1>1, NetworkThere DEF NetworkOk, NetworkRows
  <2> QED
    BY <2>1, NextFact
<1> QED
  BY <1>1, StateIsGood, PTL

(* Multiples are what leaves no remainder. *)
LEMMA MultipleFact ==
    ASSUME NEW by \in Nat \ {0}, NEW x \in Nat
    PROVE  x % by = 0 <=> \E k \in 0 .. x : x = k * by
<1>1. ASSUME x % by = 0 PROVE \E k \in 0 .. x : x = k * by
  <2> DEFINE k == x \div by
  <2>1. k \in Nat /\ x = by * k + (x % by)
    OBVIOUS
  <2> HIDE DEF k
  <2>2. x = k * by
    BY <1>1, <2>1
  <2>3. k <= x
    BY <2>1, <2>2
  <2> QED
    BY <2>1, <2>2, <2>3
<1>2. ASSUME NEW k \in 0 .. x, x = k * by PROVE x % by = 0
  BY <1>2
<1> QED
  BY <1>1, <1>2

(* A field matches a time exactly when it lists it. *)
LEMMA FieldFact ==
    ASSUME NEW f \in Fields, NEW lo \in Nat, NEW hi \in Nat, WellFormed(f, lo, hi), NEW v \in lo .. hi
    PROVE  FieldMatches(f, v, lo) <=> v \in Listed(f, lo, hi)
<1>1. CASE f = Every
  <2>1. f.form = "every"
    BY <1>1 DEF Every
  <2> QED
    BY <2>1 DEF FieldMatches, Listed
<1>2. CASE f \in [form : {"step"}, by : Nat]
  <2>1. f.form = "step" /\ f.by \in Nat \ {0}
    BY <1>2 DEF WellFormed
  <2>2. FieldMatches(f, v, lo) <=> (v - lo) % f.by = 0
    BY <2>1 DEF FieldMatches
  <2>3. Listed(f, lo, hi) = {lo + k * f.by : k \in 0 .. hi} \cap (lo .. hi)
    BY <2>1 DEF Listed
  <2> DEFINE by == f.by
             x == v - lo
  <2>4. by \in Nat \ {0} /\ x \in Nat /\ x <= hi /\ v = lo + x /\ (FieldMatches(f, v, lo) <=> x % by = 0)
        /\ Listed(f, lo, hi) = {lo + k * by : k \in 0 .. hi} \cap (lo .. hi)
    BY <2>1, <2>2, <2>3
  <2> HIDE DEF by, x
  <2>5. x % by = 0 <=> \E k \in 0 .. x : x = k * by
    BY <2>4, MultipleFact
  <2>6. ASSUME NEW k \in 0 .. x, x = k * by PROVE v \in Listed(f, lo, hi)
    BY <2>4, <2>6
  <2>7. ASSUME v \in Listed(f, lo, hi) PROVE \E k \in 0 .. x : x = k * by
    <3>1. PICK k \in 0 .. hi : v = lo + k * by
      BY <2>4, <2>7
    <3>2. k * by \in Nat
      BY <2>4
    <3>3. x = k * by
      BY <2>4, <3>1, <3>2
    <3>4. k <= x
      BY <2>4, <3>3
    <3> QED
      BY <2>4, <3>3, <3>4
  <2> QED
    BY <2>4, <2>5, <2>6, <2>7
<1>3. CASE f \in [form : {"at"}, value : Nat]
  <2>1. f.form = "at"
    BY <1>3
  <2> QED
    BY <2>1 DEF FieldMatches, Listed
<1>4. CASE f \in [form : {"range"}, first : Nat, last : Nat]
  <2>1. f.form = "range"
    BY <1>4
  <2> QED
    BY <2>1 DEF FieldMatches, Listed
<1> QED
  BY <1>1, <1>2, <1>3, <1>4 DEF Fields

(* A schedule is due exactly at the times its expression lists. *)
LEMMA DueListed == ASSUME GoodState PROVE DueWhenListed
<1> SUFFICES ASSUME NEW s \in Ids("schedules"), NEW t \in Times
             PROVE  IsDue(Schedule(s).expr, t) <=>
                        /\ t.minute \in Listed(Schedule(s).expr.minute, 0, LastMinute)
                        /\ t.day \in Listed(Schedule(s).expr.day, 1, LastDay)
  BY DEF DueWhenListed
<1> DEFINE e == Schedule(s).expr
<1>1. e \in Exprs /\ ExprValid(e)
  BY ScheduleThere DEF ScheduleRows
<1> HIDE DEF e
<1>2. e.minute \in Fields /\ e.day \in Fields /\ LastMinute \in Nat /\ LastDay \in Nat
  BY <1>1, AdvancedAssumption
<1>3. t.minute \in 0 .. LastMinute /\ t.day \in 1 .. LastDay
  BY DEF Times
<1>4. FieldMatches(e.minute, t.minute, 0) <=> t.minute \in Listed(e.minute, 0, LastMinute)
  BY <1>1, <1>2, <1>3, FieldFact DEF ExprValid
<1>5. FieldMatches(e.day, t.day, 1) <=> t.day \in Listed(e.day, 1, LastDay)
  BY <1>1, <1>2, <1>3, FieldFact DEF ExprValid
<1> QED
  BY <1>4, <1>5 DEF IsDue, e

------------------------------------------------------------------------------
(* What a write changes, row by row. *)

\* e has the tables of d, and of their rows no other and no more - but for the
\* router of a floating IP.
Shrinks(e, d) ==
    /\ DOMAIN e = DOMAIN d
    /\ \A x \in DOMAIN d : x # "fips" =>
         DOMAIN e[x] \subseteq DOMAIN d[x] /\ \A i \in DOMAIN e[x] : e[x][i] = d[x][i]

(* A sweep takes rows away. *)
LEMMA SweepShrinks == ASSUME NEW d PROVE Shrinks(Sweep(d), d)
<1>1. DOMAIN Sweep(d) = DOMAIN d
  BY SweepFact
<1>2. ASSUME NEW x \in DOMAIN d, x # "fips"
      PROVE  DOMAIN Sweep(d)[x] \subseteq DOMAIN d[x] /\ \A i \in DOMAIN Sweep(d)[x] : Sweep(d)[x][i] = d[x][i]
  <2>1. /\ DOMAIN Sweep(d)[x] = DOMAIN d[x] \ Orphans(d, x, "cascade")
        /\ \A i \in DOMAIN Sweep(d)[x] : Sweep(d)[x][i] = Swept(d, x, i)
    BY SweepFact
  <2>2. \A i : Swept(d, x, i) = d[x][i]
    BY <1>2 DEF Swept
  <2> QED
    BY <2>1, <2>2
<1> QED
  BY <1>1, <1>2 DEF Shrinks

(* What is taken away in two turns is taken away. *)
LEMMA ShrinksTwice ==
    ASSUME NEW c, NEW d, NEW e, Shrinks(e, d), Shrinks(d, c)
    PROVE  Shrinks(e, c)
BY DEF Shrinks

(* A write that is no save takes rows away; a save stores its row, and the *)
(* save of a network then sweeps.                                          *)
LEMMA WrittenFact ==
    ASSUME NEW d, NEW tables, NEW n, NEW w, GoodWrite(w, tables, n), DOMAIN d = tables
    PROVE  /\ w.kind \notin {"save", "insert"} => Shrinks(Written(d, w), d)
           /\ w.kind \in {"save", "insert"} =>
                /\ w.table \in DOMAIN d
                /\ Shrinks(Written(d, w), Stored(d, w.table, w.id, w.row))
                /\ w.table # "networks" => Written(d, w) = Stored(d, w.table, w.id, w.row)
                /\ w.table = "networks" =>
                     DOMAIN Written(d, w)["networks"] = DOMAIN Stored(d, w.table, w.id, w.row)["networks"]
<1>0. \A S, t : Shrinks([d EXCEPT ![t] = Keep(@, S)], d)
  BY DEF Shrinks, Keep
<1>1. CASE w.kind = "delete"
  <2> DEFINE e == [d EXCEPT ![w.table] = Keep(@, DOMAIN @ \ {w.id})]
  <2>1. Shrinks(e, d)
    BY <1>0
  <2>2. Written(d, w) = Sweep(Sweep(e))
    BY <1>1 DEF Written, Deleted
  <2> HIDE DEF e
  <2>3. Shrinks(Sweep(Sweep(e)), d)
    <3>1. Shrinks(Sweep(e), d)
      BY <2>1, SweepShrinks, ShrinksTwice
    <3> QED
      BY <3>1, SweepShrinks, ShrinksTwice
  <2> QED
    BY <1>1, <2>2, <2>3
<1>2. CASE w.kind = "empty"
  <2>1. Written(d, w) = [d EXCEPT ![w.table] = Keep(@, {i \in DOMAIN @ : @[i][w.row] # w.id})]
    BY <1>2 DEF Written
  <2> QED
    BY <1>2, <2>1 DEF Shrinks, Keep
<1>3. CASE w.kind = "deleteAll"
  <2>1. Written(d, w) = [d EXCEPT ![w.table] = Keep(@, DOMAIN @ \ w.id)]
    BY <1>3 DEF Written
  <2> QED
    BY <1>3, <2>1 DEF Shrinks, Keep
<1>4. CASE w.kind \in {"save", "insert"}
  <2> DEFINE s == Stored(d, w.table, w.id, w.row)
  <2>1. Written(d, w) = IF w.table = "networks" THEN Sweep(s) ELSE s
    BY <1>4 DEF Written
  <2>2. w.table \in DOMAIN d /\ DOMAIN s = DOMAIN d
    BY <1>4, StoredFact DEF GoodWrite
  <2> HIDE DEF s
  <2>3. w.table = "networks" => DOMAIN Sweep(s)["networks"] = DOMAIN s["networks"]
    <3>1. \A k \in ForeignKeys : k.child # "networks"
      BY KeyFacts DEF KeyFact, Roots
    <3> QED
      BY <2>2, <3>1, SweepRoots
  <2>4. Shrinks(s, s)
    BY DEF Shrinks
  <2> QED
    BY <1>4, <2>1, <2>2, <2>3, <2>4, SweepShrinks DEF s
<1> QED
  BY <1>1, <1>2, <1>3, <1>4 DEF GoodWrite

------------------------------------------------------------------------------
(* Nothing is taken twice.                                                 *)

\* Addresses have their networks.
Housed(d) ==
    "allocs" \in DOMAIN d =>
        /\ "networks" \in DOMAIN d
        /\ \A a \in DOMAIN d.allocs :
             d.allocs[a].subnet \in DOMAIN d.networks /\ d.networks[d.allocs[a].subnet].subnet # None

(* In good tables addresses are housed. *)
LEMMA GoodHoused ==
    ASSUME NEW d, NEW n, GoodDb(d, n), HasParents(d)
    PROVE  Housed(d)
<1> DEFINE k == Key("allocs", "subnet", "networks", "cascade")
<1>1. k \in ForeignKeys /\ k.child = "allocs" /\ k.parent = "networks" /\ k.field = "subnet"
  BY TheKeys DEF Key
<1> HIDE DEF k
<1> SUFFICES ASSUME "allocs" \in DOMAIN d PROVE Housed(d)
  BY DEF Housed
<1>2. "networks" \in DOMAIN d
  BY <1>1 DEF HasParents
<1>3. ASSUME NEW a \in DOMAIN d["allocs"]
      PROVE  /\ d["allocs"][a].subnet \in DOMAIN d["networks"]
             /\ d["networks"][d["allocs"][a].subnet].subnet # None
  <2>1. d["allocs"][a] \in AllocationRows
    BY <1>3 DEF GoodDb, GoodRows, GoodRow, AllocationOk
  <2>2. d["allocs"][a].subnet # None
    BY <2>1, IpamAssumption DEF AllocationRows
  <2>3. Exists(d, k, d["allocs"][a]["subnet"])
    BY <1>1, <2>2 DEF GoodDb, Refs, Refers
  <2> QED
    BY <1>1, <2>3 DEF Exists
<1> QED
  BY <1>2, <1>3 DEF Housed

(* What is taken away is not taken twice. *)
LEMMA TakenShrinks ==
    ASSUME NEW d, NEW e, NEW b, Taken(d, b), Shrinks(e, d), Housed(e)
    PROVE  Taken(e, b)
<1>1. OneGlobalPolicy(e)
  BY DEF Taken, Shrinks, OneGlobalPolicy
<1>2. VersionsDiffer(e)
  BY DEF Taken, Shrinks, VersionsDiffer
<1>3. KeysDiffer(e)
  BY DEF Taken, Shrinks, KeysDiffer
<1>4. NotStranded(e, b)
  <2> SUFFICES ASSUME "allocs" \in DOMAIN e, NEW a \in DOMAIN e["allocs"]
               PROVE  \/ Inside(e["allocs"][a].ip, e["networks"][e["allocs"][a].subnet].subnet.cidr)
                      \/ Plain(e["networks"][e["allocs"][a].subnet].subnet)
                      \/ Restored(b, a)
    BY DEF NotStranded
  <2>1. "networks" \in DOMAIN e /\ e["allocs"][a].subnet \in DOMAIN e["networks"]
    BY DEF Housed
  <2>2. "allocs" \in DOMAIN d /\ a \in DOMAIN d["allocs"] /\ d["allocs"][a] = e["allocs"][a]
    BY DEF Shrinks
  <2>3. d["networks"][e["allocs"][a].subnet] = e["networks"][e["allocs"][a].subnet]
    BY <2>1 DEF Shrinks
  <2> QED
    BY <2>2, <2>3 DEF Taken, NotStranded
<1> QED
  BY <1>1, <1>2, <1>3, <1>4 DEF Taken

(* Other tables are no matter. *)
LEMMA TakenElsewhere ==
    ASSUME NEW d, NEW e, NEW b, Taken(d, b), DOMAIN e = DOMAIN d, Housed(d),
           \A x \in {"retention", "snapshots", "vpnPeers", "allocs", "networks"} : x \in DOMAIN d => e[x] = d[x]
    PROVE  Taken(e, b)
<1>1. OneGlobalPolicy(e)
  BY DEF Taken, OneGlobalPolicy
<1>2. VersionsDiffer(e)
  BY DEF Taken, VersionsDiffer
<1>3. KeysDiffer(e)
  BY DEF Taken, KeysDiffer
<1>4. NotStranded(e, b)
  <2>1. CASE "allocs" \in DOMAIN d
    <3>1. e["allocs"] = d["allocs"] /\ e["networks"] = d["networks"]
      BY <2>1 DEF Housed
    <3> QED
      BY <2>1, <3>1 DEF Taken, NotStranded
  <2>2. CASE "allocs" \notin DOMAIN d
    BY <2>2 DEF NotStranded
  <2> QED
    BY <2>1, <2>2
<1> QED
  BY <1>1, <1>2, <1>3, <1>4 DEF Taken

(* A save that has seen the table of policies leaves one that is global.   *)
LEMMA RetentionSaved ==
    ASSUME NEW d, NEW id, NEW row, "retention" \in DOMAIN d, OneGlobalPolicy(d), NEW w, w.id = id, w.row = row,
           SeenRetention(w, d), "project" \in DOMAIN row
    PROVE  OneGlobalPolicy(Stored(d, "retention", id, row))
<1> DEFINE t == "retention"
           s == Stored(d, t, id, row)
<1>1. /\ DOMAIN s[t] = DOMAIN d[t] \cup {id}
      /\ \A i \in DOMAIN d[t] : i # id => s[t][i] = d[t][i]
      /\ s[t][id] = IF id \in DOMAIN d[t] THEN Merged(t, row, d[t][id]) ELSE row
  BY StoredFact
<1>2. id \in DOMAIN d[t] => Merged(t, row, d[t][id]).project = d[t][id].project
  <2>1. Columns[t] = {"days"}
    BY DEF Columns, RetentionPolicyColumns
  <2> QED
    BY <2>1 DEF Merged
<1> HIDE DEF s
<1>3. OneGlobalPolicy(s)
  <2>1. CASE id \in DOMAIN d[t]
    <3>1. DOMAIN s[t] = DOMAIN d[t] /\ \A i \in DOMAIN d[t] : s[t][i].project = d[t][i].project
      BY <1>1, <1>2, <2>1
    <3> QED
      BY <3>1 DEF OneGlobalPolicy
  <2>2. CASE id \notin DOMAIN d[t]
    <3>1. row.project = None => \A j \in DOMAIN d[t] : d[t][j].project # None
      BY <2>2 DEF SeenRetention
    <3> QED
      BY <1>1, <2>2, <3>1 DEF OneGlobalPolicy
  <2> QED
    BY <2>1, <2>2
<1> QED
  BY <1>3 DEF s

(* A snapshot that has seen the versions gets its own.                     *)
LEMMA SnapshotSaved ==
    ASSUME NEW d, NEW id, NEW row, "snapshots" \in DOMAIN d, VersionsDiffer(d), NEW w, w.id = id, w.row = row,
           SeenSnapshots(w, d)
    PROVE  VersionsDiffer(Stored(d, "snapshots", id, row))
<1> DEFINE t == "snapshots"
           s == Stored(d, t, id, row)
<1>1. /\ DOMAIN s[t] = DOMAIN d[t] \cup {id}
      /\ \A i \in DOMAIN d[t] : i # id => s[t][i] = d[t][i]
      /\ s[t][id] = IF id \in DOMAIN d[t] THEN Merged(t, row, d[t][id]) ELSE row
  BY StoredFact
<1> HIDE DEF s
<1>2. id \notin DOMAIN d[t] /\ \A j \in DOMAIN d[t] : d[t][j].project = row.project => d[t][j].version # row.version
  BY DEF SeenSnapshots
<1>3. VersionsDiffer(s)
  BY <1>1, <1>2 DEF VersionsDiffer
<1> QED
  BY <1>3 DEF s

(* A peer that has seen the keys of its tunnel has its own.                *)
LEMMA PeerSaved ==
    ASSUME NEW d, NEW id, NEW row, "vpnPeers" \in DOMAIN d, KeysDiffer(d), NEW w, w.id = id, w.row = row,
           SeenKeys(w, d), DOMAIN row = {"tunnel", "key"}
    PROVE  KeysDiffer(Stored(d, "vpnPeers", id, row))
<1> DEFINE t == "vpnPeers"
           s == Stored(d, t, id, row)
<1>1. /\ DOMAIN s[t] = DOMAIN d[t] \cup {id}
      /\ \A i \in DOMAIN d[t] : i # id => s[t][i] = d[t][i]
      /\ s[t][id] = IF id \in DOMAIN d[t] THEN Merged(t, row, d[t][id]) ELSE row
  BY StoredFact
<1>2. id \in DOMAIN d[t] => Merged(t, row, d[t][id]).tunnel = d[t][id].tunnel
                            /\ Merged(t, row, d[t][id]).key = d[t][id].key
  <2> SUFFICES ASSUME id \in DOMAIN d[t]
               PROVE  Merged(t, row, d[t][id]).tunnel = d[t][id].tunnel /\ Merged(t, row, d[t][id]).key = d[t][id].key
    OBVIOUS
  <2>1. row = d[t][id]
    BY DEF SeenKeys
  <2> QED
    BY <2>1 DEF Merged
<1> HIDE DEF s
<1>3. KeysDiffer(s)
  <2>1. CASE id \in DOMAIN d[t]
    <3>1. DOMAIN s[t] = DOMAIN d[t] /\ \A i \in DOMAIN d[t] : s[t][i].tunnel = d[t][i].tunnel
                /\ s[t][i].key = d[t][i].key
      BY <1>1, <1>2, <2>1
    <3> QED
      BY <3>1 DEF KeysDiffer
  <2>2. CASE id \notin DOMAIN d[t]
    <3>1. \A j \in DOMAIN d[t] : d[t][j].tunnel = row.tunnel => d[t][j].key # row.key
      BY <2>2 DEF SeenKeys
    <3> QED
      BY <1>1, <2>2, <3>1 DEF KeysDiffer
  <2> QED
    BY <2>1, <2>2
<1> QED
  BY <1>3 DEF s

(* An address that was inside its subnet when its request saw both is so   *)
(* where both are as it saw them; one that comes with a bundle is excused. *)
LEMMA AddressSaved ==
    ASSUME NEW d, NEW id, NEW row, NEW b, "allocs" \in DOMAIN d, Housed(d), NotStranded(d, b),
           DOMAIN row = {"subnet", "ip"},
           NEW w, w.id = id, w.row = row, SeenSubnet(w, d) \/ Restored(b, id)
    PROVE  NotStranded(Stored(d, "allocs", id, row), b)
<1> DEFINE t == "allocs"
           s == Stored(d, t, id, row)
<1>1. /\ DOMAIN s[t] = DOMAIN d[t] \cup {id}
      /\ \A x \in DOMAIN d : x # t => s[x] = d[x]
      /\ \A i \in DOMAIN d[t] : i # id => s[t][i] = d[t][i]
      /\ s[t][id] = IF id \in DOMAIN d[t] THEN Merged(t, row, d[t][id]) ELSE row
  BY StoredFact
<1>2. id \in DOMAIN d[t] => Merged(t, row, d[t][id]).subnet = row.subnet /\ Merged(t, row, d[t][id]).ip = row.ip
  <2>1. Columns[t] = {"subnet", "ip"}
    BY DEF Columns, IpAllocationColumns
  <2> QED
    BY <2>1 DEF Merged
<1> HIDE DEF s
<1>3. s["networks"] = d["networks"] /\ s[t][id].subnet = row.subnet /\ s[t][id].ip = row.ip
  BY <1>1, <1>2 DEF Housed
<1>4. NotStranded(s, b)
  <2> SUFFICES ASSUME NEW a \in DOMAIN s[t]
               PROVE  \/ Inside(s[t][a].ip, d["networks"][s[t][a].subnet].subnet.cidr)
                      \/ Plain(d["networks"][s[t][a].subnet].subnet)
                      \/ Restored(b, a)
    BY <1>3 DEF NotStranded
  <2>1. CASE a # id
    BY <1>1, <2>1 DEF NotStranded
  <2>2. CASE a = id
    BY <1>3, <2>2 DEF SeenSubnet
  <2> QED
    BY <2>1, <2>2
<1> QED
  BY <1>4 DEF s

(* A network is saved without regard to its addresses only when its subnet *)
(* is plain; a new one has no addresses yet.                               *)
LEMMA NetworkSaved ==
    ASSUME NEW d, NEW id, NEW row, NEW b, "networks" \in DOMAIN d, Housed(d), NotStranded(d, b),
           "subnet" \in DOMAIN row,
           NEW w, w.id = id, w.row = row, NEW reads, SeenNetworks(reads, w, d) \/ id \notin DOMAIN d.networks,
           NEW e, Shrinks(e, Stored(d, "networks", id, row)), Housed(e)
    PROVE  NotStranded(e, b)
<1> DEFINE t == "networks"
           s == Stored(d, t, id, row)
<1>1. /\ DOMAIN s = DOMAIN d
      /\ DOMAIN s[t] = DOMAIN d[t] \cup {id}
      /\ \A x \in DOMAIN d : x # t => s[x] = d[x]
      /\ \A i \in DOMAIN d[t] : i # id => s[t][i] = d[t][i]
      /\ s[t][id] = IF id \in DOMAIN d[t] THEN Merged(t, row, d[t][id]) ELSE row
  BY StoredFact
<1>2. id \in DOMAIN d[t] => Merged(t, row, d[t][id]).subnet = row.subnet
  <2>1. Columns[t] = {"subnet", "hash"}
    BY DEF Columns, NetworkColumns
  <2> QED
    BY <2>1 DEF Merged
<1>3. Shrinks(e, s)
  OBVIOUS
<1> HIDE DEF s
<1> SUFFICES ASSUME "allocs" \in DOMAIN e, NEW a \in DOMAIN e["allocs"]
             PROVE  \/ Inside(e["allocs"][a].ip, e[t][e["allocs"][a].subnet].subnet.cidr)
                    \/ Plain(e[t][e["allocs"][a].subnet].subnet)
                    \/ Restored(b, a)
  BY DEF NotStranded
<1>4. "allocs" \in DOMAIN d /\ a \in DOMAIN d["allocs"] /\ e["allocs"][a] = d["allocs"][a]
  BY <1>1, <1>3 DEF Shrinks
<1> DEFINE n == d["allocs"][a].subnet
<1>5. n \in DOMAIN d[t] /\ n \in DOMAIN e[t] /\ e[t][n].subnet # None
  BY <1>4 DEF Housed
<1>6. e[t][n] = s[t][n]
  BY <1>1, <1>3, <1>5 DEF Shrinks
<1> HIDE DEF n
<1>7. \/ Inside(d["allocs"][a].ip, d[t][n].subnet.cidr)
      \/ Plain(d[t][n].subnet)
      \/ Restored(b, a)
  BY <1>4 DEF NotStranded, n
<1>8. CASE n # id
  BY <1>1, <1>4, <1>5, <1>6, <1>7, <1>8 DEF n
<1>9. CASE n = id
  <2>1. e[t][n].subnet = row.subnet
    BY <1>1, <1>2, <1>5, <1>6, <1>9
  <2>2. CASE Plain(row.subnet)
    BY <1>4, <2>1, <2>2 DEF n
  <2>3. CASE row.subnet = d[t][n].subnet
    BY <1>4, <1>7, <2>1, <2>3 DEF n
  <2>4. CASE Encloses(d, id, row.subnet)
    BY <1>4, <1>9, <2>1, <2>4 DEF n, Encloses
  <2> QED
    BY <1>5, <1>9, <2>1, <2>2, <2>3, <2>4 DEF SeenNetworks
<1> QED
  BY <1>8, <1>9

(* A write that has seen what it decides on takes nothing twice.           *)
LEMMA TakenWritten ==
    ASSUME NEW d, NEW n, NEW b, NEW reads, NEW w, HasParents(d), GoodDb(d, n), GoodWrite(w, DOMAIN d, n),
           ~ Refused(d, w), Taken(d, b),
           w.kind = "save" => w.table \in Guarded \/ Seen(reads, w, d),
           w.kind = "insert" => w.table \in {"networks", "nodes", "accounts", "allocs"},
           w.kind = "insert" /\ w.table = "allocs" => Restored(b, w.id)
    PROVE  Taken(Written(d, w), b)
<1> DEFINE e == Written(d, w)
           t == w.table
           s == Stored(d, t, w.id, w.row)
<1>1. GoodDb(e, n) /\ DOMAIN e = DOMAIN d
  BY WrittenGood
<1>2. Housed(d) /\ Housed(e)
  <2>1. HasParents(e)
    BY <1>1 DEF HasParents
  <2> QED
    BY <1>1, <2>1, GoodHoused
<1>3. /\ w.kind \notin {"save", "insert"} => Shrinks(e, d)
      /\ w.kind \in {"save", "insert"} => t \in DOMAIN d /\ Shrinks(e, s) /\ (t # "networks" => e = s)
  BY WrittenFact
<1>4. t \in DOMAIN d => DOMAIN s = DOMAIN d /\ \A x \in DOMAIN d : x # t => s[x] = d[x]
  BY StoredFact
<1>5. w.kind = "insert" => w.id \notin DOMAIN d[t]
  BY DEF Refused, IsKnown
<1>6. w.kind \in {"save", "insert"} => GoodRow(t, w.id, w.row, n)
  BY DEF GoodWrite
<1>7. OneGlobalPolicy(d) /\ VersionsDiffer(d) /\ KeysDiffer(d) /\ NotStranded(d, b)
  BY DEF Taken
<1> HIDE DEF e, s
<1>8. CASE w.kind \notin {"save", "insert"}
  BY <1>2, <1>3, <1>8, TakenShrinks DEF e
<1>9. CASE w.kind \in {"save", "insert"}
  <2>0. /\ w.kind = "insert" => t \in {"networks", "nodes", "accounts", "allocs"}
        /\ w.kind = "save" => t \in Guarded \/ Seen(reads, w, d)
        /\ t \in DOMAIN d /\ w.kind \in {"save", "insert"}
    BY <1>3, <1>9
  <2>1. CASE t \notin {"retention", "snapshots", "vpnPeers", "allocs", "networks"}
    <3>1. e = s
      BY <1>3, <1>9, <2>1
    <3>2. DOMAIN e = DOMAIN d
          /\ \A x \in {"retention", "snapshots", "vpnPeers", "allocs", "networks"} : x \in DOMAIN d => e[x] = d[x]
      BY <1>4, <2>0, <2>1, <3>1
    <3> QED
      BY <1>2, <3>2, TakenElsewhere DEF e
  <2>2. CASE t = "retention"
    <3>1. SeenRetention(w, d)
      BY <2>0, <2>2 DEF Seen, Guarded
    <3>2. "project" \in DOMAIN w.row
      <4>1. w.row \in RetentionRows
        BY <1>6, <1>9, <2>2 DEF GoodRow, RetentionOk
      <4> QED
        BY <4>1 DEF RetentionRows
    <3>3. OneGlobalPolicy(s)
      BY <1>7, <2>0, <2>2, <3>1, <3>2, RetentionSaved DEF s
    <3>4. e = s
      BY <1>3, <1>9, <2>2
    <3>5. VersionsDiffer(s) /\ KeysDiffer(s)
      BY <1>4, <1>7, <2>0, <2>2 DEF VersionsDiffer, KeysDiffer
    <3>6. NotStranded(s, b)
      BY <1>2, <1>4, <1>7, <2>0, <2>2 DEF NotStranded, Housed
    <3> QED
      BY <3>3, <3>4, <3>5, <3>6 DEF Taken, e
  <2>3. CASE t = "snapshots"
    <3>1. SeenSnapshots(w, d)
      BY <2>0, <2>3 DEF Seen, Guarded
    <3>3. VersionsDiffer(s)
      BY <1>7, <2>0, <2>3, <3>1, SnapshotSaved DEF s
    <3>4. e = s
      BY <1>3, <1>9, <2>3
    <3>5. OneGlobalPolicy(s) /\ KeysDiffer(s)
      BY <1>4, <1>7, <2>0, <2>3 DEF OneGlobalPolicy, KeysDiffer
    <3>6. NotStranded(s, b)
      BY <1>2, <1>4, <1>7, <2>0, <2>3 DEF NotStranded, Housed
    <3> QED
      BY <3>3, <3>4, <3>5, <3>6 DEF Taken, e
  <2>4. CASE t = "vpnPeers"
    <3>1. SeenKeys(w, d)
      BY <2>0, <2>4 DEF Seen, Guarded
    <3>2. DOMAIN w.row = {"tunnel", "key"}
      <4>1. w.row \in VpnPeerRows
        BY <1>6, <1>9, <2>4 DEF GoodRow, VpnPeerOk
      <4> QED
        BY <4>1 DEF VpnPeerRows
    <3>3. KeysDiffer(s)
      BY <1>7, <2>0, <2>4, <3>1, <3>2, PeerSaved DEF s
    <3>4. e = s
      BY <1>3, <1>9, <2>4
    <3>5. OneGlobalPolicy(s) /\ VersionsDiffer(s)
      BY <1>4, <1>7, <2>0, <2>4 DEF OneGlobalPolicy, VersionsDiffer
    <3>6. NotStranded(s, b)
      BY <1>2, <1>4, <1>7, <2>0, <2>4 DEF NotStranded, Housed
    <3> QED
      BY <3>3, <3>4, <3>5, <3>6 DEF Taken, e
  <2>5. CASE t = "allocs"
    <3>1. SeenSubnet(w, d) \/ Restored(b, w.id)
      BY <2>0, <2>5 DEF Seen, Guarded
    <3>2. DOMAIN w.row = {"subnet", "ip"}
      <4>1. w.row \in AllocationRows
        BY <1>6, <1>9, <2>5 DEF GoodRow, AllocationOk
      <4> QED
        BY <4>1 DEF AllocationRows
    <3>3. NotStranded(s, b)
      BY <1>2, <1>7, <2>0, <2>5, <3>1, <3>2, AddressSaved DEF s
    <3>4. e = s
      BY <1>3, <1>9, <2>5
    <3>5. OneGlobalPolicy(s) /\ VersionsDiffer(s) /\ KeysDiffer(s)
      BY <1>4, <1>7, <2>0, <2>5 DEF OneGlobalPolicy, VersionsDiffer, KeysDiffer
    <3> QED
      BY <3>3, <3>4, <3>5 DEF Taken, e
  <2>6. CASE t = "networks"
    <3>1. SeenNetworks(reads, w, d) \/ w.id \notin DOMAIN d["networks"]
      BY <1>5, <2>0, <2>6 DEF Seen, Guarded
    <3>2. "subnet" \in DOMAIN w.row
      <4>1. w.row \in NetworkRows
        BY <1>6, <1>9, <2>6 DEF GoodRow, NetworkOk
      <4> QED
        BY <4>1 DEF NetworkRows
    <3>3. Shrinks(e, Stored(d, "networks", w.id, w.row))
      BY <1>3, <1>9, <2>6 DEF s
    <3>4. NotStranded(e, b)
      BY <1>2, <1>7, <2>0, <2>6, <3>1, <3>2, <3>3, NetworkSaved
    <3>5. OneGlobalPolicy(s) /\ VersionsDiffer(s) /\ KeysDiffer(s)
      BY <1>4, <1>7, <2>0, <2>6 DEF OneGlobalPolicy, VersionsDiffer, KeysDiffer
    <3>6. Shrinks(e, s)
      BY <1>3, <1>9
    <3>7. OneGlobalPolicy(e)
      BY <3>5, <3>6 DEF Shrinks, OneGlobalPolicy
    <3>8. VersionsDiffer(e)
      BY <3>5, <3>6 DEF Shrinks, VersionsDiffer
    <3>9. KeysDiffer(e)
      BY <3>5, <3>6 DEF Shrinks, KeysDiffer
    <3> QED
      BY <3>4, <3>7, <3>8, <3>9 DEF Taken, e
  <2> QED
    BY <2>1, <2>2, <2>3, <2>4, <2>5, <2>6
<1> QED
  BY <1>8, <1>9

(* What was seen is so as long as the tables read are as they were.        *)
LEMMA SeenLater ==
    ASSUME NEW reads, NEW w, NEW d, NEW e, Seen(reads, w, d), DOMAIN e = DOMAIN d,
           \A t \in reads : e[t] = d[t]
    PROVE  Seen(reads, w, e)
<1>1. w.table = "retention" => "retention" \in reads /\ SeenRetention(w, e)
  BY DEF Seen, SeenRetention
<1>2. w.table = "snapshots" => "snapshots" \in reads /\ SeenSnapshots(w, e)
  BY DEF Seen, SeenSnapshots
<1>3. w.table = "vpnPeers" => "vpnPeers" \in reads /\ SeenKeys(w, e)
  BY DEF Seen, SeenKeys
<1>4. w.table = "networks" => "networks" \in reads /\ SeenNetworks(reads, w, e)
  BY DEF Seen, SeenNetworks, Encloses
<1>5. w.table = "allocs" => "networks" \in reads /\ SeenSubnet(w, e)
  BY DEF Seen, SeenSubnet
<1>6. w.table = "tokens" /\ "tokens" \in reads => SeenToken(w, e)
  BY DEF Seen, SeenToken
<1>7. w.table = "schedules" /\ "schedules" \in reads => SeenSchedule(w, e)
  BY DEF Seen, SeenSchedule
<1> QED
  BY <1>1, <1>2, <1>3, <1>4, <1>5, <1>6, <1>7 DEF Seen

(* A request does not unsee by its own save, of another row.               *)
LEMMA SeenStill ==
    ASSUME NEW reads, NEW w, NEW d, Seen(reads, w, d), w.table \in Guarded,
           NEW v, v.table \in Guarded, v.table \in DOMAIN d, w.table \in DOMAIN d,
           v.table = w.table => w.table = "schedules" /\ v.id # w.id
    PROVE  Seen(reads, w, Stored(d, v.table, v.id, v.row))
<1> DEFINE e == Stored(d, v.table, v.id, v.row)
<1>1. /\ \A x \in DOMAIN d : x # v.table => e[x] = d[x]
      /\ DOMAIN e = DOMAIN d
      /\ DOMAIN e[v.table] = DOMAIN d[v.table] \cup {v.id}
      /\ \A i \in DOMAIN d[v.table] : i # v.id => e[v.table][i] = d[v.table][i]
  BY StoredFact
<1> HIDE DEF e
<1>2. CASE w.table = "tokens"
  <2>1. e["tokens"] = d["tokens"]
    BY <1>1, <1>2
  <2> QED
    BY <1>2, <2>1 DEF Seen, SeenToken, e
<1>3. CASE w.table = "schedules"
  <2>1. w.id \in DOMAIN e["schedules"] <=> w.id \in DOMAIN d["schedules"]
    BY <1>1, <1>3
  <2>2. w.id \in DOMAIN d["schedules"] => e["schedules"][w.id] = d["schedules"][w.id]
    BY <1>1, <1>3
  <2> QED
    BY <1>3, <2>1, <2>2 DEF Seen, SeenSchedule, e
<1>4. CASE w.table = "accounts"
  BY <1>4 DEF Seen
<1> QED
  BY <1>2, <1>3, <1>4 DEF Guarded

------------------------------------------------------------------------------
(* The writes of a request, and what the others still have to write.       *)

(* The work of a request that has just read the tables takes nothing twice. *)
LEMMA LawfulTaken ==
    ASSUME GoodState, asked + 1 \in Nat, Taken(db, Bundle), NEW reads, NEW work, LawfulWork(reads, work)
    PROVE  Taken(AllWritten(db, work), Bundle)
<1> DEFINE d == db
           b == Bundle
           n == asked + 1
           at(k) == After(d, work, k)
           S == {k \in Nat : k <= Len(work) => Taken(at(k), b)}
<1>1. HasParents(d) /\ GoodDb(d, n) /\ GoodWork(work, DOMAIN d, n)
  <2>1. asked \in Nat /\ asked <= asked + 1
    BY StoreAssumption DEF GoodState
  <2> QED
    BY <2>1, ParentsKept, GoodLater, LawfulIsGood DEF GoodState
<1>2. \A k \in DOMAIN work :
        /\ GoodWrite(work[k], DOMAIN d, n)
        /\ work[k].kind = "save" => Seen(reads, work[k], d)
        /\ work[k].kind = "insert" => work[k].table \in {"networks", "nodes", "accounts", "allocs"}
        /\ work[k].kind = "insert" /\ work[k].table = "allocs" => Restored(b, work[k].id)
  BY DEF LawfulWork, LawfulWrite, Restored
<1>3. Apart(work)
  BY DEF LawfulWork
<1>4. Taken(d, b)
  OBVIOUS
<1> HIDE DEF d, b, n
<1>5. /\ Len(work) \in Nat /\ DOMAIN work = 1 .. Len(work)
      /\ at(0) = d /\ AllWritten(d, work) = at(Len(work))
      /\ \A k \in 0 .. Len(work) : GoodDb(at(k), n) /\ DOMAIN at(k) = DOMAIN d
      /\ \A k \in 0 .. Len(work) - 1 :
           at(k + 1) = at(k) \/ (~ Refused(at(k), work[k + 1]) /\ at(k + 1) = Written(at(k), work[k + 1]))
  BY <1>1, Stepwise
<1> HIDE DEF at
<1>6. ASSUME NEW k \in 0 .. Len(work) - 1, Taken(at(k), b) PROVE Taken(at(k + 1), b)
  <2> DEFINE w == work[k + 1]
             e == at(k)
  <2>1. k + 1 \in DOMAIN work /\ k \in 0 .. Len(work)
    BY <1>5
  <2>2. HasParents(e) /\ GoodDb(e, n) /\ DOMAIN e = DOMAIN d
    BY <1>1, <1>5, <2>1 DEF HasParents
  <2>3. /\ GoodWrite(w, DOMAIN e, n)
        /\ w.kind = "insert" => w.table \in {"networks", "nodes", "accounts", "allocs"}
        /\ w.kind = "insert" /\ w.table = "allocs" => Restored(b, w.id)
    BY <1>2, <2>1, <2>2
  <2>4. w.kind = "save" => w.table \in Guarded \/ Seen(reads, w, e)
    <3>1. CASE k = 0
      BY <1>2, <1>5, <2>1, <3>1
    <3>2. CASE k # 0
      <4>1. 1 \in DOMAIN work /\ 1 # k + 1
        BY <1>5, <2>1, <3>2
      <4> QED
        BY <1>3, <2>1, <4>1 DEF Apart
    <3> QED
      BY <3>1, <3>2
  <2>5. at(k + 1) = e \/ (~ Refused(e, w) /\ at(k + 1) = Written(e, w))
    BY <1>5
  <2> HIDE DEF w, e
  <2>6. ~ Refused(e, w) => Taken(Written(e, w), b)
    BY <1>6, <2>2, <2>3, <2>4, TakenWritten DEF e
  <2> QED
    BY <1>6, <2>5, <2>6 DEF e
<1>7. Nat \subseteq S
  <2>1. 0 \in S
    BY <1>4, <1>5
  <2>2. ASSUME NEW k \in Nat, k \in S PROVE k + 1 \in S
    <3> SUFFICES ASSUME k + 1 <= Len(work) PROVE Taken(at(k + 1), b)
      OBVIOUS
    <3>1. Taken(at(k), b) /\ k \in 0 .. Len(work) - 1
      BY <1>5, <2>2
    <3> QED
      BY <1>6, <3>1
  <2> HIDE DEF S
  <2> QED
    BY <2>1, <2>2, NatSetInduction
<1>8. Taken(at(Len(work)), b)
  BY <1>5, <1>7
<1> QED
  BY <1>5, <1>8 DEF d, b

(* Who has read tables that stay as they are has seen what is still so.    *)
LEMMA OthersSeen ==
    ASSUME GoodState, SeenIn(req, db), NEW d, DOMAIN d = DOMAIN db, NEW q \in Requests,
           Overtaken(d)[q] # Idle, ~ Overtaken(d)[q].overtaken,
           NEW k \in DOMAIN Overtaken(d)[q].work, Overtaken(d)[q].work[k].kind = "save"
    PROVE  Seen(Overtaken(d)[q].reads, Overtaken(d)[q].work[k], d)
<1>1. /\ req[q] # Idle /\ Overtaken(d)[q].work = req[q].work /\ Overtaken(d)[q].reads = req[q].reads
      /\ ~ req[q].overtaken /\ \A t \in req[q].reads : d[t] = db[t]
  BY OvertakenFact DEF GoodState
<1>2. Seen(req[q].reads, req[q].work[k], db)
  BY <1>1 DEF SeenIn
<1> QED
  BY <1>1, <1>2, SeenLater

(* A request keeps what it is about to write. *)
LEMMA OthersKeep ==
    ASSUME GoodState, NEW d, NEW q \in Requests, Overtaken(d)[q] # Idle
    PROVE  req[q] # Idle /\ Overtaken(d)[q].work = req[q].work /\ Overtaken(d)[q].reads = req[q].reads
BY OvertakenFact DEF GoodState

(* A new request among the others. *)
LEMMA Joined ==
    ASSUME GoodState, NEW q \in Requests, NEW r, NEW rs, rs = [req EXCEPT ![q] = r]
    PROVE  \A p \in Requests : rs[p] = IF p = q THEN r ELSE req[p]
BY DEF GoodState, GoodRequests

(* How a request goes on. *)
LEMMA WritesStep ==
    ASSUME GoodState, NEW q \in Requests, Writes(q)
    PROVE  LET w == Head(req[q].work)
               left == Tail(req[q].work)
           IN /\ req[q] # Idle /\ asked' = asked /\ files' = files
              /\ req[q].work # <<>> /\ GoodWork(req[q].work, DOMAIN db, asked)
              /\ DOMAIN req[q].work = 1 .. Len(req[q].work) /\ Len(req[q].work) \in Nat \ {0}
              /\ DOMAIN left = 1 .. Len(req[q].work) - 1
              /\ \A i \in DOMAIN left : i + 1 \in DOMAIN req[q].work /\ left[i] = req[q].work[i + 1]
              /\ 1 \in DOMAIN req[q].work /\ w = req[q].work[1]
              /\ GoodWrite(w, DOMAIN db, asked) /\ HasParents(db) /\ GoodDb(db, asked)
              /\ db' = IF Refused(db, w) THEN db ELSE Written(db, w)
              /\ late' = (late \/ (req[q].overtaken /\ ~ Refused(db, w)))
              /\ \A p \in Requests : p # q => req'[p] = Overtaken(db')[p]
              /\ req'[q] # Idle =>
                   /\ ~ Refused(db, w) /\ req'[q].work = left /\ req'[q].reads = req[q].reads
                   /\ req'[q].overtaken = req[q].overtaken
<1> DEFINE w == Head(req[q].work)
           left == Tail(req[q].work)
           r == IF ~ Refused(db, w) /\ left # <<>> THEN [req[q] EXCEPT !.work = left] ELSE Idle
<1>1. /\ req[q] # Idle /\ asked' = asked /\ files' = files
      /\ db' = IF Refused(db, w) THEN db ELSE Written(db, w)
      /\ late' = (late \/ (req[q].overtaken /\ ~ Refused(db, w)))
      /\ req' = [Overtaken(db') EXCEPT ![q] = r]
  BY DEF Writes
<1>2. /\ req[q] = [reads |-> req[q].reads, work |-> req[q].work, overtaken |-> req[q].overtaken]
      /\ req[q].work # <<>> /\ GoodWork(req[q].work, DOMAIN db, asked)
  BY <1>1 DEF GoodState, GoodRequests, GoodRequest
<1>3. /\ DOMAIN req[q].work = 1 .. Len(req[q].work) /\ Len(req[q].work) \in Nat \ {0}
      /\ DOMAIN left = 1 .. Len(req[q].work) - 1 /\ w = req[q].work[1]
      /\ \A i \in DOMAIN left : i + 1 \in DOMAIN req[q].work /\ left[i] = req[q].work[i + 1]
  BY <1>2, TailFact DEF GoodWork
<1>4. 1 \in DOMAIN req[q].work /\ GoodWrite(w, DOMAIN db, asked)
  BY <1>2, <1>3 DEF GoodWork
<1>5. HasParents(db) /\ GoodDb(db, asked)
  BY ParentsKept DEF GoodState
<1>6. r # Idle => ~ Refused(db, w) /\ r.work = left /\ r.reads = req[q].reads /\ r.overtaken = req[q].overtaken
  BY <1>2
<1> HIDE DEF w, left, r
<1>7. \A p \in Requests : req'[p] = IF p = q THEN r ELSE Overtaken(db')[p]
  BY <1>1 DEF Overtaken
<1> QED
  BY <1>1, <1>2, <1>3, <1>4, <1>5, <1>6, <1>7 DEF w, left

(* A request keeps the tables. *)
LEMMA TablesStay == ASSUME GoodState, Requested PROVE DOMAIN db' = DOMAIN db
<1>1. PICK reads, work : Handles(reads, work) /\ LawfulWork(reads, work)
  BY DEF Requested
<1>2. HasParents(db) /\ GoodDb(db, asked + 1) /\ GoodWork(work, DOMAIN db, asked + 1)
  <2>1. asked \in Nat /\ asked + 1 \in Nat /\ asked <= asked + 1
    BY StoreAssumption DEF GoodState
  <2> QED
    BY <1>1, <2>1, ParentsKept, GoodLater, LawfulIsGood DEF GoodState
<1>3. db' = db \/ db' = AllWritten(db, work)
  BY <1>1 DEF Handles, RunsThrough, Suspends
<1> QED
  BY <1>2, <1>3, AllWrittenGood

(* What has been seen stays so when a request is handled. *)
LEMMA SeenHandled == ASSUME GoodState, SeenIsSo, Requested PROVE SeenIsSo'
<1> SUFFICES ASSUME ~ late' PROVE Taken(db, Bundle)' /\ SeenIn(req, db)'
  BY DEF SeenIsSo
<1>1. PICK reads, work : Handles(reads, work) /\ LawfulWork(reads, work)
  BY DEF Requested
<1>2. late' = late /\ files' = files
  BY <1>1 DEF Handles, RunsThrough, Suspends
<1>3. Taken(db, Bundle) /\ SeenIn(req, db) /\ Bundle' = Bundle
  BY <1>2 DEF SeenIsSo, Bundle
<1>4. CASE RunsThrough(work)
  <2>1. db' = AllWritten(db, work) /\ req' = Overtaken(db')
    BY <1>4 DEF RunsThrough
  <2>2. Taken(db', Bundle)
    <3>1. asked + 1 \in Nat
      BY StoreAssumption DEF GoodState
    <3> QED
      BY <1>1, <1>3, <2>1, <3>1, LawfulTaken
  <2>5. DOMAIN db' = DOMAIN db
    BY TablesStay
  <2> DEFINE e == db'
  <2>3. \A q \in Requests : Overtaken(e)[q] # Idle /\ ~ Overtaken(e)[q].overtaken =>
          \A k \in DOMAIN Overtaken(e)[q].work : Overtaken(e)[q].work[k].kind = "save" =>
             Seen(Overtaken(e)[q].reads, Overtaken(e)[q].work[k], e)
    <3>1. DOMAIN e = DOMAIN db
      BY <2>5
    <3> HIDE DEF e
    <3> QED
      BY <1>3, <3>1, OthersSeen
  <2>4. SeenIn(req', db')
    BY <2>1, <2>3 DEF SeenIn
  <2> QED
    BY <1>3, <2>2, <2>4
<1>5. CASE Suspends(reads, work)
  <2> DEFINE r == [reads |-> reads, work |-> work, overtaken |-> FALSE]
  <2>1. db' = db /\ \E q \in Requests : req' = [req EXCEPT ![q] = r]
    BY <1>5 DEF Suspends
  <2>2. PICK q \in Requests : req' = [req EXCEPT ![q] = r]
    BY <2>1
  <2>3. r.reads = reads /\ r.work = work
    OBVIOUS
  <2>4. \A k \in DOMAIN work : work[k].kind = "save" => Seen(reads, work[k], db)
    BY <1>1 DEF LawfulWork, LawfulWrite
  <2> HIDE DEF r
  <2>5. \A p \in Requests : req'[p] = IF p = q THEN r ELSE req[p]
    BY <2>2, Joined
  <2>6. SeenIn(req', db)
    BY <1>3, <2>3, <2>4, <2>5 DEF SeenIn
  <2> QED
    BY <1>3, <2>1, <2>6
<1> QED
  BY <1>1, <1>4, <1>5 DEF Handles

(* What has been seen stays so when a request goes on, unless it was     *)
(* overtaken.                                                            *)
LEMMA SeenWrites ==
    ASSUME GoodState, AllApart, RestoredInOrder, SeenIsSo, NEW q \in Requests, Writes(q)
    PROVE  SeenIsSo'
<1> SUFFICES ASSUME ~ late' PROVE Taken(db, Bundle)' /\ SeenIn(req, db)'
  BY DEF SeenIsSo
<1> DEFINE w == Head(req[q].work)
           left == Tail(req[q].work)
           e == db'
<1>1. /\ req[q] # Idle /\ files' = files
      /\ \A i \in DOMAIN left : i + 1 \in DOMAIN req[q].work /\ left[i] = req[q].work[i + 1]
      /\ DOMAIN left = 1 .. Len(req[q].work) - 1 /\ Len(req[q].work) \in Nat
      /\ 1 \in DOMAIN req[q].work /\ w = req[q].work[1]
      /\ GoodWrite(w, DOMAIN db, asked) /\ HasParents(db) /\ GoodDb(db, asked)
      /\ e = IF Refused(db, w) THEN db ELSE Written(db, w)
      /\ late' = (late \/ (req[q].overtaken /\ ~ Refused(db, w)))
      /\ \A p \in Requests : p # q => req'[p] = Overtaken(e)[p]
      /\ req'[q] # Idle =>
           /\ ~ Refused(db, w) /\ req'[q].work = left /\ req'[q].reads = req[q].reads
           /\ req'[q].overtaken = req[q].overtaken
      /\ GoodWork(req[q].work, DOMAIN db, asked)
  BY WritesStep
<1>2. Taken(db, Bundle) /\ SeenIn(req, db) /\ Bundle' = Bundle
  BY <1>1 DEF SeenIsSo, Bundle
<1>3. Apart(req[q].work) /\ InPlace(req, req[q].work, 1, db, Bundle)
  BY <1>1 DEF AllApart, ApartIn, RestoredInOrder, RestoredIn
<1> HIDE DEF w, left, e
<1>4. Taken(e, Bundle)
  <2>1. CASE Refused(db, w)
    BY <1>1, <1>2, <2>1
  <2>2. CASE ~ Refused(db, w)
    <3>1. w.kind = "save" => Seen(req[q].reads, w, db)
      BY <1>1, <1>2, <2>2 DEF SeenIn
    <3>2. /\ w.kind = "insert" => w.table \in {"networks", "nodes", "accounts", "allocs"}
          /\ w.kind = "insert" /\ w.table = "allocs" => Restored(Bundle, w.id)
      BY <1>1, <1>3 DEF InPlace, Restored
    <3> QED
      BY <1>1, <1>2, <2>2, <3>1, <3>2, TakenWritten
  <2> QED
    BY <2>1, <2>2
<1>7. DOMAIN e = DOMAIN db
  <2>1. ~ Refused(db, w) => DOMAIN Written(db, w) = DOMAIN db
    BY <1>1, WrittenGood
  <2> QED
    BY <1>1, <2>1
<1>5. ASSUME NEW p \in Requests, req'[p] # Idle, ~ req'[p].overtaken,
             NEW k \in DOMAIN req'[p].work, req'[p].work[k].kind = "save"
      PROVE  Seen(req'[p].reads, req'[p].work[k], e)
  <2>1. CASE p # q
    BY <1>1, <1>2, <1>5, <1>7, <2>1, OthersSeen
  <2>2. CASE p = q
    <3> DEFINE v == req[q].work[k + 1]
    <3>1. /\ ~ Refused(db, w) /\ req'[p].work[k] = v /\ req'[p].reads = req[q].reads
          /\ ~ req[q].overtaken /\ k + 1 \in DOMAIN req[q].work /\ v.kind = "save" /\ k \in 1 .. Len(req[q].work) - 1
      BY <1>1, <1>5, <2>2
    <3>2. Seen(req[q].reads, v, db)
      BY <1>1, <1>2, <3>1 DEF SeenIn
    <3>3. 1 # k + 1
      BY <1>1, <3>1
    <3>4. /\ w.kind = "save" /\ w.table \in Guarded /\ v.table \in Guarded
          /\ w.table = v.table => w.table = "schedules" /\ w.id # v.id
      BY <1>1, <1>3, <3>1, <3>3 DEF Apart
    <3>5. w.table \in DOMAIN db /\ v.table \in DOMAIN db
      <4>1. GoodWrite(v, DOMAIN db, asked)
        BY <1>1, <3>1 DEF GoodWork
      <4> QED
        BY <1>1, <3>1, <3>4, <4>1 DEF GoodWrite
    <3>6. e = Stored(db, w.table, w.id, w.row)
      <4>1. w.table # "networks"
        BY <3>4 DEF Guarded
      <4> QED
        BY <1>1, <3>1, <3>4, <4>1, WrittenFact
    <3> HIDE DEF v
    <3>7. Seen(req[q].reads, v, e)
      BY <3>2, <3>4, <3>5, <3>6, SeenStill
    <3> QED
      BY <3>1, <3>7
  <2> QED
    BY <2>1, <2>2
<1>6. SeenIn(req', e)
  BY <1>5 DEF SeenIn
<1> QED
  BY <1>2, <1>4, <1>6 DEF e

(* Expiry and age are nothing that has been seen. *)
LEMMA SeenBeside ==
    ASSUME GoodState, NEW e, DOMAIN e = DOMAIN db, Taken(db, Bundle), SeenIn(req, db),
           \A t \in DOMAIN db : t \notin {"tokens", "audit", "operations"} => e[t] = db[t],
           "tokens" \in DOMAIN db =>
              /\ DOMAIN e["tokens"] = DOMAIN db["tokens"]
              /\ \A i \in DOMAIN db["tokens"] : e["tokens"][i].revoked = db["tokens"][i].revoked
    PROVE  Taken(e, Bundle) /\ SeenIn(req, e)
<1>1. HasParents(db)
  BY ParentsKept
<1>2. Taken(e, Bundle)
  <2>1. Housed(db)
    BY <1>1, GoodHoused DEF GoodState
  <2>2. \A x \in {"retention", "snapshots", "vpnPeers", "allocs", "networks"} : x \in DOMAIN db => e[x] = db[x]
    OBVIOUS
  <2> QED
    BY <2>1, <2>2, TakenElsewhere
<1>3. SeenIn(req, e)
  <2> SUFFICES ASSUME NEW q \in Requests, req[q] # Idle, ~ req[q].overtaken, NEW k \in DOMAIN req[q].work,
                      req[q].work[k].kind = "save"
               PROVE  Seen(req[q].reads, req[q].work[k], e)
    BY DEF SeenIn
  <2> DEFINE w == req[q].work[k]
             reads == req[q].reads
  <2>1. Seen(reads, w, db)
    BY DEF SeenIn
  <2>2. w.table \in DOMAIN db
    BY DEF GoodState, GoodRequests, GoodRequest, GoodWork, GoodWrite
  <2>3. w.table = "allocs" => "networks" \in DOMAIN db
    <3>1. Key("allocs", "subnet", "networks", "cascade") \in ForeignKeys
      BY TheKeys
    <3> QED
      BY <1>1, <2>2, <3>1 DEF HasParents, Key
  <2> SUFFICES Seen(reads, w, e)
    OBVIOUS
  <2> HIDE DEF w, reads
  <2>4. CASE w.table = "tokens"
    BY <2>1, <2>2, <2>4 DEF Seen, SeenToken
  <2>5. CASE w.table = "networks"
    <3>1. e["networks"] = db["networks"] /\ ("allocs" \in DOMAIN db => e["allocs"] = db["allocs"])
      BY <2>2, <2>5
    <3>2. SeenNetworks(reads, w, db) /\ "networks" \in reads
      BY <2>1, <2>5 DEF Seen
    <3>3. SeenNetworks(reads, w, e)
      BY <3>1, <3>2 DEF SeenNetworks, Encloses
    <3> QED
      BY <2>5, <3>2, <3>3 DEF Seen
  <2>6. CASE w.table = "allocs"
    <3>1. e["networks"] = db["networks"]
      BY <2>3, <2>6
    <3> QED
      BY <2>1, <2>6, <3>1 DEF Seen, SeenSubnet
  <2>7. CASE w.table \in {"retention", "snapshots", "vpnPeers", "schedules"}
    <3>1. e[w.table] = db[w.table]
      BY <2>2, <2>7
    <3> QED
      BY <2>1, <2>7, <3>1 DEF Seen, SeenRetention, SeenSnapshots, SeenKeys, SeenSchedule
  <2>8. CASE w.table \notin {"tokens", "networks", "allocs", "retention", "snapshots", "vpnPeers", "schedules"}
    BY <2>8 DEF Seen
  <2> QED
    BY <2>4, <2>5, <2>6, <2>7, <2>8
<1> QED
  BY <1>2, <1>3

(* What has been seen stays so when time passes. *)
LEMMA SeenInTime == ASSUME GoodState, SeenIsSo, Expire \/ TimePasses PROVE SeenIsSo'
<1> SUFFICES ASSUME ~ late' PROVE Taken(db, Bundle)' /\ SeenIn(req, db)'
  BY DEF SeenIsSo
<1>0. late' = late /\ req' = req /\ files' = files
  BY DEF Expire, TimePasses
<1>1. Taken(db, Bundle) /\ SeenIn(req, db) /\ Bundle' = Bundle
  BY <1>0 DEF SeenIsSo, Bundle
<1> DEFINE e == db'
<1>2. /\ DOMAIN e = DOMAIN db
      /\ \A t \in DOMAIN db : t \notin {"tokens", "audit", "operations"} => e[t] = db[t]
      /\ "tokens" \in DOMAIN db =>
              /\ DOMAIN e["tokens"] = DOMAIN db["tokens"]
              /\ \A i \in DOMAIN db["tokens"] : e["tokens"][i].revoked = db["tokens"][i].revoked
  <2>1. CASE Expire
    <3>1. PICK tk \in Ids("tokens") : db' = [db EXCEPT !.tokens[tk].expired = TRUE]
      BY <2>1 DEF Expire
    <3> DEFINE old == db["tokens"][tk]
               new == [old EXCEPT !.expired = TRUE]
    <3>2. "tokens" \in DOMAIN db /\ tk \in DOMAIN db["tokens"] /\ old \in TokenRows
      BY RowThere, TokenThere DEF Token
    <3>3. db' = [db EXCEPT !["tokens"] = [@ EXCEPT ![tk] = new]]
      BY <3>1
    <3>4. new.revoked = old.revoked
      <4> HIDE DEF old
      <4> QED
        BY <3>2 DEF TokenRows
    <3> HIDE DEF new
    <3> QED
      BY <3>2, <3>3, <3>4
  <2>2. CASE TimePasses
    <3>1. db' = [t \in DOMAIN db |->
                  IF t \in {"audit", "operations"} THEN [i \in Ids(t) |-> [old |-> TRUE]] ELSE db[t]]
      BY <2>2 DEF TimePasses
    <3> QED
      BY <3>1
  <2> QED
    BY <2>1, <2>2
<1> HIDE DEF e
<1>3. Taken(e, Bundle) /\ SeenIn(req, e)
  BY <1>1, <1>2, SeenBeside
<1> QED
  BY <1>0, <1>1, <1>3 DEF e

(* What has been seen stays so when the archive or the bundle is         *)
(* written, a request ends, or the tables are lost.                      *)
LEMMA SeenElse ==
    ASSUME GoodState, SeenIsSo,
           \/ ArchiveBatch \/ ArchiveFails
           \/ Keeps("allocs") /\ Keeps("accounts") /\ (ExportBundle \/ DatabaseLost)
           \/ \E q \in Requests : Stops(q)
    PROVE  SeenIsSo'
<1> SUFFICES ASSUME ~ late' PROVE Taken(db, Bundle)' /\ SeenIn(req, db)'
  BY DEF SeenIsSo
<1>0. late' = late
  BY DEF ArchiveBatch, ArchiveFails, ExportBundle, DatabaseLost, Stops
<1>1. Taken(db, Bundle) /\ SeenIn(req, db)
  BY <1>0 DEF SeenIsSo
<1>2. CASE ArchiveBatch
  <2>1. PICK batch \in Batches : \E q \in Requests :
          /\ files' = [files EXCEPT !.archive = Archived(batch)]
          /\ req' = [req EXCEPT ![q] = [reads |-> {}, work |-> <<DeletesMany(batch)>>, overtaken |-> FALSE]]
    BY <1>2 DEF ArchiveBatch
  <2> DEFINE w == DeletesMany(batch)
             work == <<w>>
             r == [reads |-> {}, work |-> work, overtaken |-> FALSE]
  <2>2. PICK q \in Requests : req' = [req EXCEPT ![q] = r]
    BY <2>1
  <2>3. w.kind = "deleteAll" /\ r.work = work
    BY DEF DeletesMany, DropAll, Write
  <2>4. db' = db /\ Bundle' = Bundle
    BY <1>2, <2>1 DEF ArchiveBatch, Bundle, GoodState
  <2> HIDE DEF w
  <2>5. DOMAIN work = {1} /\ work[1] = w
    BY OneFact
  <2> HIDE DEF work, r
  <2>6. \A p \in Requests : req'[p] = IF p = q THEN r ELSE req[p]
    BY <2>2, Joined
  <2>7. SeenIn(req', db)
    BY <1>1, <2>3, <2>5, <2>6 DEF SeenIn
  <2> QED
    BY <1>1, <2>4, <2>7
<1>3. CASE ArchiveFails
  <2>1. PICK batch : \E done \in SUBSET batch : files' = [files EXCEPT !.archive = @ \cup done]
    BY <1>3 DEF ArchiveFails
  <2>2. db' = db /\ req' = req /\ Bundle' = Bundle
    BY <1>3, <2>1 DEF ArchiveFails, Bundle, GoodState
  <2> QED
    BY <1>1, <2>2
<1>4. CASE ExportBundle
  <2>1. db' = db /\ req' = req
    BY <1>4 DEF ExportBundle
  <2>2. DOMAIN Bundle \subseteq DOMAIN Bundle' /\ \A x \in DOMAIN Bundle : Bundle'[x] = Bundle[x]
    BY <1>4, ExportStep
  <2> DEFINE b == Bundle
             c == Bundle'
  <2>3. DOMAIN b \subseteq DOMAIN c /\ (\A x \in DOMAIN b : c[x] = b[x]) /\ Taken(db, b)
    BY <1>1, <2>2
  <2> HIDE DEF b, c
  <2>4. \A a : Restored(b, a) => Restored(c, a)
    BY <2>3 DEF Restored
  <2>5. Taken(db, c)
    BY <2>3, <2>4 DEF Taken, NotStranded
  <2> QED
    BY <1>1, <2>1, <2>5 DEF c
<1>5. CASE DatabaseLost
  <2>1. /\ db' = [t \in DOMAIN db |-> <<>>] /\ req' = [q \in Requests |-> Idle] /\ files' = files
    BY <1>5 DEF DatabaseLost
  <2>2. DOMAIN db' = DOMAIN db /\ \A t \in DOMAIN db : DOMAIN db'[t] = {}
    BY <2>1
  <2>3. SeenIn(req', db')
    BY <2>1 DEF SeenIn
  <2>4. Taken(db', Bundle)
    BY <2>2 DEF Taken, OneGlobalPolicy, VersionsDiffer, KeysDiffer, NotStranded
  <2> QED
    BY <2>1, <2>3, <2>4 DEF Bundle
<1>6. CASE \E q \in Requests : Stops(q)
  <2>1. PICK q \in Requests : Stops(q)
    BY <1>6
  <2>2. req' = [req EXCEPT ![q] = Idle] /\ db' = db /\ files' = files
    BY <2>1 DEF Stops
  <2>3. \A p \in Requests : req'[p] = IF p = q THEN Idle ELSE req[p]
    BY <2>2, Joined
  <2>4. SeenIn(req', db)
    BY <1>1, <2>3 DEF SeenIn
  <2> QED
    BY <1>1, <2>2, <2>4 DEF Bundle
<1> QED
  BY <1>2, <1>3, <1>4, <1>5, <1>6

------------------------------------------------------------------------------
(* The saves of a request are of different rows, and a bundle is put back  *)
(* in order.                                                               *)

(* What is left of them is apart, too. *)
LEMMA ApartRest ==
    ASSUME NEW work, Apart(work), NEW left,
           \A i \in DOMAIN left : i \in Nat /\ i + 1 \in DOMAIN work /\ left[i] = work[i + 1]
    PROVE  Apart(left)
<1> SUFFICES ASSUME NEW i \in DOMAIN left, NEW k \in DOMAIN left, i # k, left[k].kind = "save"
             PROVE  /\ left[i].kind = "save" /\ left[i].table \in Guarded /\ left[k].table \in Guarded
                    /\ left[i].table = left[k].table => left[i].table = "schedules" /\ left[i].id # left[k].id
  BY DEF Apart
<1>1. i + 1 # k + 1
  OBVIOUS
<1> QED
  BY <1>1 DEF Apart

(* A network stays where it is, and keeps its subnet unless the write      *)
(* takes that away.                                                        *)
LEMMA SubnetStays ==
    ASSUME NEW d, NEW n, NEW w, GoodWrite(w, DOMAIN d, n), ~ Refused(d, w), "networks" \in DOMAIN d,
           w.kind = "delete" => w.table # "networks"
    PROVE  /\ \A i : HasSubnet(d, i) /\ ~ Empties(w, i) => HasSubnet(Written(d, w), i)
           /\ DOMAIN d.networks \subseteq DOMAIN Written(d, w).networks
           /\ w.kind = "insert" /\ w.table = "networks" =>
                /\ w.id \notin DOMAIN d.networks
                /\ w.row.subnet # None => HasSubnet(Written(d, w), w.id)
<1> DEFINE t == "networks"
           e == Written(d, w)
<1>0. \A k \in ForeignKeys : k.child # t
  BY KeyFacts DEF KeyFact, Roots
<1>1. CASE w.kind = "delete"
  <2> DEFINE d1 == [d EXCEPT ![w.table] = Keep(@, DOMAIN @ \ {w.id})]
  <2>1. d1[t] = d[t] /\ DOMAIN d1 = DOMAIN d
    BY <1>1
  <2>2. e = Sweep(Sweep(d1))
    BY <1>1 DEF Written, Deleted
  <2> HIDE DEF d1, e
  <2>3. /\ DOMAIN Sweep(d1) = DOMAIN d /\ DOMAIN Sweep(d1)[t] = DOMAIN d[t]
        /\ \A i \in DOMAIN d[t] : Sweep(d1)[t][i] = d[t][i]
    BY <1>0, <2>1, SweepFact, SweepRoots
  <2> DEFINE d2 == Sweep(d1)
  <2>4. /\ DOMAIN d2 = DOMAIN d /\ DOMAIN d2[t] = DOMAIN d[t] /\ e = Sweep(d2)
        /\ \A i \in DOMAIN d[t] : d2[t][i] = d[t][i]
    BY <2>2, <2>3
  <2> HIDE DEF d2
  <2>5. DOMAIN e[t] = DOMAIN d[t] /\ \A i \in DOMAIN d[t] : e[t][i] = d[t][i]
    BY <1>0, <2>4, SweepRoots
  <2> QED
    BY <1>1, <2>5 DEF HasSubnet, e
<1>2. CASE w.kind = "empty"
  <2>1. e = [d EXCEPT ![w.table] = Keep(@, {i \in DOMAIN @ : @[i][w.row] # w.id})]
    BY <1>2 DEF Written
  <2>2. w.table # t
    BY <1>2 DEF GoodWrite
  <2>3. e[t] = d[t]
    BY <2>1, <2>2
  <2> QED
    BY <1>2, <2>3 DEF HasSubnet
<1>3. CASE w.kind = "deleteAll"
  <2>1. e = [d EXCEPT ![w.table] = Keep(@, DOMAIN @ \ w.id)]
    BY <1>3 DEF Written
  <2>2. w.table # t
    BY <1>3 DEF GoodWrite
  <2>3. e[t] = d[t]
    BY <2>1, <2>2
  <2> QED
    BY <1>3, <2>3 DEF HasSubnet
<1>4. CASE w.kind \in {"save", "insert"}
  <2> DEFINE s == Stored(d, w.table, w.id, w.row)
  <2>1. /\ w.table \in DOMAIN d /\ GoodRow(w.table, w.id, w.row, n)
        /\ e = IF w.table = t THEN Sweep(s) ELSE s
        /\ w.kind = "insert" => w.id \notin DOMAIN d[w.table]
    BY <1>4 DEF Written, GoodWrite, Refused, IsKnown
  <2>2. /\ DOMAIN s = DOMAIN d
        /\ \A x \in DOMAIN d : x # w.table => s[x] = d[x]
        /\ DOMAIN s[w.table] = DOMAIN d[w.table] \cup {w.id}
        /\ \A i \in DOMAIN d[w.table] : i # w.id => s[w.table][i] = d[w.table][i]
        /\ s[w.table][w.id] = IF w.id \in DOMAIN d[w.table] THEN Merged(w.table, w.row, d[w.table][w.id]) ELSE w.row
    BY <2>1, StoredFact
  <2> HIDE DEF s, e
  <2>3. CASE w.table # t
    BY <2>1, <2>2, <2>3 DEF HasSubnet, e
  <2>4. CASE w.table = t
    <3>1. DOMAIN e[t] = DOMAIN s[t] /\ \A i \in DOMAIN s[t] : e[t][i] = s[t][i]
      BY <1>0, <2>1, <2>2, <2>4, SweepRoots
    <3>2. w.id \in DOMAIN d[t] => s[t][w.id].subnet = w.row.subnet /\ w.kind = "save"
      <4>1. w.row \in NetworkRows
        BY <2>1, <2>4 DEF GoodRow, NetworkOk
      <4>2. DOMAIN w.row = {"subnet", "nat", "hash"} /\ Columns[t] = {"subnet", "hash"}
        BY <4>1 DEF NetworkRows, Columns, NetworkColumns
      <4> QED
        BY <1>4, <2>1, <2>2, <2>4, <4>2 DEF Merged
    <3>3. ASSUME NEW i, HasSubnet(d, i), ~ Empties(w, i) PROVE HasSubnet(e, i)
      <4>1. CASE i # w.id
        BY <2>2, <2>4, <3>1, <3>3, <4>1 DEF HasSubnet
      <4>2. CASE i = w.id
        BY <2>2, <2>4, <3>1, <3>2, <3>3, <4>2 DEF HasSubnet, Empties
      <4> QED
        BY <4>1, <4>2
    <3>4. w.kind = "insert" =>
            w.id \notin DOMAIN d[t] /\ (w.row.subnet # None => HasSubnet(e, w.id))
      BY <2>1, <2>2, <2>4, <3>1 DEF HasSubnet
    <3>5. DOMAIN d[t] \subseteq DOMAIN e[t]
      BY <2>2, <2>4, <3>1
    <3> QED
      BY <3>3, <3>4, <3>5 DEF e
  <2> QED
    BY <2>3, <2>4
<1> QED
  BY <1>1, <1>2, <1>3, <1>4 DEF GoodWrite

(* Networks stay and keep their subnets through all the writes of a        *)
(* request that has seen them.                                             *)
LEMMA SubnetsStay ==
    ASSUME GoodState, asked + 1 \in Nat, "networks" \in DOMAIN db, NEW reads, NEW work, LawfulWork(reads, work)
    PROVE  /\ \A i : HasSubnet(db, i) => HasSubnet(AllWritten(db, work), i)
           /\ DOMAIN db.networks \subseteq DOMAIN AllWritten(db, work).networks
<1> DEFINE d == db
           n == asked + 1
           at(k) == After(d, work, k)
           Kept(e) == (\A i : HasSubnet(d, i) => HasSubnet(e, i)) /\ DOMAIN d.networks \subseteq DOMAIN e.networks
           S == {k \in Nat : k <= Len(work) => Kept(at(k))}
<1>1. HasParents(d) /\ GoodDb(d, n) /\ GoodWork(work, DOMAIN d, n) /\ "networks" \in DOMAIN d
  <2>1. asked \in Nat /\ asked <= asked + 1
    BY StoreAssumption DEF GoodState
  <2> QED
    BY <2>1, ParentsKept, GoodLater, LawfulIsGood DEF GoodState
<1>2. \A k \in DOMAIN work :
        /\ GoodWrite(work[k], DOMAIN d, n)
        /\ \A i : HasSubnet(d, i) => ~ Empties(work[k], i)
        /\ work[k].kind = "delete" => work[k].table # "networks"
  BY DEF LawfulWork, LawfulWrite, Clears, Empties
<1> HIDE DEF d, n
<1>3. /\ Len(work) \in Nat /\ DOMAIN work = 1 .. Len(work)
      /\ at(0) = d /\ AllWritten(d, work) = at(Len(work))
      /\ \A k \in 0 .. Len(work) : GoodDb(at(k), n) /\ DOMAIN at(k) = DOMAIN d
      /\ \A k \in 0 .. Len(work) - 1 :
           at(k + 1) = at(k) \/ (~ Refused(at(k), work[k + 1]) /\ at(k + 1) = Written(at(k), work[k + 1]))
  BY <1>1, Stepwise
<1> HIDE DEF at
<1>4. ASSUME NEW k \in 0 .. Len(work) - 1, Kept(at(k)) PROVE Kept(at(k + 1))
  <2> DEFINE w == work[k + 1]
             e == at(k)
             f == at(k + 1)
  <2>1. k + 1 \in DOMAIN work /\ k \in 0 .. Len(work)
    BY <1>3
  <2>2. DOMAIN e = DOMAIN d
    BY <1>3, <2>1
  <2>3. /\ GoodWrite(w, DOMAIN e, n)
        /\ \A i : HasSubnet(d, i) => ~ Empties(w, i)
        /\ w.kind = "delete" => w.table # "networks"
    BY <1>2, <2>1, <2>2
  <2>4. f = e \/ (~ Refused(e, w) /\ f = Written(e, w))
    BY <1>3
  <2>5. Kept(e)
    BY <1>4
  <2> HIDE DEF w, e, f
  <2>6. ASSUME ~ Refused(e, w), f = Written(e, w)
        PROVE  /\ \A i : HasSubnet(e, i) /\ ~ Empties(w, i) => HasSubnet(f, i)
               /\ DOMAIN e.networks \subseteq DOMAIN f.networks
    BY <1>1, <2>2, <2>3, <2>6, SubnetStays
  <2>7. Kept(f)
    BY <2>3, <2>4, <2>5, <2>6
  <2> QED
    BY <2>7 DEF f
<1>5. Nat \subseteq S
  <2>1. 0 \in S
    BY <1>3
  <2> HIDE DEF Kept
  <2>2. ASSUME NEW k \in Nat, k \in S PROVE k + 1 \in S
    <3> SUFFICES ASSUME k + 1 <= Len(work) PROVE Kept(at(k + 1))
      OBVIOUS
    <3>1. Kept(at(k)) /\ k \in 0 .. Len(work) - 1
      BY <1>3, <2>2
    <3> QED
      BY <1>4, <3>1
  <2> HIDE DEF S
  <2> QED
    BY <2>1, <2>2, NatSetInduction
<1>6. Kept(at(Len(work)))
  <2> HIDE DEF Kept
  <2> QED
    BY <1>3, <1>5
<1> QED
  BY <1>3, <1>6 DEF d

(* What is in place stays so while networks stay settled and the bundle    *)
(* takes in only networks that are there.                                  *)
LEMMA InPlaceLater ==
    ASSUME NEW rs, NEW ss, NEW work, NEW k, NEW d, NEW e, NEW b, NEW c, InPlace(rs, work, k, d, b),
           DOMAIN e = DOMAIN d, DOMAIN b \subseteq DOMAIN c, \A x \in DOMAIN b : c[x] = b[x],
           work[k].kind = "save" => work[k].table \in DOMAIN d, "allocs" \in DOMAIN d => "networks" \in DOMAIN d,
           "networks" \in DOMAIN d =>
              /\ \A i : Settled(rs, d, i) => Settled(ss, e, i)
              /\ DOMAIN d.networks \subseteq DOMAIN e.networks
              /\ "networks" \in DOMAIN c \ DOMAIN b => DOMAIN c.networks \subseteq DOMAIN e.networks
    PROVE  InPlace(ss, work, k, e, c)
BY DEF InPlace, KnownOrNew

(* A network stays settled while it keeps its subnet and nobody new comes  *)
(* to take it away.                                                        *)
LEMMA SettledLater ==
    ASSUME NEW rs, NEW ss, NEW d, NEW e, NEW i, Settled(rs, d, i), HasSubnet(e, i),
           \A q \in Requests : ss[q] # Idle => \A k \in DOMAIN ss[q].work :
              \/ ~ Empties(ss[q].work[k], i)
              \/ rs[q] # Idle /\ \E j \in DOMAIN rs[q].work : ss[q].work[k] = rs[q].work[j]
    PROVE  Settled(ss, e, i)
BY DEF Settled

(* The saves of every request stay apart. *)
LEMMA ApartStep == ASSUME GoodState, AllApart, ServicesNext PROVE AllApart'
<1> SUFFICES ApartIn(req')
  BY DEF AllApart, ApartIn
<1>0. ApartIn(req)
  BY DEF AllApart
<1>1. CASE Requested
  <2>1. PICK reads, work : Handles(reads, work) /\ LawfulWork(reads, work)
    BY <1>1 DEF Requested
  <2>2. CASE RunsThrough(work)
    <3>1. req' = Overtaken(db')
      BY <2>2 DEF RunsThrough
    <3> QED
      BY <1>0, <3>1, OthersKeep DEF ApartIn
  <2>3. CASE Suspends(reads, work)
    <3> DEFINE r == [reads |-> reads, work |-> work, overtaken |-> FALSE]
    <3>1. PICK q \in Requests : req' = [req EXCEPT ![q] = r]
      BY <2>3 DEF Suspends
    <3>2. Apart(r.work)
      BY <2>1 DEF LawfulWork
    <3> HIDE DEF r
    <3>3. \A p \in Requests : req'[p] = IF p = q THEN r ELSE req[p]
      BY <3>1, Joined
    <3> QED
      BY <1>0, <3>2, <3>3 DEF ApartIn
  <2> QED
    BY <2>1, <2>2, <2>3 DEF Handles
<1>2. ASSUME NEW q \in Requests, Writes(q) PROVE ApartIn(req')
  <2> DEFINE left == Tail(req[q].work)
  <2>1. /\ req[q] # Idle
        /\ \A i \in DOMAIN left : i + 1 \in DOMAIN req[q].work /\ left[i] = req[q].work[i + 1]
        /\ DOMAIN left = 1 .. Len(req[q].work) - 1 /\ Len(req[q].work) \in Nat
        /\ \A p \in Requests : p # q => req'[p] = Overtaken(db')[p]
        /\ req'[q] # Idle => req'[q].work = left
    BY <1>2, WritesStep
  <2> HIDE DEF left
  <2>2. Apart(left)
    <3>1. \A i \in DOMAIN left : i \in Nat
      BY <2>1
    <3>2. Apart(req[q].work)
      BY <1>0, <2>1 DEF ApartIn
    <3> QED
      BY <2>1, <3>1, <3>2, ApartRest
  <2>3. ASSUME NEW p \in Requests, req'[p] # Idle PROVE Apart(req'[p].work)
    <3>1. CASE p = q
      BY <2>1, <2>2, <2>3, <3>1
    <3>2. CASE p # q
      BY <1>0, <2>1, <2>3, <3>2, OthersKeep DEF ApartIn
    <3> QED
      BY <3>1, <3>2
  <2> QED
    BY <2>3 DEF ApartIn
<1>3. CASE ArchiveBatch
  <2>1. PICK batch \in Batches : \E q \in Requests :
          req' = [req EXCEPT ![q] = [reads |-> {}, work |-> <<DeletesMany(batch)>>, overtaken |-> FALSE]]
    BY <1>3 DEF ArchiveBatch
  <2> DEFINE w == DeletesMany(batch)
             work == <<w>>
             r == [reads |-> {}, work |-> work, overtaken |-> FALSE]
  <2>2. PICK q \in Requests : req' = [req EXCEPT ![q] = r]
    BY <2>1
  <2>3. r.work = work
    OBVIOUS
  <2> HIDE DEF w
  <2>4. DOMAIN work = {1}
    BY OneFact
  <2> HIDE DEF work, r
  <2>5. \A p \in Requests : req'[p] = IF p = q THEN r ELSE req[p]
    BY <2>2, Joined
  <2>6. Apart(work)
    BY <2>4 DEF Apart
  <2> QED
    BY <1>0, <2>3, <2>5, <2>6 DEF ApartIn
<1>4. ASSUME NEW q \in Requests, Stops(q) PROVE ApartIn(req')
  <2>1. req' = [req EXCEPT ![q] = Idle]
    BY <1>4 DEF Stops
  <2>2. \A p \in Requests : req'[p] = IF p = q THEN Idle ELSE req[p]
    BY <1>4, <2>1, Joined
  <2> QED
    BY <1>0, <2>2 DEF ApartIn
<1>5. CASE Expire \/ TimePasses \/ ArchiveFails \/ ExportBundle
  <2>1. req' = req
    BY <1>5 DEF Expire, TimePasses, ArchiveFails, ExportBundle
  <2> QED
    BY <1>0, <2>1
<1>6. CASE DatabaseLost
  <2>1. req' = [q \in Requests |-> Idle]
    BY <1>6 DEF DatabaseLost
  <2> QED
    BY <2>1 DEF ApartIn
<1> QED
  BY <1>1, <1>2, <1>3, <1>4, <1>5, <1>6, StepKinds

(* What is in place stays so if after a step the bundle has only networks  *)
(* that are there, and no network has gone or lost its subnet.             *)
Undisturbed(ss, e, c) ==
    /\ DOMAIN e = DOMAIN db /\ DOMAIN Bundle \subseteq DOMAIN c /\ \A x \in DOMAIN Bundle : c[x] = Bundle[x]
    /\ "networks" \in DOMAIN db =>
         /\ \A i : Settled(req, db, i) => Settled(ss, e, i)
         /\ DOMAIN db.networks \subseteq DOMAIN e.networks
         /\ "networks" \in DOMAIN c \ DOMAIN Bundle => DOMAIN c.networks \subseteq DOMAIN e.networks

(* So it is for the writes that a request had decided on before. *)
LEMMA OldInPlace ==
    ASSUME GoodState, RestoredInOrder, NEW ss, NEW e, NEW c, Undisturbed(ss, e, c),
           NEW q \in Requests, req[q] # Idle, NEW k \in DOMAIN req[q].work
    PROVE  InPlace(ss, req[q].work, k, e, c)
<1>1. InPlace(req, req[q].work, k, db, Bundle)
  BY DEF RestoredInOrder, RestoredIn
<1>2. req[q].work[k].kind = "save" => req[q].work[k].table \in DOMAIN db
  BY DEF GoodState, GoodRequests, GoodRequest, GoodWork, GoodWrite
<1>3. "allocs" \in DOMAIN db => "networks" \in DOMAIN db
  BY ParentsKept, TheKeys DEF HasParents, Key
<1> DEFINE work == req[q].work
           d == db
           b == Bundle
           rs == req
<1>4. InPlace(rs, work, k, d, b) /\ (work[k].kind = "save" => work[k].table \in DOMAIN d)
      /\ ("allocs" \in DOMAIN d => "networks" \in DOMAIN d)
  BY <1>1, <1>2, <1>3
<1>5. /\ DOMAIN e = DOMAIN d /\ DOMAIN b \subseteq DOMAIN c /\ \A x \in DOMAIN b : c[x] = b[x]
      /\ "networks" \in DOMAIN d =>
           /\ \A i : Settled(rs, d, i) => Settled(ss, e, i)
           /\ DOMAIN d.networks \subseteq DOMAIN e.networks
           /\ "networks" \in DOMAIN c \ DOMAIN b => DOMAIN c.networks \subseteq DOMAIN e.networks
  BY DEF Undisturbed
<1> HIDE DEF work, d, b, rs
<1>6. InPlace(ss, work, k, e, c)
  BY <1>4, <1>5, InPlaceLater
<1> QED
  BY <1>6 DEF work

(* And if nobody comes and networks keep their subnets. *)
LEMMA NobodyComes ==
    ASSUME GoodState, RestoredInOrder, NEW ss, NEW e, NEW c,
           \A q \in Requests : ss[q] # Idle => req[q] # Idle /\ ss[q].work = req[q].work,
           DOMAIN e = DOMAIN db, DOMAIN Bundle \subseteq DOMAIN c, \A x \in DOMAIN Bundle : c[x] = Bundle[x],
           "networks" \in DOMAIN db =>
              /\ \A i : HasSubnet(db, i) => HasSubnet(e, i)
              /\ DOMAIN db.networks \subseteq DOMAIN e.networks
              /\ "networks" \in DOMAIN c \ DOMAIN Bundle => DOMAIN c.networks \subseteq DOMAIN e.networks
    PROVE  RestoredIn(ss, e, c)
<1>1. Undisturbed(ss, e, c)
  BY DEF Undisturbed, Settled
<1> QED
  BY <1>1, OldInPlace DEF RestoredIn

(* A request that comes puts its writes in place, and takes no subnet away. *)
LEMMA OneComes ==
    ASSUME GoodState, RestoredInOrder, NEW ss, NEW r, NEW q \in Requests,
           \A p \in Requests : ss[p] = IF p = q THEN r ELSE req[p],
           \A k \in DOMAIN r.work : InPlace(ss, r.work, k, db, Bundle),
           \A k \in DOMAIN r.work : \A i : HasSubnet(db, i) => ~ Empties(r.work[k], i)
    PROVE  RestoredIn(ss, db, Bundle)
<1>1. \A i : Settled(req, db, i) => Settled(ss, db, i)
  BY DEF Settled
<1>2. Undisturbed(ss, db, Bundle)
  BY <1>1 DEF Undisturbed
<1> QED
  BY <1>2, OldInPlace DEF RestoredIn

(* A write that is made leaves the others in place, and what its request   *)
(* has still to insert.                                                    *)
LEMMA InOrderWrites == ASSUME GoodState, RestoredInOrder, NEW q \in Requests, Writes(q) PROVE RestoredInOrder'
<1> DEFINE w == Head(req[q].work)
           left == Tail(req[q].work)
           work == req[q].work
           e == db'
<1>1. /\ req[q] # Idle /\ files' = files
      /\ \A i \in DOMAIN left : i + 1 \in DOMAIN work /\ left[i] = work[i + 1]
      /\ DOMAIN work = 1 .. Len(work)
      /\ DOMAIN left = 1 .. Len(work) - 1 /\ Len(work) \in Nat
      /\ 1 \in DOMAIN work /\ w = work[1]
      /\ GoodWrite(w, DOMAIN db, asked) /\ HasParents(db) /\ GoodDb(db, asked)
      /\ e = IF Refused(db, w) THEN db ELSE Written(db, w)
      /\ \A p \in Requests : p # q => req'[p] = Overtaken(e)[p]
      /\ req'[q] # Idle => ~ Refused(db, w) /\ req'[q].work = left
  BY WritesStep
<1>2. Bundle' = Bundle
  BY <1>1 DEF Bundle
<1>3. \A p \in Requests : req[p] # Idle => \A k \in DOMAIN req[p].work : InPlace(req, req[p].work, k, db, Bundle)
  BY DEF RestoredInOrder, RestoredIn
<1> HIDE DEF w, left, work, e
<1>4. DOMAIN e = DOMAIN db
  <2>1. ~ Refused(db, w) => DOMAIN Written(db, w) = DOMAIN db
    BY <1>1, WrittenGood
  <2> QED
    BY <1>1, <2>1
<1>5. ASSUME NEW p \in Requests, req'[p] # Idle
      PROVE  /\ req[p] # Idle
             /\ \A k \in DOMAIN req'[p].work : \E j \in DOMAIN req[p].work : req'[p].work[k] = req[p].work[j]
             /\ p # q => req'[p].work = req[p].work
  <2>1. CASE p = q
    BY <1>1, <1>5, <2>1 DEF work
  <2>2. CASE p # q
    <3>1. req[p] # Idle /\ req'[p].work = req[p].work
      BY <1>1, <1>5, <2>2, OthersKeep
    <3> QED
      BY <2>2, <3>1
  <2> QED
    BY <2>1, <2>2
<1>6. ASSUME "networks" \in DOMAIN db
      PROVE  /\ \A i : HasSubnet(db, i) /\ ~ Empties(w, i) => HasSubnet(e, i)
             /\ DOMAIN db.networks \subseteq DOMAIN e.networks
             /\ ~ Refused(db, w) /\ w.kind = "insert" /\ w.table = "networks" =>
                  /\ w.id \notin DOMAIN db.networks
                  /\ w.row.subnet # None => HasSubnet(e, w.id)
  <2>1. CASE Refused(db, w)
    BY <1>1, <2>1
  <2>2. CASE ~ Refused(db, w)
    <3>1. w.kind = "delete" => w.table # "networks"
      BY <1>1, <1>3 DEF InPlace, work
    <3> QED
      BY <1>1, <1>6, <2>2, <3>1, SubnetStays
  <2> QED
    BY <2>1, <2>2
<1>7. Undisturbed(req', e, Bundle)
  <2>1. ASSUME "networks" \in DOMAIN db, NEW i, Settled(req, db, i) PROVE Settled(req', e, i)
    <3>1. HasSubnet(db, i) /\ ~ Empties(w, i)
      BY <1>1, <2>1 DEF Settled, work
    <3>2. HasSubnet(e, i)
      BY <1>6, <2>1, <3>1
    <3> QED
      BY <1>5, <2>1, <3>2, SettledLater
  <2> QED
    BY <1>4, <1>6, <2>1 DEF Undisturbed
<1>8. ASSUME "networks" \in DOMAIN db, ~ Refused(db, w), w.kind = "insert", w.table = "networks",
             w.row.subnet # None
      PROVE  Settled(req', e, w.id)
  <2>1. HasSubnet(e, w.id) /\ w.id \notin DOMAIN db.networks
    BY <1>6, <1>8
  <2>2. "networks" \in DOMAIN Bundle /\ w.id \in DOMAIN Bundle.networks
    BY <1>1, <1>3, <1>8 DEF InPlace, work
  <2>3. ASSUME NEW p \in Requests, req'[p] # Idle, NEW k \in DOMAIN req'[p].work
        PROVE  ~ Empties(req'[p].work[k], w.id)
    <3>1. PICK j \in DOMAIN req[p].work : req'[p].work[k] = req[p].work[j]
      BY <1>5, <2>3
    <3>2. InPlace(req, req[p].work, j, db, Bundle)
      BY <1>3, <1>5, <2>3
    <3> QED
      BY <2>1, <2>2, <3>1, <3>2 DEF InPlace, KnownOrNew, Empties
  <2> QED
    BY <2>1, <2>3 DEF Settled
<1>9. ASSUME NEW p \in Requests, req'[p] # Idle, NEW k \in DOMAIN req'[p].work
      PROVE  InPlace(req', req'[p].work, k, e, Bundle)
  <2>1. CASE p # q
    BY <1>5, <1>7, <1>9, <2>1, OldInPlace
  <2>2. CASE p = q
    <3>1. req'[p].work = left /\ ~ Refused(db, w) /\ k \in DOMAIN left /\ k \in Nat
          /\ k + 1 \in DOMAIN work /\ left[k] = work[k + 1]
      BY <1>1, <1>9, <2>2
    <3>2. InPlace(req', work, k + 1, e, Bundle)
      BY <1>1, <1>7, <3>1, OldInPlace DEF work
    <3>3. ASSUME left[k].kind = "insert", left[k].table = "allocs",
                 NEW j \in DOMAIN work, j < k + 1, work[j].kind = "insert", work[j].table = "networks",
                 work[j].id = left[k].row.subnet, work[j].row.subnet # None
          PROVE  \/ Settled(req', e, left[k].row.subnet)
                 \/ \E i \in DOMAIN left :
                      /\ i < k /\ left[i].kind = "insert" /\ left[i].table = "networks"
                      /\ left[i].id = left[k].row.subnet /\ left[i].row.subnet # None
      <4>1. CASE j = 1
        <5>1. "networks" \in DOMAIN db
          BY <1>1, <3>3, <4>1 DEF GoodWrite
        <5> QED
          BY <1>1, <1>8, <3>1, <3>3, <4>1, <5>1
      <4>2. CASE j # 1
        <5> DEFINE i == j - 1
        <5>1. i \in DOMAIN left /\ i < k /\ i + 1 = j
          BY <1>1, <3>1, <3>3, <4>2
        <5>2. left[i] = work[j]
          BY <1>1, <5>1
        <5> HIDE DEF i
        <5> QED
          BY <3>3, <5>1, <5>2
      <4> QED
        BY <4>1, <4>2
    <3>4. InPlace(req', left, k, e, Bundle)
      BY <3>1, <3>2, <3>3 DEF InPlace
    <3> QED
      BY <3>1, <3>4
  <2> QED
    BY <2>1, <2>2
<1>10. RestoredIn(req', e, Bundle)
  BY <1>9 DEF RestoredIn
<1> QED
  BY <1>2, <1>10 DEF e, RestoredInOrder, RestoredIn

(* A bundle is put back in order, whoever else asks and writes. *)
LEMMA InOrderStep == ASSUME GoodState, RestoredInOrder, ServicesNext PROVE RestoredInOrder'
<1> SUFFICES RestoredIn(req', db', Bundle')
  BY DEF RestoredInOrder, RestoredIn
<1>0. RestoredIn(req, db, Bundle)
  BY DEF RestoredInOrder
<1>1. CASE Requested
  <2>1. PICK reads, work : Handles(reads, work) /\ LawfulWork(reads, work)
    BY <1>1 DEF Requested
  <2>2. DOMAIN db' = DOMAIN db
    BY <1>1, TablesStay
  <2>3. Bundle' = Bundle
    BY <2>1 DEF Handles, RunsThrough, Suspends, Bundle
  <2>4. CASE RunsThrough(work)
    <3>1. db' = AllWritten(db, work) /\ req' = Overtaken(db')
      BY <2>4 DEF RunsThrough
    <3> DEFINE e == db'
    <3>2. "networks" \in DOMAIN db =>
            (\A i : HasSubnet(db, i) => HasSubnet(e, i)) /\ DOMAIN db.networks \subseteq DOMAIN e.networks
      <4>1. asked + 1 \in Nat
        BY StoreAssumption DEF GoodState
      <4> QED
        BY <2>1, <3>1, <4>1, SubnetsStay
    <3>3. DOMAIN e = DOMAIN db /\ req' = Overtaken(e)
      BY <2>2, <3>1
    <3> HIDE DEF e
    <3>4. \A q \in Requests : req'[q] # Idle => req[q] # Idle /\ req'[q].work = req[q].work
      BY <3>3, OthersKeep
    <3>5. RestoredIn(req', e, Bundle)
      BY <3>2, <3>3, <3>4, NobodyComes
    <3> QED
      BY <2>3, <3>5 DEF e
  <2>5. CASE Suspends(reads, work)
    <3> DEFINE r == [reads |-> reads, work |-> work, overtaken |-> FALSE]
    <3>1. db' = db /\ \E q \in Requests : req' = [req EXCEPT ![q] = r]
      BY <2>5 DEF Suspends
    <3>2. PICK q \in Requests : req' = [req EXCEPT ![q] = r]
      BY <3>1
    <3>3. r.work = work
      OBVIOUS
    <3> HIDE DEF r
    <3>4. \A p \in Requests : req'[p] = IF p = q THEN r ELSE req[p]
      BY <3>2, Joined
    <3>5. ASSUME NEW k \in DOMAIN work
          PROVE  InPlace(req', work, k, db, Bundle) /\ \A i : HasSubnet(db, i) => ~ Empties(work[k], i)
      <4>1. LawfulWrite(reads, work[k]) /\ InOrder(work)
        BY <2>1 DEF LawfulWork
      <4>2. work[k].kind = "insert" /\ work[k].table = "allocs" =>
              \E j \in DOMAIN work :
                /\ j < k /\ work[j].kind = "insert" /\ work[j].table = "networks"
                /\ work[j].id = work[k].row.subnet /\ work[j].row.subnet # None
        BY <4>1 DEF InOrder
      <4>3. InPlace(req', work, k, db, Bundle)
        BY <4>1, <4>2 DEF LawfulWrite, InPlace, Keeps
      <4>4. \A i : HasSubnet(db, i) => ~ Empties(work[k], i)
        BY <4>1 DEF LawfulWrite, Clears, Empties
      <4> QED
        BY <4>3, <4>4
    <3>6. RestoredIn(req', db, Bundle)
      BY <3>3, <3>4, <3>5, OneComes
    <3> QED
      BY <2>3, <3>1, <3>6
  <2> QED
    BY <2>1, <2>4, <2>5 DEF Handles
<1>2. ASSUME NEW q \in Requests, Writes(q) PROVE RestoredIn(req', db', Bundle')
  BY <1>2, InOrderWrites DEF RestoredInOrder, RestoredIn
<1>3. CASE ArchiveBatch
  <2>1. PICK batch \in Batches : \E q \in Requests :
          /\ files' = [files EXCEPT !.archive = Archived(batch)]
          /\ req' = [req EXCEPT ![q] = [reads |-> {}, work |-> <<DeletesMany(batch)>>, overtaken |-> FALSE]]
    BY <1>3 DEF ArchiveBatch
  <2> DEFINE w == DeletesMany(batch)
             work == <<w>>
             r == [reads |-> {}, work |-> work, overtaken |-> FALSE]
  <2>2. PICK q \in Requests : req' = [req EXCEPT ![q] = r]
    BY <2>1
  <2>3. r.work = work /\ w.kind = "deleteAll"
    BY DEF DeletesMany, DropAll, Write
  <2>4. db' = db /\ Bundle' = Bundle
    BY <1>3, <2>1 DEF ArchiveBatch, Bundle, GoodState
  <2> HIDE DEF w
  <2>5. DOMAIN work = {1} /\ work[1] = w
    BY OneFact
  <2> HIDE DEF work, r
  <2>6. \A p \in Requests : req'[p] = IF p = q THEN r ELSE req[p]
    BY <2>2, Joined
  <2>7. \A k \in DOMAIN work : InPlace(req', work, k, db, Bundle) /\ \A i : ~ Empties(work[k], i)
    BY <2>3, <2>5 DEF InPlace, Empties
  <2>8. RestoredIn(req', db, Bundle)
    BY <2>3, <2>6, <2>7, OneComes
  <2> QED
    BY <2>4, <2>8
<1>4. ASSUME NEW q \in Requests, Stops(q) PROVE RestoredIn(req', db', Bundle')
  <2>1. req' = [req EXCEPT ![q] = Idle] /\ db' = db /\ files' = files
    BY <1>4 DEF Stops
  <2>2. \A p \in Requests : req'[p] = IF p = q THEN Idle ELSE req[p]
    BY <2>1, Joined
  <2>3. RestoredIn(req', db, Bundle)
    BY <2>2, NobodyComes
  <2> QED
    BY <2>1, <2>3 DEF Bundle
<1>5. CASE Expire \/ TimePasses
  <2>1. req' = req /\ files' = files
    BY <1>5 DEF Expire, TimePasses
  <2>2. DOMAIN db' = DOMAIN db /\ ("networks" \in DOMAIN db => db'["networks"] = db["networks"])
    <3>1. CASE Expire
      <4>1. PICK tk : db' = [db EXCEPT !.tokens[tk].expired = TRUE]
        BY <3>1 DEF Expire
      <4> DEFINE new == [db["tokens"] EXCEPT ![tk].expired = TRUE]
      <4>2. db' = [db EXCEPT !["tokens"] = new]
        BY <4>1
      <4> HIDE DEF new
      <4> QED
        BY <4>2
    <3>2. CASE TimePasses
      <4>1. db' = [t \in DOMAIN db |->
                    IF t \in {"audit", "operations"} THEN [i \in Ids(t) |-> [old |-> TRUE]] ELSE db[t]]
        BY <3>2 DEF TimePasses
      <4> QED
        BY <4>1
    <3> QED
      BY <1>5, <3>1, <3>2
  <2> DEFINE e == db'
  <2>3. /\ DOMAIN e = DOMAIN db
        /\ "networks" \in DOMAIN db =>
             (\A i : HasSubnet(db, i) => HasSubnet(e, i)) /\ DOMAIN db.networks \subseteq DOMAIN e.networks
    BY <2>2 DEF HasSubnet
  <2> HIDE DEF e
  <2>4. RestoredIn(req, e, Bundle)
    BY <2>3, NobodyComes
  <2> QED
    BY <2>1, <2>4 DEF e, Bundle
<1>6. CASE ArchiveFails
  <2>1. PICK batch : \E done \in SUBSET batch : files' = [files EXCEPT !.archive = @ \cup done]
    BY <1>6 DEF ArchiveFails
  <2>2. db' = db /\ req' = req /\ Bundle' = Bundle
    BY <1>6, <2>1 DEF ArchiveFails, Bundle, GoodState
  <2> QED
    BY <1>0, <2>2
<1>7. CASE ExportBundle
  <2>1. db' = db /\ req' = req
    BY <1>7 DEF ExportBundle
  <2>2. /\ DOMAIN Bundle \subseteq DOMAIN Bundle' /\ \A x \in DOMAIN Bundle : Bundle'[x] = Bundle[x]
        /\ "networks" \in DOMAIN Bundle' \ DOMAIN Bundle => Bundle'["networks"] = db["networks"]
    BY <1>7, ExportStep DEF ReadOf
  <2> DEFINE c == Bundle'
  <2>3. /\ DOMAIN Bundle \subseteq DOMAIN c /\ \A x \in DOMAIN Bundle : c[x] = Bundle[x]
        /\ "networks" \in DOMAIN c \ DOMAIN Bundle => DOMAIN c.networks \subseteq DOMAIN db.networks
    BY <2>2
  <2> HIDE DEF c
  <2>4. RestoredIn(req, db, c)
    BY <2>3, NobodyComes
  <2> QED
    BY <2>1, <2>4 DEF c
<1>8. CASE DatabaseLost
  <2>1. req' = [q \in Requests |-> Idle]
    BY <1>8 DEF DatabaseLost
  <2> QED
    BY <2>1 DEF RestoredIn
<1> QED
  BY <1>1, <1>2, <1>3, <1>4, <1>5, <1>6, <1>7, <1>8, StepKinds

------------------------------------------------------------------------------
(* What no two requests take, where addresses are, what an import finds.   *)

(* The inductive invariant of what has been seen: the tables and requests  *)
(* are good, saves of one request stay apart, a bundle is put back in      *)
(* order, and who has not been overtaken has seen what still is so.        *)
SeenInv == GoodState /\ AllApart /\ RestoredInOrder /\ SeenIsSo

(* Nothing is taken in the tables a controller starts with. *)
LEMMA SeenInit == ASSUME Init PROVE SeenInv
<1>1. /\ db \in Deployments /\ req = [q \in Requests |-> Idle]
      /\ Bundle = <<>>
  BY DEF Init, Bundle
<1>2. Starts(db)
  BY <1>1, DeploymentAssumption
<1>3. \A t \in {"retention", "snapshots", "vpnPeers", "allocs"} : t \in DOMAIN db => DOMAIN db[t] = {}
  BY <1>2 DEF Starts
<1>4. Taken(db, Bundle)
  BY <1>3 DEF Taken, OneGlobalPolicy, VersionsDiffer, KeysDiffer, NotStranded
<1>5. \A q \in Requests : req[q] = Idle
  BY <1>1
<1> QED
  BY <1>4, <1>5, GoodInit DEF SeenInv, AllApart, ApartIn, RestoredInOrder, RestoredIn, SeenIsSo, SeenIn

(* Every step keeps that. *)
LEMMA SeenStep == ASSUME SeenInv, [Next]_<<storeVars, limiterVars>> PROVE SeenInv'
<1>0. GoodState /\ AllApart /\ RestoredInOrder /\ SeenIsSo
  BY DEF SeenInv
<1>1. GoodState'
  BY <1>0, GoodStep
<1>2. CASE ServicesNext
  <2>1. AllApart' /\ RestoredInOrder'
    BY <1>0, <1>2, ApartStep, InOrderStep
  <2>2. ASSUME NEW q \in Requests, Writes(q) PROVE SeenIsSo'
    BY <1>0, <2>2, SeenWrites
  <2>3. ASSUME NEW q \in Requests, Stops(q) PROVE SeenIsSo'
    BY <1>0, <2>3, SeenElse
  <2>4. ASSUME Requested PROVE SeenIsSo'
    BY <1>0, <2>4, SeenHandled
  <2>5. ASSUME Expire \/ TimePasses PROVE SeenIsSo'
    BY <1>0, <2>5, SeenInTime
  <2>6. ASSUME \/ ArchiveBatch \/ ArchiveFails
               \/ Keeps("allocs") /\ Keeps("accounts") /\ (ExportBundle \/ DatabaseLost)
        PROVE  SeenIsSo'
    BY <1>0, <2>6, SeenElse
  <2>7. SeenIsSo'
    BY <1>0, <1>2, <2>2, <2>3, <2>4, <2>5, <2>6, StepKinds
  <2> QED
    BY <1>1, <2>1, <2>7 DEF SeenInv
<1>3. CASE UNCHANGED storeVars
  BY <1>0, <1>1, <1>3 DEF SeenInv, storeVars, AllApart, RestoredInOrder, SeenIsSo, Bundle
<1> QED
  BY <1>2, <1>3 DEF Next

(* What a request read before it was suspended is so when it writes, or  *)
(* it was overtaken by another's write and its save is late.             *)
THEOREM SeenStaysSo == Spec => []SeenInv
<1>1. SeenInv /\ [Next]_<<storeVars, limiterVars>> => SeenInv'
  BY SeenStep
<1> QED
  BY SeenInit, <1>1, PTL DEF Spec

(* A project has one quota and one policy, whoever saves last. *)
LEMMA KeysAlone ==
    ASSUME GoodState, NEW p \in Owners
    PROVE  Cardinality(QuotaOf(p)) <= 1 /\ Cardinality(PolicyFor(p)) <= 1
<1>1. <<"quotas", {"project"}>> \in UniqueKeys /\ <<"retention", {"project"}>> \in UniqueKeys
  BY DEF UniqueKeys
<1>2. p # None
  BY GovernanceAssumption
<1>3. \A i, j \in QuotaOf(p) : i = j
  <2> SUFFICES ASSUME NEW i \in QuotaOf(p), NEW j \in QuotaOf(p) PROVE i = j
    OBVIOUS
  <2>1. /\ i \in Ids("quotas") /\ j \in Ids("quotas")
        /\ \A c \in {"project"} : Rows("quotas")[i][c] = Rows("quotas")[j][c] /\ Rows("quotas")[j][c] # None
    BY <1>2 DEF QuotaOf, Quota
  <2> QED
    BY <1>1, <2>1, Alone
<1>4. \A i, j \in PolicyFor(p) : i = j
  <2> SUFFICES ASSUME NEW i \in PolicyFor(p), NEW j \in PolicyFor(p) PROVE i = j
    OBVIOUS
  <2>1. /\ i \in Ids("retention") /\ j \in Ids("retention")
        /\ \A c \in {"project"} : Rows("retention")[i][c] = Rows("retention")[j][c] /\ Rows("retention")[j][c] # None
    BY <1>2 DEF PolicyFor, RetentionPolicy
  <2> QED
    BY <1>1, <2>1, Alone
<1> QED
  BY <1>3, <1>4, AtMostOne

(* The rows of a table that is not kept are none. *)
LEMMA RowsOf == ASSUME NEW t, NEW i \in Ids(t) PROVE t \in DOMAIN db /\ i \in DOMAIN db[t] /\ Rows(t) = db[t]
BY DEF Ids, Rows

(* What two requests both found free is not taken twice: an address and  *)
(* a destination never, and a project has one quota and one policy,      *)
(* because the constraints refuse the second or the second save is the   *)
(* first's row; a global policy, a version and a peer's key are only     *)
(* when a late save landed.                                              *)
THEOREM NothingTakenTwice == Spec => []TakenOnce
<1>1. ASSUME SeenInv PROVE TakenOnce
  <2>0. GoodState /\ SeenIsSo
    BY <1>1 DEF SeenInv
  <2>1. late \/ (OneGlobalPolicy(db) /\ VersionsDiffer(db) /\ KeysDiffer(db))
    BY <2>0 DEF SeenIsSo, Taken
  <2>2. late \/ Cardinality(PolicyFor(None)) <= 1
    <3> SUFFICES ASSUME OneGlobalPolicy(db) PROVE Cardinality(PolicyFor(None)) <= 1
      BY <2>1
    <3>1. \A i, j \in PolicyFor(None) : i = j
      BY RowsOf DEF PolicyFor, RetentionPolicy, OneGlobalPolicy
    <3> QED
      BY <3>1, AtMostOne
  <2>3. late \/ \A p \in Owners : \A s, u \in SnapshotsOf(p) :
                  Snapshot(s).version = Snapshot(u).version => s = u
    <3> SUFFICES ASSUME VersionsDiffer(db), NEW p \in Owners, NEW s \in SnapshotsOf(p), NEW u \in SnapshotsOf(p),
                        Snapshot(s).version = Snapshot(u).version
                 PROVE  s = u
      BY <2>1
    <3> QED
      BY RowsOf DEF SnapshotsOf, Snapshot, VersionsDiffer
  <2>4. PeerKeysDiffer
    <3> SUFFICES ASSUME KeysDiffer(db), NEW t \in Ids("tunnels"), NEW p \in PeersIn(t), NEW o \in PeersIn(t),
                        VpnPeer(p).key = VpnPeer(o).key
                 PROVE  p = o
      BY <2>1 DEF PeerKeysDiffer
    <3> QED
      BY RowsOf DEF PeersIn, VpnPeer, KeysDiffer
  <2>5. \A p \in Owners : Cardinality(QuotaOf(p)) <= 1 /\ Cardinality(PolicyFor(p)) <= 1
    BY <2>0, KeysAlone
  <2> QED
    BY <2>0, <2>2, <2>3, <2>4, <2>5, AddressesAlone, RoutesDiffer DEF TakenOnce, OnePerKey
<1> QED
  BY <1>1, SeenStaysSo, PTL

(* The allocator misses no free address, and an address leaves its       *)
(* subnet only by the update that gives up pools and ranges, by a late   *)
(* save, or with a bundle.                                               *)
THEOREM AddressesStayIn == Spec => []AddressesFit
<1>1. ASSUME SeenInv, AllocatorIsExact PROVE AddressesFit
  <2>1. late \/ NotStranded(db, Bundle)
    BY <1>1 DEF SeenInv, SeenIsSo, Taken
  <2>2. StrandedOnlyUnchecked
    <3> SUFFICES ASSUME NotStranded(db, Bundle), NEW a \in Ids("allocs")
                 PROVE  LET s == Network(Allocation(a).subnet).subnet
                        IN Inside(Allocation(a).ip, s.cidr) \/ Plain(s) \/ Restored(Bundle, a)
      BY <2>1 DEF StrandedOnlyUnchecked, Plain, Restored, Bundle
    <3>1. "allocs" \in DOMAIN db /\ a \in DOMAIN db["allocs"] /\ Rows("allocs") = db["allocs"]
      BY RowsOf
    <3>2. "networks" \in DOMAIN db
      BY <1>1, <3>1, ParentsKept, TheKeys DEF SeenInv, HasParents, Key
    <3>3. Network(Allocation(a).subnet) = db["networks"][db["allocs"][a].subnet] /\ Allocation(a) = db["allocs"][a]
      BY <3>1, <3>2 DEF Network, Allocation, Rows
    <3> QED
      BY <3>1, <3>3 DEF NotStranded
  <2> QED
    BY <1>1, <2>2 DEF AddressesFit
<1> QED
  BY <1>1, SeenStaysSo, AllocatorStaysExact, PTL

(* What the table refuses of an insert that refers to what is there, is    *)
(* there already.                                                          *)
LEMMA RefusedFact ==
    ASSUME GoodState, NEW w, w.kind = "insert", w.table \in {"networks", "nodes", "accounts", "allocs"},
           w.table \in DOMAIN db, w.id \notin DOMAIN db[w.table], Refused(db, w),
           w.table = "allocs" => HasSubnet(db, w.row.subnet)
    PROVE  \E u \in UniqueKeys, i \in Ids(w.table) : u[1] = w.table /\ Same(u[1], i, w.row, u[2])
<1> DEFINE t == w.table
           e == Stored(db, t, w.id, w.row)
<1>1. /\ DOMAIN e = DOMAIN db /\ \A x \in DOMAIN db : x # t => e[x] = db[x]
      /\ DOMAIN e[t] = DOMAIN db[t] \cup {w.id}
      /\ \A i \in DOMAIN db[t] : i # w.id => e[t][i] = db[t][i]
      /\ e[t][w.id] = w.row
  BY StoredFact
<1>2. ~ Accepted(Written(db, w), t, w.id)
  BY DEF Refused, IsKnown
<1>3. CASE t = "networks"
  <2>1. \A k \in ForeignKeys : k.child # t
    BY <1>3, KeyFacts DEF KeyFact, Roots
  <2>2. \A u \in UniqueKeys : u[1] # t
    BY <1>3 DEF UniqueKeys
  <2> QED
    BY <1>2, <2>1, <2>2 DEF Accepted
<1>4. CASE t # "networks"
  <2>1. ~ Accepted(e, t, w.id)
    BY <1>2, <1>4 DEF Written
  <2> HIDE DEF e
  <2>2. ASSUME NEW k \in ForeignKeys, k.child = t
        PROVE  e[t][w.id][k.field] = None \/ Exists(e, k, e[t][w.id][k.field])
    <3>1. k.child \notin Roots /\ (k.child = "allocs" => k.parent = "networks" /\ k.field = "subnet")
      BY KeyFacts DEF KeyFact
    <3>2. t = "allocs"
      BY <2>2, <3>1 DEF Roots
    <3>3. "networks" \in DOMAIN db
      BY <3>2, ParentsKept, TheKeys DEF HasParents, Key
    <3>4. e["networks"] = db["networks"]
      BY <1>1, <1>4, <3>3
    <3> QED
      BY <1>1, <2>2, <3>1, <3>2, <3>4 DEF Exists, HasSubnet
  <2>3. PICK u \in UniqueKeys, i \in DOMAIN e[t] \ {w.id} :
          u[1] = t /\ \A c \in u[2] : e[t][i][c] = e[t][w.id][c] /\ e[t][w.id][c] # None
    BY <2>1, <2>2 DEF Accepted
  <2>4. i \in Ids(t) /\ Rows(t)[i] = e[t][i]
    BY <1>1, <2>3 DEF Ids, Rows
  <2>5. \A c \in u[2] : Rows(t)[i][c] = w.row[c]
    BY <1>1, <2>3, <2>4
  <2> QED
    BY <2>3, <2>4, <2>5 DEF Same
<1> QED
  BY <1>3, <1>4

(* A row of the bundle that the table refuses on import is there         *)
(* already, under its id or a unique key of its own, and is never        *)
(* refused because what it refers to is missing: networks are put back   *)
(* before addresses.                                                     *)
THEOREM RefusedStaysThere == Spec => []RefusedIsThere
<1>1. ASSUME SeenInv PROVE RefusedIsThere
  <2> SUFFICES ASSUME NEW q \in Requests, req[q] # Idle, Head(req[q].work).kind = "insert",
                      Refused(db, Head(req[q].work)), Head(req[q].work).id \notin Ids(Head(req[q].work).table)
               PROVE  \E u \in UniqueKeys, i \in Ids(Head(req[q].work).table) :
                         u[1] = Head(req[q].work).table /\ Same(u[1], i, Head(req[q].work).row, u[2])
    BY DEF RefusedIsThere, RefusedInserts
  <2> DEFINE w == Head(req[q].work)
  <2>0. GoodState /\ RestoredInOrder
    BY <1>1 DEF SeenInv
  <2>1. /\ req[q].work # <<>> /\ GoodWork(req[q].work, DOMAIN db, asked)
    BY <2>0 DEF GoodState, GoodRequests, GoodRequest
  <2>2. 1 \in DOMAIN req[q].work /\ w = req[q].work[1] /\ DOMAIN req[q].work \subseteq Nat \ {0}
    BY <2>1, TailFact DEF GoodWork
  <2>3. InPlace(req, req[q].work, 1, db, Bundle)
    BY <2>0, <2>2 DEF RestoredInOrder, RestoredIn
  <2>4. \A j \in DOMAIN req[q].work : ~ (j < 1)
    BY <2>2
  <2>5. /\ w.table \in {"networks", "nodes", "accounts", "allocs"}
        /\ w.table = "allocs" => HasSubnet(db, w.row.subnet)
    BY <2>2, <2>3, <2>4 DEF InPlace, Settled
  <2>6. w.table \in DOMAIN db
    BY <2>1, <2>2 DEF GoodWork, GoodWrite
  <2>7. w.id \notin DOMAIN db[w.table]
    BY <2>6 DEF Ids, Rows
  <2> HIDE DEF w
  <2> SUFFICES \E u \in UniqueKeys, i \in Ids(w.table) : u[1] = w.table /\ Same(u[1], i, w.row, u[2])
    BY DEF w
  <2>8. w.kind = "insert" /\ Refused(db, w)
    BY DEF w
  <2> QED
    BY <2>0, <2>5, <2>6, <2>7, <2>8, RefusedFact
<1> QED
  BY <1>1, SeenStaysSo, PTL

------------------------------------------------------------------------------
(* What becomes of a row that tells who gets in, what runs, what is known. *)

\* Tables of which a row disappears in ways that are few.
Watched == {"accounts", "tokens", "schedules", "audit"}

\* The writes of every request but a sweep's.
Mild(w) ==
    /\ w.kind = "delete" => w.table \notin {"accounts", "tokens", "networks", "audit"}
    /\ w.kind = "deleteAll" => w.table # "audit"
    /\ w.kind = "insert" => w.table \in {"networks", "nodes", "accounts", "allocs"}

\* The references of table x lead somewhere.
Sound(d, x) == \A k \in ForeignKeys : k.child = x => Refers(d, k)

(* A sweep takes no row whose references lead somewhere, and keeps it so.  *)
LEMMA SweepLeaves ==
    ASSUME NEW d, NEW x \in Watched, x \in DOMAIN d, Sound(d, x), HasParents(d)
    PROVE  /\ DOMAIN Sweep(d)[x] = DOMAIN d[x] /\ \A i \in DOMAIN d[x] : Sweep(d)[x][i] = d[x][i]
           /\ Sound(Sweep(d), x) /\ DOMAIN Sweep(d) = DOMAIN d
<1>0. x # "fips"
  BY DEF Watched
<1>1. DOMAIN Sweep(d) = DOMAIN d
  BY SweepFact
<1>2. ASSUME NEW k \in ForeignKeys, k.child = x PROVE Refers(Sweep(d), k)
  <2>1. k.parent \in Roots
    BY <1>2, KeyFacts DEF KeyFact, Watched, Roots
  <2>2. \A kk \in ForeignKeys : kk.child # k.parent
    BY <2>1, KeyFacts DEF KeyFact
  <2>3. k.parent \in DOMAIN d
    BY <1>2 DEF HasParents
  <2>4. DOMAIN Sweep(d)[k.parent] = DOMAIN d[k.parent]
    BY <2>2, <2>3, SweepRoots
  <2> QED
    BY <1>0, <1>2, <2>3, <2>4, SweepRefers
<1> QED
  BY <1>0, <1>1, <1>2, SweepKept DEF Sound

(* A mild write leaves a row as it is, merges its own with it, or deletes  *)
(* a schedule; a row that is new is its own.                               *)
LEMMA RowAfter ==
    ASSUME NEW d, NEW n, HasParents(d), GoodDb(d, n), NEW w, GoodWrite(w, DOMAIN d, n), ~ Refused(d, w), Mild(w),
           NEW x \in Watched, x \in DOMAIN d, NEW e, e = Written(d, w)
    PROVE  /\ \A i \in DOMAIN d[x] :
                \/ i \in DOMAIN e[x] /\ e[x][i] = d[x][i]
                \/ /\ w.kind = "save" /\ w.table = x /\ w.id = i
                   /\ i \in DOMAIN e[x] /\ e[x][i] = Merged(x, w.row, d[x][i])
                \/ x = "schedules" /\ w.kind = "delete" /\ i \notin DOMAIN e[x]
           /\ \A i \in DOMAIN e[x] : i \in DOMAIN d[x] \/ (w.kind \in {"save", "insert"} /\ w.table = x /\ w.id = i)
<1>0. Sound(d, x)
  BY DEF GoodDb, Refs, Sound
<1>1. CASE w.kind = "delete"
  <2> DEFINE d1 == [d EXCEPT ![w.table] = Keep(@, DOMAIN @ \ {w.id})]
             d2 == Sweep(d1)
  <2>1. e = Sweep(d2) /\ w.table \in DOMAIN d /\ w.table \notin {"accounts", "tokens", "networks", "audit"}
    BY <1>1 DEF Written, Deleted, GoodWrite, Mild
  <2>2. /\ DOMAIN d1 = DOMAIN d /\ \A y \in DOMAIN d : y # w.table => d1[y] = d[y]
        /\ DOMAIN d1[x] \subseteq DOMAIN d[x] /\ \A i \in DOMAIN d1[x] : d1[x][i] = d[x][i]
        /\ x # w.table => d1[x] = d[x]
    BY <2>1 DEF Keep
  <2> HIDE DEF d1
  <2>3. Sound(d1, x)
    <3>1. ASSUME NEW k \in ForeignKeys, k.child = x PROVE Refers(d1, k)
      <4>1. x = "tokens" /\ k.parent = "accounts" /\ x # w.table /\ "accounts" \in DOMAIN d
        <5>1. x = "tokens" /\ k.parent = "accounts"
          BY <3>1, KeyFacts DEF KeyFact, Watched, Roots
        <5> QED
          BY <2>1, <3>1, <5>1 DEF HasParents
      <4>2. d1[x] = d[x] /\ d1["accounts"] = d["accounts"]
        BY <2>1, <2>2, <4>1
      <4>3. Refers(d, k)
        BY <1>0, <3>1 DEF Sound
      <4> QED
        BY <3>1, <4>1, <4>2, <4>3 DEF Refers, Exists
    <3> QED
      BY <3>1 DEF Sound
  <2>4. HasParents(d1)
    BY <2>2 DEF HasParents
  <2>5. /\ DOMAIN d2[x] = DOMAIN d1[x] /\ \A i \in DOMAIN d1[x] : d2[x][i] = d1[x][i]
        /\ Sound(d2, x) /\ DOMAIN d2 = DOMAIN d1
    BY <2>2, <2>3, <2>4, SweepLeaves
  <2> HIDE DEF d2
  <2>6. HasParents(d2)
    BY <2>4, <2>5 DEF HasParents
  <2>7. DOMAIN e[x] = DOMAIN d2[x] /\ \A i \in DOMAIN d2[x] : e[x][i] = d2[x][i]
    BY <2>1, <2>2, <2>5, <2>6, SweepLeaves
  <2>8. DOMAIN e[x] \subseteq DOMAIN d[x] /\ \A i \in DOMAIN e[x] : e[x][i] = d[x][i]
    BY <2>2, <2>5, <2>7
  <2>9. x # "schedules" => x # w.table
    BY <2>1 DEF Watched
  <2>10. x # "schedules" => DOMAIN e[x] = DOMAIN d[x]
    BY <2>2, <2>5, <2>7, <2>9
  <2> QED
    BY <1>1, <2>8, <2>10
<1>2. CASE w.kind = "empty"
  <2>1. e = [d EXCEPT ![w.table] = Keep(@, {i \in DOMAIN @ : @[i][w.row] # w.id})] /\ w.table # x
    BY <1>2 DEF Written, GoodWrite, Watched
  <2>2. e[x] = d[x]
    BY <2>1
  <2> QED
    BY <2>2
<1>3. CASE w.kind = "deleteAll"
  <2>1. e = [d EXCEPT ![w.table] = Keep(@, DOMAIN @ \ w.id)] /\ w.table # x
    BY <1>3 DEF Written, GoodWrite, Mild, Watched
  <2>2. e[x] = d[x]
    BY <2>1
  <2> QED
    BY <2>2
<1>4. CASE w.kind \in {"save", "insert"}
  <2> DEFINE t == w.table
             s == Stored(d, t, w.id, w.row)
  <2>1. t \in DOMAIN d /\ e = IF t = "networks" THEN Sweep(s) ELSE s
    BY <1>4 DEF Written, GoodWrite
  <2>2. /\ DOMAIN s = DOMAIN d
        /\ \A y \in DOMAIN d : y # t => s[y] = d[y]
        /\ DOMAIN s[t] = DOMAIN d[t] \cup {w.id}
        /\ \A i \in DOMAIN d[t] : i # w.id => s[t][i] = d[t][i]
        /\ s[t][w.id] = IF w.id \in DOMAIN d[t] THEN Merged(t, w.row, d[t][w.id]) ELSE w.row
    BY <2>1, StoredFact
  <2> HIDE DEF s
  <2>3. CASE t = "networks"
    <3>1. t # x /\ s[x] = d[x] /\ (x = "tokens" /\ "accounts" \in DOMAIN d => s["accounts"] = d["accounts"])
      BY <2>2, <2>3 DEF Watched
    <3>2. Sound(s, x)
      <4>1. ASSUME NEW k \in ForeignKeys, k.child = x PROVE Refers(s, k)
        <5>1. x = "tokens" /\ k.parent = "accounts" /\ Refers(d, k)
          BY <1>0, <4>1, KeyFacts DEF KeyFact, Watched, Roots, Sound
        <5>2. "accounts" \in DOMAIN d
          BY <4>1, <5>1 DEF HasParents
        <5> QED
          BY <3>1, <4>1, <5>1, <5>2 DEF Refers, Exists
      <4> QED
        BY <4>1 DEF Sound
    <3>3. HasParents(s)
      BY <2>2 DEF HasParents
    <3>4. DOMAIN e[x] = DOMAIN d[x] /\ \A i \in DOMAIN d[x] : e[x][i] = d[x][i]
      BY <2>1, <2>2, <2>3, <3>1, <3>2, <3>3, SweepLeaves
    <3> QED
      BY <3>4
  <2>4. CASE t # "networks"
    <3>1. e = s
      BY <2>1, <2>4
    <3>2. CASE t # x
      BY <2>2, <3>1, <3>2
    <3>3. CASE t = x
      <4>1. w.kind = "insert" => w.id \notin DOMAIN d[x]
        BY <3>3 DEF Refused, IsKnown
      <4> QED
        BY <1>4, <2>2, <3>1, <3>3, <4>1
    <3> QED
      BY <3>2, <3>3
  <2> QED
    BY <2>3, <2>4
<1> QED
  BY <1>1, <1>2, <1>3, <1>4 DEF GoodWrite

(* All the writes of a request make at most one save of a row that is    *)
(* there, and what is new is a write's own.                              *)
LEMMA RowsAfter ==
    ASSUME NEW d, NEW n, HasParents(d), GoodDb(d, n), NEW work, GoodWork(work, DOMAIN d, n), Apart(work),
           \A k \in DOMAIN work : Mild(work[k]),
           NEW x \in Watched, x \in DOMAIN d, NEW e, e = AllWritten(d, work)
    PROVE  /\ \A i \in DOMAIN d[x] :
                \/ i \in DOMAIN e[x] /\ e[x][i] = d[x][i]
                \/ \E k \in DOMAIN work :
                     /\ work[k].kind = "save" /\ work[k].table = x /\ work[k].id = i
                     /\ i \in DOMAIN e[x] /\ e[x][i] = Merged(x, work[k].row, d[x][i])
                \/ x = "schedules" /\ i \notin DOMAIN e[x]
           /\ \A i \in DOMAIN e[x] :
                \/ i \in DOMAIN d[x]
                \/ \E k \in DOMAIN work :
                     work[k].kind \in {"save", "insert"} /\ work[k].table = x /\ work[k].id = i
<1> DEFINE at(k) == After(d, work, k)
           Saved(k, i) ==
              \E j \in DOMAIN work :
                 /\ j <= k /\ work[j].kind = "save" /\ work[j].table = x /\ work[j].id = i
                 /\ i \in DOMAIN at(k)[x] /\ at(k)[x][i] = Merged(x, work[j].row, d[x][i])
           Gone(k, i) ==
              /\ x = "schedules" /\ i \notin DOMAIN at(k)[x]
              /\ \E j \in DOMAIN work : j <= k /\ work[j].kind = "delete"
           Same0(k, i) == i \in DOMAIN at(k)[x] /\ at(k)[x][i] = d[x][i]
           Own(k, i) ==
              \E j \in DOMAIN work :
                 work[j].kind \in {"save", "insert"} /\ work[j].table = x /\ work[j].id = i
           Traced(k) ==
              /\ \A i \in DOMAIN d[x] : Same0(k, i) \/ Saved(k, i) \/ Gone(k, i)
              /\ \A i \in DOMAIN at(k)[x] : i \in DOMAIN d[x] \/ Own(k, i)
           S == {k \in Nat : k <= Len(work) => Traced(k)}
<1>1. /\ Len(work) \in Nat /\ DOMAIN work = 1 .. Len(work)
      /\ at(0) = d /\ e = at(Len(work))
      /\ \A k \in 0 .. Len(work) : GoodDb(at(k), n) /\ DOMAIN at(k) = DOMAIN d
      /\ \A k \in 0 .. Len(work) - 1 :
           at(k + 1) = at(k) \/ (~ Refused(at(k), work[k + 1]) /\ at(k + 1) = Written(at(k), work[k + 1]))
  BY Stepwise
<1>2. \A j \in DOMAIN work : GoodWrite(work[j], DOMAIN d, n)
  BY DEF GoodWork
<1> HIDE DEF at
<1>3. ASSUME NEW k \in 0 .. Len(work) - 1, Traced(k) PROVE Traced(k + 1)
  <2> DEFINE w == work[k + 1]
             c == at(k)
             f == at(k + 1)
  <2>1. k + 1 \in DOMAIN work /\ k \in 0 .. Len(work) /\ k \in Nat
    BY <1>1
  <2>2. HasParents(c) /\ GoodDb(c, n) /\ DOMAIN c = DOMAIN d /\ GoodWrite(w, DOMAIN c, n) /\ Mild(w) /\ x \in DOMAIN c
    BY <1>1, <1>2, <2>1 DEF HasParents
  <2>3. f = c \/ (~ Refused(c, w) /\ f = Written(c, w))
    BY <1>1
  <2> HIDE DEF w, c, f
  <2>4. /\ \A i \in DOMAIN c[x] :
             \/ i \in DOMAIN f[x] /\ f[x][i] = c[x][i]
             \/ /\ w.kind = "save" /\ w.table = x /\ w.id = i
                /\ i \in DOMAIN f[x] /\ f[x][i] = Merged(x, w.row, c[x][i])
             \/ x = "schedules" /\ w.kind = "delete" /\ i \notin DOMAIN f[x]
        /\ \A i \in DOMAIN f[x] : i \in DOMAIN c[x] \/ (w.kind \in {"save", "insert"} /\ w.table = x /\ w.id = i)
    <3>1. CASE f = c
      BY <3>1
    <3>2. CASE ~ Refused(c, w) /\ f = Written(c, w)
      BY <2>2, <3>2, RowAfter
    <3> QED
      BY <2>3, <3>1, <3>2
  <2>5. ASSUME NEW i \in DOMAIN d[x] PROVE Same0(k + 1, i) \/ Saved(k + 1, i) \/ Gone(k + 1, i)
    <3>1. CASE Same0(k, i)
      <4>1. i \in DOMAIN c[x] /\ c[x][i] = d[x][i]
        BY <3>1 DEF c
      <4>2. CASE i \in DOMAIN f[x] /\ f[x][i] = c[x][i]
        BY <4>1, <4>2 DEF f
      <4>3. CASE /\ w.kind = "save" /\ w.table = x /\ w.id = i
                 /\ i \in DOMAIN f[x] /\ f[x][i] = Merged(x, w.row, c[x][i])
        BY <2>1, <4>1, <4>3 DEF f, w
      <4>4. CASE x = "schedules" /\ w.kind = "delete" /\ i \notin DOMAIN f[x]
        BY <2>1, <4>4 DEF f, w
      <4> QED
        BY <2>4, <4>1, <4>2, <4>3, <4>4
    <3>2. CASE Saved(k, i)
      <4>1. PICK j \in DOMAIN work :
               /\ j <= k /\ work[j].kind = "save" /\ work[j].table = x /\ work[j].id = i
               /\ i \in DOMAIN c[x] /\ c[x][i] = Merged(x, work[j].row, d[x][i])
        BY <3>2 DEF c
      <4>2. j # k + 1 /\ j <= k + 1
        BY <1>1, <2>1, <4>1
      <4>3. w.kind = "save" /\ (w.table = x => w.id # i)
        BY <2>1, <4>1, <4>2 DEF Apart, w
      <4>4. i \in DOMAIN f[x] /\ f[x][i] = c[x][i]
        BY <2>4, <4>1, <4>3
      <4> QED
        BY <4>1, <4>2, <4>4 DEF f
    <3>3. CASE Gone(k, i)
      <4>1. PICK j \in DOMAIN work : j <= k /\ work[j].kind = "delete" /\ x = "schedules" /\ i \notin DOMAIN c[x]
        BY <3>3 DEF c
      <4>2. j # k + 1 /\ j <= k + 1
        BY <1>1, <2>1, <4>1
      <4>3. w.kind # "save"
        BY <2>1, <4>1, <4>2 DEF Apart, w
      <4>4. w.kind = "insert" => w.table # "schedules"
        BY <2>2 DEF Mild
      <4>5. i \notin DOMAIN f[x]
        BY <2>4, <4>1, <4>3, <4>4
      <4> QED
        BY <4>1, <4>2, <4>5 DEF f
    <3> QED
      BY <1>3, <3>1, <3>2, <3>3
  <2>6. ASSUME NEW i \in DOMAIN f[x] PROVE i \in DOMAIN d[x] \/ Own(k + 1, i)
    BY <1>3, <2>1, <2>4, <2>6 DEF c, w
  <2> QED
    BY <2>5, <2>6 DEF f
<1>4. Traced(0)
  BY <1>1
<1> HIDE DEF Traced
<1>5. Nat \subseteq S
  <2>1. 0 \in S
    BY <1>4
  <2>2. ASSUME NEW k \in Nat, k \in S PROVE k + 1 \in S
    <3> SUFFICES ASSUME k + 1 <= Len(work) PROVE Traced(k + 1)
      OBVIOUS
    <3>1. Traced(k) /\ k \in 0 .. Len(work) - 1
      BY <1>1, <2>2
    <3> QED
      BY <1>3, <3>1
  <2> HIDE DEF S
  <2> QED
    BY <2>1, <2>2, NatSetInduction
<1>6. Traced(Len(work))
  BY <1>1, <1>5
<1> QED
  BY <1>1, <1>6 DEF Traced

(* The writes of a lawful request are mild. *)
LEMMA LawfulMild ==
    ASSUME NEW reads, NEW work, LawfulWork(reads, work)
    PROVE  Apart(work) /\ \A k \in DOMAIN work : Mild(work[k])
BY DEF LawfulWork, LawfulWrite, Mild

------------------------------------------------------------------------------
(* What is about to be created is nobody else's.                           *)

(* An id that is new is that of the write. *)
LEMMA IdsAfter ==
    ASSUME NEW d, NEW n, NEW w, GoodWrite(w, DOMAIN d, n), NEW x \in DOMAIN d, x # "fips",
          NEW i \in DOMAIN Written(d, w)[x]
    PROVE  i \in DOMAIN d[x] \/ (w.kind \in {"save", "insert"} /\ w.table = x /\ w.id = i)
<1> DEFINE e == Written(d, w)
           s == Stored(d, w.table, w.id, w.row)
<1>1. /\ w.kind \notin {"save", "insert"} => Shrinks(e, d)
      /\ w.kind \in {"save", "insert"} => w.table \in DOMAIN d /\ Shrinks(e, s)
  BY WrittenFact
<1>2. w.table \in DOMAIN d =>
        /\ DOMAIN s = DOMAIN d /\ \A y \in DOMAIN d : y # w.table => s[y] = d[y]
        /\ DOMAIN s[w.table] = DOMAIN d[w.table] \cup {w.id}
  BY StoredFact
<1>3. i \in DOMAIN e[x]
  OBVIOUS
<1> HIDE DEF e, s
<1>4. CASE w.kind \notin {"save", "insert"}
  BY <1>1, <1>3, <1>4 DEF Shrinks
<1>5. CASE w.kind \in {"save", "insert"}
  <2>1. i \in DOMAIN s[x]
    BY <1>1, <1>2, <1>3, <1>5 DEF Shrinks
  <2> QED
    BY <1>1, <1>2, <1>5, <2>1
<1> QED
  BY <1>4, <1>5

(* What a request writes is not what another has drawn. *)
LEMMA OthersAway ==
    ASSUME GoodState, DrawnIsOwn, NEW reads, NEW work, LawfulWork(reads, work),
           NEW q \in Requests, req[q] # Idle, NEW k \in DOMAIN req[q].work, Creates(req[q].reads, req[q].work[k]),
           NEW j \in DOMAIN work, work[j].kind \in {"save", "insert"}
    PROVE  ~ (work[j].table = req[q].work[k].table /\ work[j].id = req[q].work[k].id)
<1> DEFINE w == req[q].work[k]
           v == work[j]
<1>1. SUFFICES ASSUME v.table = w.table, v.id = w.id PROVE FALSE
  OBVIOUS
<1>2. LawfulWrite(reads, v)
  BY DEF LawfulWork
<1>3. /\ w.table \in DOMAIN db => w.id \notin DOMAIN db[w.table]
      /\ w.table \in DOMAIN Bundle => w.id \notin DOMAIN Bundle[w.table]
  BY DEF DrawnIsOwn, OwnIn
<1>4. w.table \in Guarded
  BY DEF Creates, Guarded
<1>5. v.id \notin FreshIds(v.table, {v.id})
  BY <1>1 DEF FreshIds
<1>6. v.id \notin Ids(v.table)
  <2> HIDE DEF v, w
  <2> QED
    BY <1>1, <1>3, RowsOf
<1>7. CASE v.kind = "save"
  BY <1>1, <1>2, <1>3, <1>4, <1>5, <1>6, <1>7 DEF LawfulWrite, Drawn
<1>8. CASE v.kind = "insert"
  BY <1>1, <1>2, <1>3, <1>8 DEF LawfulWrite
<1> QED
  BY <1>7, <1>8

(* What is about to be created stays nobody else's when a request is     *)
(* handled, whatever it draws.                                           *)
LEMMA OwnHandled == ASSUME GoodState, DrawnIsOwn, Requested PROVE DrawnIsOwn'
<1>1. PICK reads, work : Handles(reads, work) /\ LawfulWork(reads, work)
  BY DEF Requested
<1>2. Bundle' = Bundle
  BY <1>1 DEF Handles, RunsThrough, Suspends, Bundle
<1>3. OwnIn(req, db, Bundle)
  BY DEF DrawnIsOwn
<1>4. CASE RunsThrough(work)
  <2> DEFINE e == db'
  <2>1. e = AllWritten(db, work) /\ req' = Overtaken(e)
    BY <1>4 DEF RunsThrough
  <2>2. DOMAIN e = DOMAIN db
    BY TablesStay
  <2>3. HasParents(db) /\ GoodDb(db, asked + 1) /\ GoodWork(work, DOMAIN db, asked + 1)
    <3>1. asked \in Nat /\ asked + 1 \in Nat /\ asked <= asked + 1
      BY StoreAssumption DEF GoodState
    <3> QED
      BY <1>1, <3>1, ParentsKept, GoodLater, LawfulIsGood DEF GoodState
  <2> HIDE DEF e
  <2>4. ASSUME NEW q \in Requests, req'[q] # Idle, NEW k \in DOMAIN req'[q].work,
               Creates(req'[q].reads, req'[q].work[k]), req'[q].work[k].table \in DOMAIN e
        PROVE  req'[q].work[k].id \notin DOMAIN e[req'[q].work[k].table]
    <3> DEFINE w == req[q].work[k]
               x == w.table
    <3>1. req[q] # Idle /\ k \in DOMAIN req[q].work /\ req'[q].work = req[q].work /\ Creates(req[q].reads, w)
      BY <2>1, <2>4, OthersKeep
    <3>2. x \in Guarded /\ x \in DOMAIN db /\ w.id \notin DOMAIN db[x]
      BY <1>3, <2>2, <2>4, <3>1 DEF OwnIn, Creates, Guarded
    <3>3. \A j \in DOMAIN work : work[j].kind \in {"save", "insert"} => ~ (work[j].table = x /\ work[j].id = w.id)
      BY <1>1, <3>1, OthersAway
    <3> HIDE DEF w
    <3>4. x \in Watched
      BY <3>2 DEF Guarded, Watched
    <3>5. \A i \in DOMAIN e[x] :
             \/ i \in DOMAIN db[x]
             \/ \E j \in DOMAIN work : work[j].kind \in {"save", "insert"} /\ work[j].table = x /\ work[j].id = i
      BY <1>1, <2>1, <2>3, <3>2, <3>4, LawfulMild, RowsAfter
    <3>6. w.id \notin DOMAIN e[x]
      BY <3>2, <3>3, <3>5
    <3> QED
      BY <3>1, <3>6 DEF w
  <2>5. ASSUME NEW q \in Requests, req'[q] # Idle
        PROVE  req[q] # Idle /\ req'[q].work = req[q].work /\ req'[q].reads = req[q].reads
    BY <2>1, <2>5, OthersKeep
  <2>6. OwnIn(req', e, Bundle)
    BY <1>3, <2>4, <2>5 DEF OwnIn
  <2> QED
    BY <1>2, <2>6 DEF DrawnIsOwn, e
<1>5. CASE Suspends(reads, work)
  <2> DEFINE r == [reads |-> reads, work |-> work, overtaken |-> FALSE]
  <2>1. db' = db /\ \E q \in Requests : req[q] = Idle /\ req' = [req EXCEPT ![q] = r]
    BY <1>5 DEF Suspends
  <2>2. PICK q \in Requests : req[q] = Idle /\ req' = [req EXCEPT ![q] = r]
    BY <2>1
  <2>3. r.reads = reads /\ r.work = work
    OBVIOUS
  <2> HIDE DEF r
  <2>4. \A p \in Requests : req'[p] = IF p = q THEN r ELSE req[p]
    BY <2>2, Joined
  <2> DEFINE Away(p, k, rs) ==
               \A o \in Requests : rs[o] # Idle => \A j \in DOMAIN rs[o].work :
                 <<o, j>> # <<p, k>> /\ rs[o].work[j].kind \in {"save", "insert"} =>
                    ~ (rs[o].work[j].table = rs[p].work[k].table /\ rs[o].work[j].id = rs[p].work[k].id)
             Free(w) ==
               /\ w.table \in DOMAIN db => w.id \notin DOMAIN db[w.table]
               /\ w.table \in DOMAIN Bundle => w.id \notin DOMAIN Bundle[w.table]
  <2>5. ASSUME NEW k \in DOMAIN work, Creates(reads, work[k])
        PROVE  Free(work[k]) /\ Away(q, k, req')
    <3> DEFINE w == work[k]
    <3>1. Drawn(w) /\ w.kind = "save" /\ Apart(work)
      BY <1>1, <2>5 DEF LawfulWork, LawfulWrite, Creates
    <3> HIDE DEF w
    <3>2. /\ w.id \notin Ids(w.table)
          /\ w.table \in DOMAIN Bundle => w.id \notin DOMAIN Bundle[w.table]
          /\ \A o \in Requests : req[o] # Idle => \A j \in DOMAIN req[o].work :
               ~ (req[o].work[j].table = w.table /\ req[o].work[j].id = w.id)
      BY <3>1 DEF Drawn, FreshIds, Bundle
    <3>3. w.table \in DOMAIN db => w.id \notin DOMAIN db[w.table]
      BY <3>2 DEF Ids, Rows
    <3>4. \A j \in DOMAIN work : j # k => ~ (work[j].table = w.table /\ work[j].id = w.id)
      BY <2>5, <3>1 DEF Apart, w
    <3>5. Away(q, k, req')
      <4> SUFFICES ASSUME NEW o \in Requests, req'[o] # Idle, NEW j \in DOMAIN req'[o].work, <<o, j>> # <<q, k>>
                   PROVE  ~ (req'[o].work[j].table = w.table /\ req'[o].work[j].id = w.id)
        BY <2>3, <2>4 DEF w
      <4>1. CASE o = q
        BY <2>3, <2>4, <3>4, <4>1
      <4>2. CASE o # q
        BY <2>4, <3>2, <4>2
      <4> QED
        BY <4>1, <4>2
    <3> HIDE DEF Away
    <3> QED
      BY <3>1, <3>2, <3>3, <3>5 DEF w
  <2>6. ASSUME NEW p \in Requests, p # q, req[p] # Idle, NEW k \in DOMAIN req[p].work,
              Creates(req[p].reads, req[p].work[k])
        PROVE  Free(req[p].work[k]) /\ Away(p, k, req')
    <3>1. Free(req[p].work[k])
      BY <1>3, <2>6 DEF OwnIn
    <3>2. Away(p, k, req)
      BY <1>3, <2>6 DEF OwnIn
    <3>3. \A j \in DOMAIN work : work[j].kind \in {"save", "insert"} =>
             ~ (work[j].table = req[p].work[k].table /\ work[j].id = req[p].work[k].id)
      BY <1>1, <2>6, OthersAway
    <3>4. Away(p, k, req')
      BY <2>3, <2>4, <2>6, <3>2, <3>3
    <3> QED
      BY <3>1, <3>4
  <2>7. ASSUME NEW p \in Requests, req'[p] # Idle, NEW k \in DOMAIN req'[p].work,
              Creates(req'[p].reads, req'[p].work[k])
        PROVE  Free(req'[p].work[k]) /\ Away(p, k, req')
    <3>1. CASE p = q
      BY <2>3, <2>4, <2>5, <2>7, <3>1
    <3>2. CASE p # q
      <4>1. req'[p] = req[p]
        BY <2>4, <2>7, <3>2
      <4> HIDE DEF Free, Away
      <4> QED
        BY <2>6, <2>7, <3>2, <4>1
    <3> QED
      BY <3>1, <3>2
  <2>8. OwnIn(req', db, Bundle)
    BY <2>7 DEF OwnIn
  <2> QED
    BY <1>2, <2>1, <2>8 DEF DrawnIsOwn
<1> QED
  BY <1>1, <1>4, <1>5 DEF Handles

(* It stays nobody else's as long as the writes that are left are some   *)
(* of those before, and no new row has its id.                           *)
LEMMA OwnLater ==
    ASSUME NEW rs, NEW d, NEW b, OwnIn(rs, d, b), NEW sr, NEW e, NEW c, NEW o \in [Requests -> {0, 1}],
           \A p \in Requests : sr[p] # Idle => \A j \in DOMAIN sr[p].work :
              sr[p].work[j].kind \in {"save", "insert"} =>
                 /\ rs[p] # Idle /\ sr[p].reads = rs[p].reads
                 /\ j \in Nat /\ j + o[p] \in DOMAIN rs[p].work /\ sr[p].work[j] = rs[p].work[j + o[p]],
           \A q \in Requests : sr[q] # Idle => \A k \in DOMAIN sr[q].work :
              LET w == sr[q].work[k]
                  Has(f) == w.table \in DOMAIN f /\ w.id \in DOMAIN f[w.table]
              IN Creates(sr[q].reads, w) => (Has(e) => Has(d)) /\ (Has(c) => Has(b) \/ Has(d))
    PROVE  OwnIn(sr, e, c)
<1> DEFINE Has(f, w) == w.table \in DOMAIN f /\ w.id \in DOMAIN f[w.table]
<1> SUFFICES ASSUME NEW q \in Requests, sr[q] # Idle, NEW k \in DOMAIN sr[q].work,
                    Creates(sr[q].reads, sr[q].work[k])
             PROVE  LET w == sr[q].work[k] IN
                    /\ ~ Has(e, w) /\ ~ Has(c, w)
                    /\ \A p \in Requests : sr[p] # Idle => \A j \in DOMAIN sr[p].work :
                         <<p, j>> # <<q, k>> /\ sr[p].work[j].kind \in {"save", "insert"} =>
                            ~ (sr[p].work[j].table = w.table /\ sr[p].work[j].id = w.id)
  BY DEF OwnIn
<1> DEFINE w == sr[q].work[k]
           m == k + o[q]
<1>1. /\ rs[q] # Idle /\ k \in Nat /\ m \in DOMAIN rs[q].work /\ w = rs[q].work[m] /\ Creates(rs[q].reads, w)
  BY DEF Creates
<1>2. /\ ~ Has(d, w) /\ ~ Has(b, w)
      /\ \A p \in Requests : rs[p] # Idle => \A j \in DOMAIN rs[p].work :
           <<p, j>> # <<q, m>> /\ rs[p].work[j].kind \in {"save", "insert"} =>
              ~ (rs[p].work[j].table = w.table /\ rs[p].work[j].id = w.id)
  BY <1>1 DEF OwnIn
<1>3. ~ Has(e, w) /\ ~ Has(c, w)
  BY <1>2
<1>4. ASSUME NEW p \in Requests, sr[p] # Idle, NEW j \in DOMAIN sr[p].work, <<p, j>> # <<q, k>>,
             sr[p].work[j].kind \in {"save", "insert"}
      PROVE  ~ (sr[p].work[j].table = w.table /\ sr[p].work[j].id = w.id)
  <2>1. /\ rs[p] # Idle /\ j \in Nat /\ j + o[p] \in DOMAIN rs[p].work /\ sr[p].work[j] = rs[p].work[j + o[p]]
    BY <1>4
  <2>2. <<p, j + o[p]>> # <<q, m>>
    <3>1. CASE p = q
      <4>1. j # k /\ o[q] \in {0, 1}
        BY <1>4, <3>1
      <4> QED
        BY <1>1, <2>1, <3>1, <4>1
    <3>2. CASE p # q
      BY <3>2
    <3> QED
      BY <3>1, <3>2
  <2> HIDE DEF w, m
  <2> QED
    BY <1>2, <1>4, <2>1, <2>2
<1> QED
  BY <1>2, <1>3, <1>4

(* Every step keeps it nobody else's. *)
LEMMA OwnStep == ASSUME GoodState, DrawnIsOwn, ServicesNext PROVE DrawnIsOwn'
<1> DEFINE e == db'
           rs == req'
           c == Bundle'
           none == [q \in Requests |-> 0]
<1> SUFFICES OwnIn(rs, e, c)
  BY DEF DrawnIsOwn
<1>0. OwnIn(req, db, Bundle) /\ none \in [Requests -> {0, 1}] /\ \A q \in Requests : none[q] = 0
  BY DEF DrawnIsOwn
<1>A. \A p \in Requests : req[p] # Idle => DOMAIN req[p].work = 1 .. Len(req[p].work)
  BY WorkLen DEF GoodState, GoodRequests, GoodRequest, GoodWork
<1>B. \A x \in Guarded : x # "fips"
  BY DEF Guarded
<1>C. \A reads, w : Creates(reads, w) => w.table \in Guarded /\ w.kind = "save"
  BY DEF Creates, Guarded
<1> HIDE DEF none
<1>1. CASE Requested
  BY <1>1, OwnHandled DEF DrawnIsOwn
<1>2. ASSUME NEW q \in Requests, Writes(q) PROVE OwnIn(rs, e, c)
  <2> DEFINE w == Head(req[q].work)
             left == Tail(req[q].work)
             o == [p \in Requests |-> IF p = q THEN 1 ELSE 0]
  <2>1. /\ req[q] # Idle /\ files' = files
        /\ \A i \in DOMAIN left : i + 1 \in DOMAIN req[q].work /\ left[i] = req[q].work[i + 1]
        /\ DOMAIN left = 1 .. Len(req[q].work) - 1 /\ Len(req[q].work) \in Nat
        /\ 1 \in DOMAIN req[q].work /\ w = req[q].work[1]
        /\ GoodWrite(w, DOMAIN db, asked) /\ HasParents(db) /\ GoodDb(db, asked)
        /\ e = IF Refused(db, w) THEN db ELSE Written(db, w)
        /\ \A p \in Requests : p # q => rs[p] = Overtaken(e)[p]
        /\ rs[q] # Idle => rs[q].work = left /\ rs[q].reads = req[q].reads
    BY <1>2, WritesStep
  <2>2. c = Bundle
    BY <2>1 DEF Bundle
  <2>3. o \in [Requests -> {0, 1}] /\ \A p \in Requests : o[p] = IF p = q THEN 1 ELSE 0
    OBVIOUS
  <2> HIDE DEF w, left, o, e, rs, c
  <2>4. ASSUME NEW p \in Requests, rs[p] # Idle
        PROVE  /\ req[p] # Idle /\ rs[p].reads = req[p].reads
               /\ \A j \in DOMAIN rs[p].work :
                    j \in Nat /\ j + o[p] \in DOMAIN req[p].work /\ rs[p].work[j] = req[p].work[j + o[p]]
    <3>1. CASE p = q
      BY <2>1, <2>3, <2>4, <3>1
    <3>2. CASE p # q
      <4>1. req[p] # Idle /\ rs[p].work = req[p].work /\ rs[p].reads = req[p].reads
        BY <2>1, <2>4, <3>2, OthersKeep
      <4>2. \A j \in DOMAIN req[p].work : j \in Nat /\ j + o[p] = j
        BY <1>A, <2>3, <3>2, <4>1
      <4> QED
        BY <4>1, <4>2
    <3> QED
      BY <3>1, <3>2
  <2>5. ASSUME NEW p \in Requests, rs[p] # Idle, NEW k \in DOMAIN rs[p].work,
               Creates(rs[p].reads, rs[p].work[k]), rs[p].work[k].table \in DOMAIN e,
               rs[p].work[k].id \in DOMAIN e[rs[p].work[k].table]
        PROVE  rs[p].work[k].table \in DOMAIN db /\ rs[p].work[k].id \in DOMAIN db[rs[p].work[k].table]
    <3> DEFINE v == rs[p].work[k]
               m == k + o[p]
    <3>1. /\ req[p] # Idle /\ m \in DOMAIN req[p].work /\ v = req[p].work[m] /\ Creates(req[p].reads, v) /\ k \in Nat
      BY <2>4, <2>5
    <3>2. <<q, 1>> # <<p, m>>
      <4>1. p = q => m = k + 1 /\ k # 0
        BY <1>A, <2>1, <2>3, <2>5
      <4> QED
        BY <3>1, <4>1
    <3>3. w.kind \in {"save", "insert"} => ~ (w.table = v.table /\ w.id = v.id)
      BY <1>0, <2>1, <3>1, <3>2 DEF OwnIn
    <3>4. v.table \in Guarded
      BY <1>C, <3>1
    <3> HIDE DEF v, m
    <3>5. DOMAIN e = DOMAIN db
      BY <2>1, WrittenGood
    <3>6. CASE Refused(db, w)
      BY <2>1, <2>5, <3>6 DEF v
    <3>7. CASE ~ Refused(db, w)
      <4>1. v.table \in DOMAIN db /\ v.id \in DOMAIN Written(db, w)[v.table] /\ v.table # "fips"
        BY <1>B, <2>1, <2>5, <3>4, <3>5, <3>7 DEF v
      <4>2. v.id \in DOMAIN db[v.table]
        BY <2>1, <3>3, <4>1, IdsAfter
      <4> QED
        BY <4>1, <4>2 DEF v
    <3> QED
      BY <3>6, <3>7
  <2> QED
    BY <1>0, <2>2, <2>3, <2>4, <2>5, OwnLater
<1>3. ASSUME \A p \in Requests : rs[p] # Idle => \A j \in DOMAIN rs[p].work :
                rs[p].work[j].kind \in {"save", "insert"} => req[p] # Idle /\ rs[p] = req[p],
             \A x \in Guarded \cap DOMAIN e : x \in DOMAIN db /\ DOMAIN e[x] \subseteq DOMAIN db[x],
             \A x \in Guarded \cap DOMAIN c : \A i \in DOMAIN c[x] :
                (x \in DOMAIN Bundle /\ i \in DOMAIN Bundle[x]) \/ (x \in DOMAIN db /\ i \in DOMAIN db[x])
      PROVE  OwnIn(rs, e, c)
  <2> HIDE DEF e, rs, c
  <2>1. \A p \in Requests : rs[p] # Idle => \A j \in DOMAIN rs[p].work :
          rs[p].work[j].kind \in {"save", "insert"} =>
             /\ req[p] # Idle /\ rs[p].reads = req[p].reads
             /\ j \in Nat /\ j + none[p] \in DOMAIN req[p].work /\ rs[p].work[j] = req[p].work[j + none[p]]
    BY <1>0, <1>3, <1>A
  <2>2. \A q \in Requests : rs[q] # Idle => \A k \in DOMAIN rs[q].work :
          LET w == rs[q].work[k]
              Has(f) == w.table \in DOMAIN f /\ w.id \in DOMAIN f[w.table]
          IN Creates(rs[q].reads, w) => (Has(e) => Has(db)) /\ (Has(c) => Has(Bundle) \/ Has(db))
    BY <1>3, <1>C
  <2> QED
    BY <1>0, <2>1, <2>2, OwnLater
<1>4. ASSUME NEW q \in Requests, Stops(q) PROVE OwnIn(rs, e, c)
  <2>1. req' = [req EXCEPT ![q] = Idle] /\ db' = db /\ files' = files
    BY <1>4 DEF Stops
  <2>2. \A p \in Requests : req'[p] = IF p = q THEN Idle ELSE req[p]
    BY <2>1, Joined
  <2> QED
    BY <1>3, <2>1, <2>2 DEF Bundle
<1>5. CASE Expire \/ TimePasses
  <2>1. req' = req /\ files' = files
    BY <1>5 DEF Expire, TimePasses
  <2>2. DOMAIN db' = DOMAIN db /\ \A x \in DOMAIN db : DOMAIN db'[x] = DOMAIN db[x]
    <3>1. CASE Expire
      <4>1. PICK tk : db' = [db EXCEPT !.tokens[tk].expired = TRUE]
        BY <3>1 DEF Expire
      <4> DEFINE new == [db["tokens"] EXCEPT ![tk].expired = TRUE]
      <4>2. db' = [db EXCEPT !["tokens"] = new] /\ DOMAIN new = DOMAIN db["tokens"]
        BY <4>1
      <4> HIDE DEF new
      <4> QED
        BY <4>2
    <3>2. CASE TimePasses
      <4>1. db' = [t \in DOMAIN db |->
                    IF t \in {"audit", "operations"} THEN [i \in Ids(t) |-> [old |-> TRUE]] ELSE db[t]]
        BY <3>2 DEF TimePasses
      <4> QED
        BY <4>1 DEF Ids, Rows
    <3> QED
      BY <1>5, <3>1, <3>2
  <2> QED
    BY <1>3, <2>1, <2>2 DEF Bundle
<1>6. CASE ArchiveFails
  <2>1. PICK batch : \E done \in SUBSET batch : files' = [files EXCEPT !.archive = @ \cup done]
    BY <1>6 DEF ArchiveFails
  <2>2. db' = db /\ req' = req /\ Bundle' = Bundle
    BY <1>6, <2>1 DEF ArchiveFails, Bundle, GoodState
  <2> QED
    BY <1>3, <2>2
<1>7. CASE ArchiveBatch
  <2>1. PICK batch \in Batches : \E q \in Requests :
          /\ files' = [files EXCEPT !.archive = Archived(batch)]
          /\ req' = [req EXCEPT ![q] = [reads |-> {}, work |-> <<DeletesMany(batch)>>, overtaken |-> FALSE]]
    BY <1>7 DEF ArchiveBatch
  <2> DEFINE w == DeletesMany(batch)
             work == <<w>>
             r == [reads |-> {}, work |-> work, overtaken |-> FALSE]
  <2>2. PICK q \in Requests : req' = [req EXCEPT ![q] = r]
    BY <2>1
  <2>3. r.work = work /\ w.kind = "deleteAll"
    BY DEF DeletesMany, DropAll, Write
  <2>4. db' = db /\ Bundle' = Bundle
    BY <1>7, <2>1 DEF ArchiveBatch, Bundle, GoodState
  <2> HIDE DEF w
  <2>5. DOMAIN work = {1} /\ work[1] = w
    BY OneFact
  <2> HIDE DEF work, r
  <2>6. \A p \in Requests : req'[p] = IF p = q THEN r ELSE req[p]
    BY <2>2, Joined
  <2> QED
    BY <1>3, <2>3, <2>4, <2>5, <2>6
<1>8. CASE Keeps("allocs") /\ Keeps("accounts") /\ ExportBundle
  <2>1. db' = db /\ req' = req
    BY <1>8 DEF ExportBundle
  <2>2. \A x \in Guarded \cap DOMAIN Bundle' : \A i \in DOMAIN Bundle'[x] :
           (x \in DOMAIN Bundle /\ i \in DOMAIN Bundle[x]) \/ (x \in DOMAIN db /\ i \in DOMAIN db[x])
    <3> DEFINE t == ExportOrder[Cardinality(DOMAIN Bundle) + 1]
    <3>1. files' = [files EXCEPT !.bundle =
                      [x \in DOMAIN Bundle \cup {t} |-> IF x = t THEN ReadOf(t) ELSE Bundle[x]]]
      BY <1>8 DEF ExportBundle
    <3> HIDE DEF t
    <3>2. Bundle' = [x \in DOMAIN Bundle \cup {t} |-> IF x = t THEN ReadOf(t) ELSE Bundle[x]]
      BY <3>1 DEF Bundle, GoodState
    <3>3. ASSUME NEW x \in Guarded \cap DOMAIN Bundle', x = t PROVE Bundle'[x] = db[x] /\ x \in DOMAIN db
      <4>1. x # "allocs" /\ Bundle'[x] = db[x]
        BY <3>2, <3>3 DEF ReadOf, Guarded
      <4>2. x \in DOMAIN Bundle' /\ DOMAIN Bundle' \in Exported
        BY <1>8, ExportStep DEF GoodBundle
      <4>3. x = "accounts"
        BY <3>3, <4>2 DEF Exported, Guarded
      <4> QED
        BY <1>8, <4>1, <4>3 DEF Keeps
    <3> QED
      BY <3>2, <3>3
  <2> QED
    BY <1>3, <2>1, <2>2
<1>9. CASE DatabaseLost
  <2>1. req' = [q \in Requests |-> Idle]
    BY <1>9 DEF DatabaseLost
  <2> QED
    BY <2>1 DEF OwnIn
<1> QED
  BY <1>1, <1>2, <1>4, <1>5, <1>6, <1>7, <1>8, <1>9, StepKinds

(* What a sweep deletes it has put into a file archive, which only grows.  *)
LEMMA SweptStep == ASSUME GoodState, SweptIsArchived, ServicesNext PROVE SweptIsArchived'
<1> DEFINE rs == req'
           a == files'.archive
           b == files.archive
           Sweeps(w) == w.kind = "deleteAll" /\ w.table = "audit"
<1>K. files'.backend = files.backend
  <2>1. ASSUME files' = files \/ \E x : files' = [files EXCEPT !.archive = x] PROVE files'.backend = files.backend
    BY <2>1 DEF GoodState
  <2>2. CASE Requested \/ Expire \/ TimePasses \/ ArchiveBatch \/ ArchiveFails \/ DatabaseLost
    <3>1. files' = files \/ \E x : files' = [files EXCEPT !.archive = x]
      BY <2>2 DEF Requested, Handles, RunsThrough, Suspends, Expire, TimePasses, ArchiveBatch, ArchiveFails,
                  DatabaseLost
    <3> QED
      BY <2>1, <3>1
  <2>3. CASE ExportBundle
    BY <2>3, ExportStep
  <2>4. CASE \E q \in Requests : Writes(q) \/ Stops(q)
    BY <2>1, <2>4 DEF Writes, Stops
  <2> QED
    BY <2>2, <2>3, <2>4, StepKinds
<1> SUFFICES ASSUME files.backend = "file" PROVE SweptIn(rs, a)
  BY <1>K DEF SweptIsArchived
<1>0. /\ SweptIn(req, b)
      /\ files = [bundle |-> files.bundle, archive |-> files.archive, backend |-> files.backend]
  BY DEF SweptIsArchived, GoodState
<1>1. ASSUME b \subseteq a,
             \A p \in Requests : rs[p] # Idle => \A j \in DOMAIN rs[p].work :
                Sweeps(rs[p].work[j]) =>
                   \/ rs[p].work[j].id \subseteq a
                   \/ req[p] # Idle /\ \E i \in DOMAIN req[p].work : req[p].work[i] = rs[p].work[j]
      PROVE  SweptIn(rs, a)
  <2> HIDE DEF rs, a, b
  <2> SUFFICES ASSUME NEW p \in Requests, rs[p] # Idle, NEW j \in DOMAIN rs[p].work, Sweeps(rs[p].work[j])
               PROVE  rs[p].work[j].id \subseteq a
    BY DEF SweptIn
  <2> QED
    BY <1>0, <1>1 DEF SweptIn
<1>2. CASE Requested
  <2>1. PICK reads, work : Handles(reads, work) /\ LawfulWork(reads, work)
    BY <1>2 DEF Requested
  <2>2. a = b
    BY <2>1 DEF Handles, RunsThrough, Suspends
  <2>3. CASE RunsThrough(work)
    <3> DEFINE e == db'
    <3>1. rs = Overtaken(e)
      BY <2>3 DEF RunsThrough
    <3> HIDE DEF e
    <3>2. \A p \in Requests : rs[p] # Idle => req[p] # Idle /\ rs[p].work = req[p].work
      BY <3>1, OthersKeep
    <3> QED
      BY <1>1, <2>2, <3>2
  <2>4. CASE Suspends(reads, work)
    <3> DEFINE r == [reads |-> reads, work |-> work, overtaken |-> FALSE]
    <3>1. PICK q \in Requests : req' = [req EXCEPT ![q] = r]
      BY <2>4 DEF Suspends
    <3>2. r.work = work
      OBVIOUS
    <3> HIDE DEF r
    <3>3. \A p \in Requests : req'[p] = IF p = q THEN r ELSE req[p]
      BY <3>1, Joined
    <3>4. \A j \in DOMAIN work : ~ Sweeps(work[j])
      BY <2>1 DEF LawfulWork, LawfulWrite
    <3> QED
      BY <1>1, <2>2, <3>2, <3>3, <3>4
  <2> QED
    BY <2>1, <2>3, <2>4 DEF Handles
<1>3. ASSUME NEW q \in Requests, Writes(q) PROVE SweptIn(rs, a)
  <2> DEFINE left == Tail(req[q].work)
             e == db'
  <2>1. /\ req[q] # Idle /\ files' = files
        /\ \A i \in DOMAIN left : i + 1 \in DOMAIN req[q].work /\ left[i] = req[q].work[i + 1]
        /\ \A p \in Requests : p # q => rs[p] = Overtaken(e)[p]
        /\ rs[q] # Idle => rs[q].work = left
    BY <1>3, WritesStep
  <2> HIDE DEF left, e, rs
  <2>2. ASSUME NEW p \in Requests, rs[p] # Idle, NEW j \in DOMAIN rs[p].work
        PROVE  req[p] # Idle /\ \E i \in DOMAIN req[p].work : req[p].work[i] = rs[p].work[j]
    <3>1. CASE p = q
      BY <2>1, <2>2, <3>1
    <3>2. CASE p # q
      BY <2>1, <2>2, <3>2, OthersKeep
    <3> QED
      BY <3>1, <3>2
  <2> QED
    BY <1>1, <2>1, <2>2
<1>4. CASE ArchiveBatch
  <2>1. PICK batch \in Batches : \E q \in Requests :
          /\ files' = [files EXCEPT !.archive = Archived(batch)]
          /\ req' = [req EXCEPT ![q] = [reads |-> {}, work |-> <<DeletesMany(batch)>>, overtaken |-> FALSE]]
    BY <1>4 DEF ArchiveBatch
  <2> DEFINE w == DeletesMany(batch)
             work == <<w>>
             r == [reads |-> {}, work |-> work, overtaken |-> FALSE]
  <2>2. PICK q \in Requests : req' = [req EXCEPT ![q] = r]
    BY <2>1
  <2>3. r.work = work /\ w.id = batch
    BY DEF DeletesMany, DropAll, Write
  <2>4. a = b \cup batch
    <3>1. Archived(batch) = b \cup batch
      BY DEF Archived
    <3> QED
      BY <1>0, <2>1, <3>1
  <2> HIDE DEF w
  <2>5. DOMAIN work = {1} /\ work[1] = w
    BY OneFact
  <2> HIDE DEF work, r
  <2>6. \A p \in Requests : req'[p] = IF p = q THEN r ELSE req[p]
    BY <2>2, Joined
  <2> HIDE DEF a
  <2>7. ASSUME NEW p \in Requests, rs[p] # Idle, NEW j \in DOMAIN rs[p].work
        PROVE  \/ rs[p].work[j].id \subseteq a
               \/ req[p] # Idle /\ \E i \in DOMAIN req[p].work : req[p].work[i] = rs[p].work[j]
    <3>1. CASE p = q
      BY <2>3, <2>4, <2>5, <2>6, <2>7, <3>1
    <3>2. CASE p # q
      <4>1. rs[p] = req[p]
        BY <2>6, <3>2
      <4> QED
        BY <2>7, <4>1
    <3> QED
      BY <3>1, <3>2
  <2> HIDE DEF rs, b
  <2> QED
    BY <1>1, <2>4, <2>7
<1>5. ASSUME b \subseteq a, req' = req PROVE SweptIn(rs, a)
  BY <1>1, <1>5
<1>6. CASE Expire \/ TimePasses
  BY <1>5, <1>6 DEF Expire, TimePasses
<1>7. CASE ArchiveFails
  <2>1. PICK batch : \E done \in SUBSET batch : files' = [files EXCEPT !.archive = @ \cup done]
    BY <1>7 DEF ArchiveFails
  <2>2. b \subseteq a
    BY <1>0, <2>1
  <2> QED
    BY <1>5, <1>7, <2>2 DEF ArchiveFails
<1>8. CASE ExportBundle
  <2>1. files' = [bundle |-> Bundle', archive |-> files.archive, backend |-> files.backend]
    BY <1>8, ExportStep
  <2> QED
    BY <1>5, <1>8, <2>1 DEF ExportBundle
<1>9. ASSUME NEW q \in Requests, Stops(q) PROVE SweptIn(rs, a)
  <2>1. req' = [req EXCEPT ![q] = Idle] /\ files' = files
    BY <1>9 DEF Stops
  <2>2. \A p \in Requests : req'[p] = IF p = q THEN Idle ELSE req[p]
    BY <2>1, Joined
  <2> QED
    BY <1>1, <2>1, <2>2
<1>10. CASE DatabaseLost
  <2>1. req' = [q \in Requests |-> Idle]
    BY <1>10 DEF DatabaseLost
  <2> QED
    BY <2>1 DEF SweptIn
<1> QED
  BY <1>2, <1>3, <1>4, <1>6, <1>7, <1>8, <1>9, <1>10, StepKinds

(* The inductive invariant of the steps below: what has been seen, what is *)
(* about to be created and what is about to be swept.                      *)
StepInv == SeenInv /\ DrawnIsOwn /\ SweptIsArchived

(* In every state suspended requests are about to create what is nobody  *)
(* else's, to overwrite what they have seen, and to sweep what is in the *)
(* archive, if there is one.                                             *)
THEOREM StepsArePrepared == Spec => []StepInv
<1>1. ASSUME Init PROVE StepInv
  <2>1. \A q \in Requests : req[q] = Idle
    BY <1>1 DEF Init
  <2> QED
    BY <1>1, <2>1, SeenInit DEF StepInv, DrawnIsOwn, OwnIn, SweptIsArchived, SweptIn
<1>2. ASSUME StepInv, [Next]_<<storeVars, limiterVars>> PROVE StepInv'
  <2>1. SeenInv' /\ GoodState /\ DrawnIsOwn /\ SweptIsArchived
    BY <1>2, SeenStep DEF StepInv, SeenInv
  <2>2. CASE ServicesNext
    BY <2>1, <2>2, OwnStep, SweptStep DEF StepInv
  <2>3. CASE UNCHANGED storeVars
    BY <2>1, <2>3 DEF StepInv, storeVars, DrawnIsOwn, SweptIsArchived, Bundle
  <2> QED
    BY <1>2, <2>2, <2>3 DEF Next
<1> QED
  BY <1>1, <1>2, PTL DEF Spec

------------------------------------------------------------------------------
(* Who is shut out stays out, what is paused does not run, what is known   *)
(* is kept.                                                                *)

\* A step leaves row i of table x as it is.
Spared(x, i) == i \in DOMAIN db'[x] /\ db'[x][i] = db[x][i]

\* A file archive has event i.
InArchive(i) == files.backend = "file" => i \in files.archive

\* A step saves row i of table x, by a request that has not drawn its id.
SavedBy(reads, w, x, i) ==
    /\ w.kind = "save" /\ w.table = x /\ w.id = i /\ ~ Creates(reads, w)
    /\ GoodRow(x, i, w.row, asked + 1)
    /\ i \in DOMAIN db'[x] /\ db'[x][i] = Merged(x, w.row, db[x][i])

\* By one that has seen it as it is.
SavedSeen(x, i) == \E reads, w : SavedBy(reads, w, x, i) /\ Seen(reads, w, db)

\* By one that has, unless it is late.
SavedOver(x, i) == \E reads, w : SavedBy(reads, w, x, i) /\ (late' \/ Seen(reads, w, db))

(* A write of a suspended request. *)
LEMMA RowWrites ==
    ASSUME StepInv, NEW q \in Requests, Writes(q), NEW x \in Watched, x \in DOMAIN db, NEW i \in DOMAIN db[x]
    PROVE  /\ DOMAIN db' = DOMAIN db
           /\ \/ Spared(x, i)
              \/ /\ SavedBy(req[q].reads, Head(req[q].work), x, i)
                 /\ late' \/ Seen(req[q].reads, Head(req[q].work), db)
              \/ x = "schedules" /\ i \notin DOMAIN db'[x]
              \/ x = "audit" /\ (i \in DOMAIN db'[x] \/ InArchive(i))
<1> DEFINE w == Head(req[q].work)
           e == db'
<1>0. /\ GoodState /\ RestoredIn(req, db, Bundle) /\ SeenIsSo /\ OwnIn(req, db, Bundle)
      /\ files.backend = "file" => SweptIn(req, files.archive)
  BY DEF StepInv, SeenInv, RestoredInOrder, DrawnIsOwn, SweptIsArchived
<1>1. /\ req[q] # Idle /\ 1 \in DOMAIN req[q].work /\ w = req[q].work[1]
      /\ GoodWrite(w, DOMAIN db, asked) /\ HasParents(db) /\ GoodDb(db, asked)
      /\ e = IF Refused(db, w) THEN db ELSE Written(db, w)
      /\ late' = (late \/ (req[q].overtaken /\ ~ Refused(db, w)))
  BY <1>0, WritesStep
<1>2. /\ w.kind = "delete" => w.table \notin {"accounts", "tokens", "networks", "audit"}
      /\ w.kind = "insert" => w.table \in {"networks", "nodes", "accounts", "allocs"}
  BY <1>0, <1>1 DEF RestoredIn, InPlace
<1>3. w.kind = "save" /\ ~ Refused(db, w) => late' \/ Seen(req[q].reads, w, db)
  <2> SUFFICES ASSUME w.kind = "save", ~ Refused(db, w), ~ late' PROVE Seen(req[q].reads, w, db)
    OBVIOUS
  <2>1. ~ late /\ ~ req[q].overtaken
    BY <1>1
  <2>2. SeenIn(req, db)
    BY <1>0, <2>1 DEF SeenIsSo
  <2> HIDE DEF w
  <2> QED
    BY <1>1, <2>1, <2>2 DEF SeenIn
<1>4. Creates(req[q].reads, w) /\ w.table \in DOMAIN db => w.id \notin DOMAIN db[w.table]
  BY <1>0, <1>1 DEF OwnIn
<1>5. w.kind = "deleteAll" /\ w.table = "audit" => \A j \in w.id : InArchive(j)
  BY <1>0, <1>1 DEF SweptIn, InArchive
<1> DEFINE reads == req[q].reads
<1> HIDE DEF w, e, reads
<1>6. DOMAIN e = DOMAIN db
  BY <1>1, WrittenGood
<1>7. CASE Refused(db, w)
  BY <1>1, <1>6, <1>7 DEF Spared, e
<1>8. CASE ~ Refused(db, w) /\ Mild(w)
  <2>1. e = Written(db, w)
    BY <1>1, <1>8
  <2>2. \/ i \in DOMAIN e[x] /\ e[x][i] = db[x][i]
        \/ /\ w.kind = "save" /\ w.table = x /\ w.id = i
           /\ i \in DOMAIN e[x] /\ e[x][i] = Merged(x, w.row, db[x][i])
        \/ x = "schedules" /\ w.kind = "delete" /\ i \notin DOMAIN e[x]
    BY <1>1, <1>8, <2>1, RowAfter
  <2>3. ASSUME w.kind = "save", w.table = x, w.id = i, i \in DOMAIN e[x], e[x][i] = Merged(x, w.row, db[x][i])
        PROVE  SavedBy(reads, w, x, i) /\ (late' \/ Seen(reads, w, db))
    <3>1. ~ Creates(reads, w) /\ (late' \/ Seen(reads, w, db))
      BY <1>3, <1>4, <1>8, <2>3 DEF reads
    <3>2. GoodRow(x, i, w.row, asked + 1)
      <4>1. GoodRow(x, i, w.row, asked)
        BY <1>1, <2>3 DEF GoodWrite
      <4>2. asked \in Nat /\ asked + 1 \in Nat /\ asked <= asked + 1
        BY <1>0, StoreAssumption DEF GoodState
      <4> QED
        BY <4>1, <4>2, GoodRowLater
    <3> QED
      BY <2>3, <3>1, <3>2 DEF SavedBy, e
  <2> QED
    BY <1>6, <2>2, <2>3 DEF Spared, e, reads, w
<1>9. CASE ~ Refused(db, w) /\ w.kind = "deleteAll" /\ w.table = "audit"
  <2>1. e = [db EXCEPT !["audit"] = Keep(@, DOMAIN @ \ w.id)]
    BY <1>1, <1>9 DEF Written
  <2>2. CASE x = "audit"
    <3>1. i \notin w.id => i \in DOMAIN e[x]
      BY <2>1, <2>2 DEF Keep
    <3> QED
      BY <1>5, <1>6, <1>9, <2>2, <3>1 DEF e
  <2>3. CASE x # "audit"
    BY <1>6, <2>1, <2>3 DEF Spared, e
  <2> QED
    BY <2>2, <2>3
<1> QED
  BY <1>2, <1>7, <1>8, <1>9 DEF Mild

(* All the writes of a request that runs through. *)
LEMMA RowHandled ==
    ASSUME StepInv, Requested, NEW x \in Watched, x \in DOMAIN db, NEW i \in DOMAIN db[x]
    PROVE  /\ DOMAIN db' = DOMAIN db
           /\ Spared(x, i) \/ SavedSeen(x, i) \/ (x = "schedules" /\ i \notin DOMAIN db'[x])
<1>0. GoodState
  BY DEF StepInv, SeenInv
<1>1. PICK reads, work : Handles(reads, work) /\ LawfulWork(reads, work)
  BY DEF Requested
<1>2. DOMAIN db' = DOMAIN db
  BY <1>0, TablesStay
<1>3. CASE RunsThrough(work)
  <2> DEFINE e == db'
             n == asked + 1
  <2>1. e = AllWritten(db, work)
    BY <1>3 DEF RunsThrough
  <2>2. HasParents(db) /\ GoodDb(db, n) /\ GoodWork(work, DOMAIN db, n)
    <3>1. asked \in Nat /\ asked + 1 \in Nat /\ asked <= asked + 1
      BY <1>0, StoreAssumption DEF GoodState
    <3> QED
      BY <1>0, <1>1, <3>1, ParentsKept, GoodLater, LawfulIsGood DEF GoodState
  <2> HIDE DEF e
  <2>3. \/ i \in DOMAIN e[x] /\ e[x][i] = db[x][i]
        \/ \E k \in DOMAIN work :
             /\ work[k].kind = "save" /\ work[k].table = x /\ work[k].id = i
             /\ i \in DOMAIN e[x] /\ e[x][i] = Merged(x, work[k].row, db[x][i])
        \/ x = "schedules" /\ i \notin DOMAIN e[x]
    <3> HIDE DEF n
    <3> QED
      BY <1>1, <2>1, <2>2, LawfulMild, RowsAfter
  <2>4. ASSUME NEW k \in DOMAIN work, work[k].kind = "save", work[k].table = x, work[k].id = i,
               i \in DOMAIN e[x], e[x][i] = Merged(x, work[k].row, db[x][i])
        PROVE  SavedSeen(x, i)
    <3> DEFINE w == work[k]
    <3>1. LawfulWrite(reads, w) /\ GoodWrite(w, DOMAIN db, asked + 1)
      BY <1>1 DEF LawfulWork, LawfulWrite
    <3> HIDE DEF w
    <3>2. Seen(reads, w, db)
      BY <2>4, <3>1 DEF LawfulWrite, w
    <3>3. ~ Creates(reads, w)
      <4>1. Drawn(w) => w.id \notin Ids(w.table)
        BY DEF Drawn, FreshIds
      <4> QED
        BY <2>4, <3>1, <4>1 DEF LawfulWrite, w, Ids, Rows
    <3>4. GoodRow(x, i, w.row, asked + 1)
      BY <2>4, <3>1 DEF GoodWrite, w
    <3>5. SavedBy(reads, w, x, i)
      BY <2>4, <3>3, <3>4 DEF SavedBy, w, e
    <3> QED
      BY <3>2, <3>5 DEF SavedSeen
  <2> QED
    BY <1>2, <2>3, <2>4 DEF Spared, e
<1>4. CASE Suspends(reads, work)
  BY <1>2, <1>4 DEF Suspends, Spared
<1> QED
  BY <1>1, <1>3, <1>4 DEF Handles

\* What steps that are no request's and save nothing may do to it.
RowAlone(x, i) ==
    /\ DOMAIN db' = DOMAIN db
    /\ \/ Spared(x, i)
       \/ x = "audit" /\ i \in DOMAIN db'[x]
       \/ x = "tokens" /\ i \in DOMAIN db'[x] /\ db'[x][i].revoked = db[x][i].revoked
       \/ x # "audit" /\ db' = [t \in DOMAIN db |-> <<>>]

(* Whatever the step is, unless a request is handled or writes. *)
LEMMA RowElse ==
    ASSUME StepInv, NEW x \in Watched, x \in DOMAIN db, NEW i \in DOMAIN db[x],
           \/ Expire \/ TimePasses \/ ArchiveBatch \/ ArchiveFails
           \/ Keeps("allocs") /\ Keeps("accounts") /\ (ExportBundle \/ DatabaseLost)
           \/ \E q \in Requests : Stops(q)
    PROVE  RowAlone(x, i)
<1>0. GoodState
  BY DEF StepInv, SeenInv
<1>3. ASSUME db' = db PROVE RowAlone(x, i)
  BY <1>3 DEF Spared, RowAlone
<1>4. CASE ArchiveBatch \/ ArchiveFails \/ ExportBundle \/ \E q \in Requests : Stops(q)
  BY <1>3, <1>4 DEF ArchiveBatch, ArchiveFails, ExportBundle, Stops
<1>5. CASE Expire
  <2>1. PICK tk : db' = [db EXCEPT !.tokens[tk].expired = TRUE]
    BY <1>5 DEF Expire
  <2> DEFINE new == [db["tokens"] EXCEPT ![tk].expired = TRUE]
  <2>2. /\ db' = [db EXCEPT !["tokens"] = new] /\ DOMAIN new = DOMAIN db["tokens"]
        /\ \A j \in DOMAIN db["tokens"] : j # tk => new[j] = db["tokens"][j]
        /\ tk \in DOMAIN db["tokens"] => new[tk] = [db["tokens"][tk] EXCEPT !.expired = TRUE]
    BY <2>1
  <2> HIDE DEF new
  <2>3. CASE x = "tokens"
    <3>1. db[x][i] \in TokenRows /\ db'[x] = new
      BY <1>0, <2>2, <2>3 DEF GoodState, GoodDb, GoodRows, GoodRow, TokenOk
    <3>2. new[i].revoked = db[x][i].revoked
      BY <2>2, <2>3, <3>1 DEF TokenRows
    <3> QED
      BY <2>2, <2>3, <3>1, <3>2 DEF RowAlone
  <2>4. CASE x # "tokens"
    BY <2>2, <2>4 DEF RowAlone, Spared
  <2> QED
    BY <2>3, <2>4
<1>6. CASE TimePasses
  <2>1. db' = [t \in DOMAIN db |->
                IF t \in {"audit", "operations"} THEN [j \in Ids(t) |-> [old |-> TRUE]] ELSE db[t]]
    BY <1>6 DEF TimePasses
  <2>2. CASE x = "audit"
    BY <2>1, <2>2 DEF RowAlone, Ids, Rows
  <2>3. CASE x # "audit"
    BY <2>1, <2>3 DEF RowAlone, Spared, Watched
  <2> QED
    BY <2>2, <2>3
<1>7. CASE Keeps("allocs") /\ Keeps("accounts") /\ DatabaseLost
  <2>1. db' = [t \in DOMAIN db |-> <<>>]
    BY <1>7 DEF DatabaseLost
  <2>2. "audit" \notin DOMAIN db
    BY <1>0, <1>7 DEF GoodState, DeploymentOk, Keeps
  <2> QED
    BY <2>1, <2>2 DEF RowAlone
<1> QED
  BY <1>4, <1>5, <1>6, <1>7

\* What any step may do to it.
RowGoes(x, i) ==
    /\ DOMAIN db' = DOMAIN db
    /\ \/ RowAlone(x, i) \/ SavedOver(x, i)
       \/ x = "schedules" /\ i \notin DOMAIN db'[x]
       \/ x = "audit" /\ (i \in DOMAIN db'[x] \/ InArchive(i))

(* Whatever the step is, a row is left, saved over by a request that has *)
(* seen it, or goes one of these ways.                                   *)
LEMMA RowStep ==
    ASSUME StepInv, ServicesNext, NEW x \in Watched, x \in DOMAIN db, NEW i \in DOMAIN db[x]
    PROVE  RowGoes(x, i)
<1>0. GoodState
  BY DEF StepInv, SeenInv
<1>1. CASE Requested
  <2>1. /\ DOMAIN db' = DOMAIN db
        /\ Spared(x, i) \/ SavedSeen(x, i) \/ (x = "schedules" /\ i \notin DOMAIN db'[x])
    BY <1>1, RowHandled
  <2>2. SavedSeen(x, i) => SavedOver(x, i)
    BY DEF SavedSeen, SavedOver
  <2> QED
    BY <2>1, <2>2 DEF RowGoes, RowAlone
<1>2. ASSUME NEW q \in Requests, Writes(q) PROVE RowGoes(x, i)
  BY <1>2, RowWrites DEF RowGoes, RowAlone, SavedOver
<1> QED
  BY <1>0, <1>1, <1>2, RowElse, StepKinds DEF RowGoes, RowAlone

(* Nobody is let in with a revoked token: who still saves it as one that   *)
(* is in force did so before.                                              *)
LEMMA NobodyLetIn ==
    ASSUME StepInv, ServicesNext, NEW tk \in Ids("tokens"), Token(tk).revoked,
           NEW q \in Requests, Restores(q, tk)'
    PROVE  Restores(q, tk)
<1>0. GoodState
  BY DEF StepInv, SeenInv
<1> DEFINE Revives(w) == w.kind = "save" /\ w.table = "tokens" /\ w.id = tk /\ ~ w.row.revoked
<1>1. PICK k \in DOMAIN req'[q].work : req'[q] # Idle /\ Revives(req'[q].work[k])
  BY DEF Restores
<1>2. ASSUME req[q] # Idle, NEW j \in DOMAIN req[q].work, req[q].work[j] = req'[q].work[k]
      PROVE  Restores(q, tk)
  BY <1>1, <1>2 DEF Restores
<1>3. CASE req' = req
  BY <1>1, <1>2, <1>3
<1>4. CASE Requested
  <2>1. PICK reads, work : Handles(reads, work) /\ LawfulWork(reads, work)
    BY <1>4 DEF Requested
  <2>2. CASE RunsThrough(work)
    <3> DEFINE e == db'
    <3>1. req' = Overtaken(e)
      BY <2>2 DEF RunsThrough
    <3> HIDE DEF e
    <3>2. req[q] # Idle /\ req'[q].work = req[q].work
      BY <1>0, <1>1, <3>1, OthersKeep
    <3> QED
      BY <1>1, <1>2, <3>2
  <2>3. CASE Suspends(reads, work)
    <3> DEFINE r == [reads |-> reads, work |-> work, overtaken |-> FALSE]
    <3>1. PICK o \in Requests : req' = [req EXCEPT ![o] = r]
      BY <2>3 DEF Suspends
    <3>2. r.work = work
      OBVIOUS
    <3> HIDE DEF r
    <3>3. req'[q] = IF q = o THEN r ELSE req[q]
      BY <1>0, <3>1, Joined
    <3>4. q # o
      <4> SUFFICES ASSUME q = o PROVE FALSE
        OBVIOUS
      <4> DEFINE w == work[k]
      <4>1. k \in DOMAIN work /\ Revives(w)
        BY <1>1, <3>2, <3>3
      <4>2. LawfulWrite(reads, w)
        BY <2>1, <4>1 DEF LawfulWork
      <4> HIDE DEF w
      <4>3. "tokens" \in DOMAIN db /\ tk \in DOMAIN db.tokens /\ db.tokens[tk].revoked
        BY RowsOf DEF Token
      <4>4. CASE "tokens" \in reads
        BY <4>1, <4>2, <4>3, <4>4 DEF LawfulWrite, Seen, SeenToken
      <4>5. CASE "tokens" \notin reads
        BY <4>1, <4>2, <4>5 DEF LawfulWrite, Creates, Drawn, FreshIds
      <4> QED
        BY <4>4, <4>5
    <3> QED
      BY <1>1, <1>2, <3>3, <3>4
  <2> QED
    BY <2>1, <2>2, <2>3 DEF Handles
<1>5. ASSUME NEW o \in Requests, Writes(o) PROVE Restores(q, tk)
  <2> DEFINE left == Tail(req[o].work)
             e == db'
  <2>1. /\ req[o] # Idle
        /\ \A i \in DOMAIN left : i + 1 \in DOMAIN req[o].work /\ left[i] = req[o].work[i + 1]
        /\ \A p \in Requests : p # o => req'[p] = Overtaken(e)[p]
        /\ req'[o] # Idle => req'[o].work = left
    BY <1>0, <1>5, WritesStep
  <2> HIDE DEF left, e
  <2>2. CASE q = o
    BY <1>1, <1>2, <2>1, <2>2
  <2>3. CASE q # o
    <3>1. req[q] # Idle /\ req'[q].work = req[q].work
      BY <1>0, <1>1, <2>1, <2>3, OthersKeep
    <3> QED
      BY <1>1, <1>2, <3>1
  <2> QED
    BY <2>2, <2>3
<1>6. CASE ArchiveBatch
  <2>1. PICK batch \in Batches : \E o \in Requests :
          req' = [req EXCEPT ![o] = [reads |-> {}, work |-> <<DeletesMany(batch)>>, overtaken |-> FALSE]]
    BY <1>6 DEF ArchiveBatch
  <2> DEFINE w == DeletesMany(batch)
             work == <<w>>
             r == [reads |-> {}, work |-> work, overtaken |-> FALSE]
  <2>2. PICK o \in Requests : req' = [req EXCEPT ![o] = r]
    BY <2>1
  <2>3. r.work = work /\ w.kind = "deleteAll"
    BY DEF DeletesMany, DropAll, Write
  <2> HIDE DEF w
  <2>4. DOMAIN work = {1} /\ work[1] = w
    BY OneFact
  <2> HIDE DEF work, r
  <2>5. req'[q] = IF q = o THEN r ELSE req[q]
    BY <1>0, <2>2, Joined
  <2> QED
    BY <1>1, <1>2, <2>3, <2>4, <2>5
<1>7. ASSUME NEW o \in Requests, Stops(o) PROVE Restores(q, tk)
  <2>1. req' = [req EXCEPT ![o] = Idle]
    BY <1>7 DEF Stops
  <2>2. req'[q] = IF q = o THEN Idle ELSE req[q]
    BY <1>0, <2>1, Joined
  <2> QED
    BY <1>1, <1>2, <2>2
<1>8. CASE DatabaseLost
  BY <1>1, <1>8 DEF DatabaseLost
<1>9. CASE Expire \/ TimePasses \/ ArchiveFails \/ ExportBundle
  BY <1>3, <1>9 DEF Expire, TimePasses, ArchiveFails, ExportBundle
<1> QED
  BY <1>0, <1>4, <1>5, <1>6, <1>7, <1>8, <1>9, StepKinds

(* A revoked token stays revoked but for a lost database and the save of a *)
(* request that was let in with it before.                                 *)
LEMMA RevokedStays ==
    ASSUME StepInv, ServicesNext, NEW tk \in Ids("tokens"), Token(tk).revoked
    PROVE  \/ tk \in Ids("tokens")' /\ Token(tk)'.revoked
           \/ \E q \in Requests : Writes(q) /\ Restores(q, tk)
           \/ \A t \in DOMAIN db : Ids(t)' = {}
<1>0. GoodState
  BY DEF StepInv, SeenInv
<1>1. "tokens" \in DOMAIN db /\ tk \in DOMAIN db["tokens"] /\ db["tokens"][tk].revoked /\ "tokens" \in Watched
  BY RowsOf DEF Token, Watched
<1>2. ASSUME DOMAIN db' = DOMAIN db, tk \in DOMAIN db'["tokens"], db'["tokens"][tk].revoked
      PROVE  tk \in Ids("tokens")' /\ Token(tk)'.revoked
  BY <1>1, <1>2 DEF Token, Ids, Rows
<1>3. ASSUME NEW reads, NEW w, SavedBy(reads, w, "tokens", tk)
      PROVE  /\ tk \in DOMAIN db'["tokens"] /\ (w.row.revoked => db'["tokens"][tk].revoked)
             /\ "tokens" \notin reads => w.row.revoked
  <2>1. w.row \in TokenRows
    BY <1>3 DEF SavedBy, GoodRow, TokenOk
  <2>2. Merged("tokens", w.row, db["tokens"][tk]).revoked = w.row.revoked
    BY <2>1 DEF Merged, TokenRows, Columns, ServiceTokenColumns
  <2>3. tk \in DOMAIN db'["tokens"] /\ db'["tokens"][tk].revoked = w.row.revoked
    BY <1>3, <2>2 DEF SavedBy
  <2>4. "tokens" \notin reads => w.row.revoked
    BY <1>3 DEF SavedBy, Creates
  <2> QED
    BY <2>3, <2>4
<1>4. CASE Requested
  <2>1. DOMAIN db' = DOMAIN db /\ (Spared("tokens", tk) \/ SavedSeen("tokens", tk))
    BY <1>1, <1>4, RowHandled
  <2>2. CASE Spared("tokens", tk)
    BY <1>1, <1>2, <2>1, <2>2 DEF Spared
  <2>3. CASE SavedSeen("tokens", tk)
    <3>1. PICK reads, w : SavedBy(reads, w, "tokens", tk) /\ Seen(reads, w, db)
      BY <2>3 DEF SavedSeen
    <3>2. "tokens" \in reads => w.row.revoked
      BY <1>1, <3>1 DEF SavedBy, Seen, SeenToken
    <3> QED
      BY <1>2, <1>3, <2>1, <3>1, <3>2
  <2> QED
    BY <2>1, <2>2, <2>3
<1>5. ASSUME NEW q \in Requests, Writes(q)
      PROVE  (tk \in Ids("tokens")' /\ Token(tk)'.revoked) \/ Restores(q, tk)
  <2> DEFINE w == Head(req[q].work)
  <2>1. DOMAIN db' = DOMAIN db /\ (Spared("tokens", tk) \/ SavedBy(req[q].reads, w, "tokens", tk))
    BY <1>1, <1>5, RowWrites
  <2>2. req[q] # Idle /\ 1 \in DOMAIN req[q].work /\ w = req[q].work[1]
    BY <1>0, <1>5, WritesStep
  <2> HIDE DEF w
  <2>3. CASE Spared("tokens", tk)
    BY <1>1, <1>2, <2>1, <2>3 DEF Spared
  <2>4. CASE SavedBy(req[q].reads, w, "tokens", tk) /\ w.row.revoked
    BY <1>2, <1>3, <2>1, <2>4
  <2>5. CASE SavedBy(req[q].reads, w, "tokens", tk) /\ ~ w.row.revoked
    BY <2>2, <2>5 DEF SavedBy, Restores
  <2> QED
    BY <2>1, <2>3, <2>4, <2>5
<1>6. CASE RowAlone("tokens", tk)
  <2>1. CASE db' = [t \in DOMAIN db |-> <<>>]
    BY <2>1 DEF Ids, Rows
  <2>2. CASE tk \in DOMAIN db'["tokens"] /\ db'["tokens"][tk].revoked
    BY <1>2, <1>6, <2>2 DEF RowAlone
  <2> QED
    BY <1>1, <1>6, <2>1, <2>2 DEF RowAlone, Spared
<1> QED
  BY <1>0, <1>1, <1>4, <1>5, <1>6, RowElse, StepKinds

(* A disabled account stays disabled but for a lost database.              *)
LEMMA DisabledStays ==
    ASSUME StepInv, ServicesNext, NEW a \in Ids("accounts"), Account(a).disabled
    PROVE  \/ a \in Ids("accounts")' /\ Account(a)'.disabled
           \/ \A t : Ids(t)' = {}
<1>1. "accounts" \in DOMAIN db /\ a \in DOMAIN db["accounts"] /\ db["accounts"][a].disabled /\ "accounts" \in Watched
  BY RowsOf DEF Account, Watched
<1>2. RowGoes("accounts", a)
  BY <1>1, RowStep
<1>3. ASSUME a \in DOMAIN db'["accounts"], db'["accounts"][a].disabled
      PROVE  a \in Ids("accounts")' /\ Account(a)'.disabled
  BY <1>1, <1>2, <1>3 DEF Account, Ids, Rows, RowGoes, RowAlone
<1>4. CASE Spared("accounts", a)
  BY <1>1, <1>3, <1>4 DEF Spared
<1>5. CASE SavedOver("accounts", a)
  <2>1. PICK reads, w : SavedBy(reads, w, "accounts", a)
    BY <1>5 DEF SavedOver
  <2>2. w.row \in AccountRows /\ w.row.disabled
    BY <2>1 DEF SavedBy, GoodRow, AccountOk, Creates
  <2>3. Merged("accounts", w.row, db["accounts"][a]).disabled = w.row.disabled
    BY <2>2 DEF Merged, AccountRows, Columns, ServiceAccountColumns
  <2>4. a \in DOMAIN db'["accounts"] /\ db'["accounts"][a].disabled = w.row.disabled
    BY <2>1, <2>3 DEF SavedBy
  <2> QED
    BY <1>3, <2>2, <2>4
<1>6. CASE db' = [t \in DOMAIN db |-> <<>>]
  BY <1>6 DEF Ids, Rows
<1> QED
  BY <1>2, <1>4, <1>5, <1>6 DEF RowGoes, RowAlone

(* A schedule that is paused gets no run on record but from a late tick.   *)
LEMMA PausedStays ==
    ASSUME StepInv, ServicesNext, NEW s \in Ids("schedules"), Schedule(s).status = "paused",
           s \in Ids("schedules")', Schedule(s)'.ran > Schedule(s).ran
    PROVE  late'
<1> DEFINE old == db["schedules"][s]
           new == db'["schedules"][s]
<1>0. GoodState
  BY DEF StepInv, SeenInv
<1>1. "schedules" \in DOMAIN db /\ s \in DOMAIN db["schedules"] /\ old.status = "paused" /\ "schedules" \in Watched
  BY RowsOf DEF Schedule, Watched
<1>2. RowGoes("schedules", s)
  BY <1>1, RowStep
<1>3. s \in DOMAIN db'["schedules"] /\ new.ran > old.ran
  BY <1>1, <1>2 DEF Schedule, Ids, Rows, RowGoes, RowAlone
<1>4. old.ran \in Nat
  <2>1. ScheduleOk(s, old, asked) /\ asked \in Nat
    BY <1>0, <1>1, StoreAssumption DEF GoodState, GoodDb, GoodRows, GoodRow
  <2> HIDE DEF old
  <2> QED
    BY <2>1 DEF ScheduleOk
<1> HIDE DEF old, new
<1>5. CASE Spared("schedules", s)
  BY <1>3, <1>4, <1>5 DEF Spared, old, new
<1>6. CASE SavedOver("schedules", s)
  <2>1. PICK reads, w : SavedBy(reads, w, "schedules", s) /\ (late' \/ Seen(reads, w, db))
    BY <1>6 DEF SavedOver
  <2>2. ScheduleOk(s, w.row, asked + 1)
    BY <2>1 DEF SavedBy, GoodRow
  <2>3. Merged("schedules", w.row, db["schedules"][s]).ran = w.row.ran
    BY <2>2 DEF Merged, ScheduleOk, Columns, ApplyScheduleColumns
  <2>4. w.row.ran > old.ran
    BY <1>3, <2>1, <2>3 DEF SavedBy, new
  <2>5. "schedules" \in reads
    BY <2>1 DEF SavedBy, Creates
  <2> QED
    BY <1>1, <2>1, <2>4, <2>5 DEF SavedBy, Seen, SeenSchedule, old
<1>7. db' # [t \in DOMAIN db |-> <<>>]
  BY <1>1, <1>3
<1> QED
  BY <1>2, <1>3, <1>5, <1>6, <1>7 DEF RowGoes, RowAlone

(* What leaves the audit trail is in the file archive, if there is one.    *)
LEMMA TrailStays ==
    ASSUME StepInv, ServicesNext, NEW e \in Ids("audit") \ Ids("audit")'
    PROVE  InArchive(e)
<1>1. "audit" \in DOMAIN db /\ e \in DOMAIN db["audit"] /\ "audit" \in Watched
  BY RowsOf DEF Watched
<1>2. RowGoes("audit", e)
  BY <1>1, RowStep
<1>3. e \notin DOMAIN db'["audit"]
  BY <1>1, <1>2 DEF Ids, Rows, RowGoes, RowAlone
<1> QED
  BY <1>2, <1>3 DEF RowGoes, RowAlone, Spared, SavedOver, SavedBy

(* Of the services' steps only those of the store count here.              *)
LEMMA StoreSteps ==
    ASSUME [Next]_<<storeVars, limiterVars>>
    PROVE  ServicesNext \/ UNCHANGED storeVars
BY DEF Next

(* Only the save of a request that was let in before puts a revoked      *)
(* token in force again, or a lost database, and no request is added to  *)
(* those; a disabled account never authenticates again.                  *)
THEOREM ShutOutStaysOut == Spec => RevocationHolds /\ DisabledIsFinal
<1>1. ASSUME StepInv, [Next]_<<storeVars, limiterVars>>
      PROVE  [\A tk \in Ids("tokens") :
                Token(tk).revoked /\ ~ (\A t \in DOMAIN db : Ids(t)' = {}) =>
                   /\ \A q \in Requests : Restores(q, tk)' => Restores(q, tk)
                   /\ \/ tk \in Ids("tokens")' /\ Token(tk)'.revoked
                      \/ \E q \in Requests : Writes(q) /\ Restores(q, tk)]_storeVars
  BY <1>1, StoreSteps, RevokedStays, NobodyLetIn
<1>2. ASSUME StepInv, [Next]_<<storeVars, limiterVars>>
      PROVE  [\A a \in Ids("accounts") :
                Account(a).disabled =>
                   \A tk \in Ids("tokens")' : Token(tk)'.account = a => ~ Valid(tk)']_storeVars
  <2> SUFFICES ASSUME ServicesNext, NEW a \in Ids("accounts"), Account(a).disabled,
                      NEW tk \in Ids("tokens")', Token(tk)'.account = a
               PROVE  ~ Valid(tk)'
    BY <1>2, StoreSteps
  <2>1. Account(a)'.disabled
    BY <1>2, DisabledStays
  <2>2. Account(Token(tk).account)' = Account(a)'
    BY DEF Account
  <2> QED
    BY <2>1, <2>2 DEF Valid
<1>3. RevocationHolds <=> [][\A tk \in Ids("tokens") :
                               Token(tk).revoked /\ ~ (\A t \in DOMAIN db : Ids(t)' = {}) =>
                                  /\ \A q \in Requests : Restores(q, tk)' => Restores(q, tk)
                                  /\ \/ tk \in Ids("tokens")' /\ Token(tk)'.revoked
                                     \/ \E q \in Requests : Writes(q) /\ Restores(q, tk)]_storeVars
  BY DEF RevocationHolds
<1>4. DisabledIsFinal <=> [][\A a \in Ids("accounts") :
                               Account(a).disabled =>
                                  \A tk \in Ids("tokens")' : Token(tk)'.account = a => ~ Valid(tk)']_storeVars
  BY DEF DisabledIsFinal
<1> QED
  BY <1>1, <1>2, <1>3, <1>4, StepsArePrepared, PTL DEF Spec

------------------------------------------------------------------------------
(* Endpoints. *)

\* Endpoint e is an operator's: a viewer may call it if it changes nothing.
Operates(e) ==
    /\ e.permission \in OperatorPermissions
    /\ e.changes <=> e.permission \notin ReadPermissions

\* It is an administrator's.
Restricted(e) == e.permission \in AllPermissions \ OperatorPermissions

(* To look at a resource of N1 to N5 and to change it is an operator's. *)
LEMMA ResourceOperates == ASSUME NEW shows, NEW changes PROVE \A e \in Resource(shows, changes) : Operates(e)
BY DEF Resource, Shows, Changes, Operates, Endpoints, ReadPermissions, OperatorPermissions

(* So are all of them. *)
LEMMA ResourcesOperate == \A e \in ResourceEndpoints : Operates(e)
<1>1. \A e \in LogicalPortEndpoints : Operates(e)
  BY ResourceOperates DEF LogicalPortEndpoints
<1>2. \A e \in SecurityGroupEndpoints : Operates(e)
  BY ResourceOperates DEF SecurityGroupEndpoints
<1>3. \A e \in AddressPoolEndpoints : Operates(e)
  BY ResourceOperates DEF AddressPoolEndpoints
<1>4. \A e \in ServiceObjectEndpoints : Operates(e)
  BY ResourceOperates DEF ServiceObjectEndpoints
<1>5. \A e \in QosPolicyEndpoints : Operates(e)
  BY ResourceOperates DEF QosPolicyEndpoints
<1>6. \A e \in PolicyEndpoints : Operates(e)
  BY ResourceOperates DEF PolicyEndpoints
<1>7. \A e \in PolicyRuleEndpoints : Operates(e)
  BY ResourceOperates DEF PolicyRuleEndpoints
<1>8. \A e \in TrunkPortEndpoints : Operates(e)
  BY ResourceOperates DEF TrunkPortEndpoints
<1>9. \A e \in RouterEndpoints : Operates(e)
  BY ResourceOperates DEF RouterEndpoints
<1>10. \A e \in RouterPartEndpoints : Operates(e)
  BY ResourceOperates DEF RouterPartEndpoints
<1>11. \A e \in FloatingIpEndpoints : Operates(e)
  BY ResourceOperates DEF FloatingIpEndpoints
<1>12. \A e \in BgpPeerEndpoints : Operates(e)
  BY ResourceOperates DEF BgpPeerEndpoints
<1>13. \A e \in QuotaEndpoints : Operates(e)
  BY ResourceOperates DEF QuotaEndpoints
<1>14. \A e \in PreflightEndpoints : Operates(e)
  BY ResourceOperates DEF PreflightEndpoints
<1>15. \A e \in ResourceSnapshotEndpoints : Operates(e)
  BY ResourceOperates DEF ResourceSnapshotEndpoints
<1>16. \A e \in BondEndpoints : Operates(e)
  BY ResourceOperates DEF BondEndpoints
<1>17. \A e \in RetentionEndpoints : Operates(e)
  BY ResourceOperates DEF RetentionEndpoints
<1>18. \A e \in BalancerEndpoints : Operates(e)
  BY ResourceOperates DEF BalancerEndpoints
<1>19. \A e \in ListenerEndpoints : Operates(e)
  BY ResourceOperates DEF ListenerEndpoints
<1>20. \A e \in PoolEndpoints : Operates(e)
  BY ResourceOperates DEF PoolEndpoints
<1>21. \A e \in BackendEndpoints : Operates(e)
  BY ResourceOperates DEF BackendEndpoints
<1>22. \A e \in MonitorEndpoints : Operates(e)
  BY ResourceOperates DEF MonitorEndpoints
<1>23. \A e \in ScheduleEndpoints : Operates(e)
  BY ResourceOperates DEF ScheduleEndpoints
<1>24. \A e \in MirrorEndpoints : Operates(e)
  BY ResourceOperates DEF MirrorEndpoints
<1>25. \A e \in TunnelEndpoints : Operates(e)
  BY ResourceOperates DEF TunnelEndpoints
<1>26. \A e \in VpnPeerEndpoints : Operates(e)
  BY ResourceOperates DEF VpnPeerEndpoints
<1> QED
  BY <1>1, <1>2, <1>3, <1>4, <1>5, <1>6, <1>7, <1>8, <1>9, <1>10, <1>11, <1>12, <1>13, <1>14,
     <1>15, <1>16, <1>17, <1>18, <1>19, <1>20, <1>21, <1>22, <1>23, <1>24, <1>25, <1>26 DEF ResourceEndpoints

(* What the guide gives to operators is theirs. *)
LEMMA OperatedIsTheirs == \A e \in Operated : Operates(e)
<1>1. \A e \in NetworkEndpoints : Operates(e)
  BY DEF NetworkEndpoints, Shows, Changes, Operates, Endpoints, ReadPermissions, OperatorPermissions
<1>2. \A e \in SubnetEndpoints : Operates(e)
  BY DEF SubnetEndpoints, Shows, Changes, Operates, Endpoints, ReadPermissions, OperatorPermissions
<1>3. \A e \in AllocationEndpoints : Operates(e)
  BY DEF AllocationEndpoints, Shows, Changes, Operates, Endpoints, ReadPermissions, OperatorPermissions
<1> QED
  BY <1>1, <1>2, <1>3, ResourcesOperate DEF Operated

\* What else operators may change.
Beyond == {"register_node", "create_project", "update_project"}

\* A viewer may call e if it changes nothing and no other, and an operator
\* changes nothing with it beyond what is listed.
Shown(e) == e.permission \in ReadPermissions /\ ~ e.changes
Extended(e) == e.permission \in OperatorPermissions \ ReadPermissions /\ e.handler \in Beyond

(* The endpoints of nodes, operations and topology. *)
LEMMA NodesAre ==
    \A e \in NodeEndpoints \cup OperationEndpoints \cup TopologyEndpoints :
        Shown(e) \/ (e.changes /\ (Extended(e) \/ Restricted(e)))
<1>1. \A e \in NodeEndpoints : Shown(e) \/ (e.changes /\ (Extended(e) \/ Restricted(e)))
  BY DEF NodeEndpoints, Shows, Changes, Shown, Extended, Restricted, Beyond, Endpoints, ReadPermissions,
         OperatorPermissions, AllPermissions
<1>2. \A e \in OperationEndpoints : Shown(e)
  BY DEF OperationEndpoints, Shows, Shown, Endpoints, ReadPermissions
<1>3. \A e \in TopologyEndpoints : Shown(e)
  BY DEF TopologyEndpoints, Shows, Shown, Endpoints, ReadPermissions
<1> QED
  BY <1>1, <1>2, <1>3

(* What the guide keeps for administrators is theirs. *)
LEMMA ReservedIsRestricted == \A e \in Reserved : Restricted(e)
<1>1. \A e \in AccountEndpoints : Restricted(e)
  BY DEF AccountEndpoints, Shows, Changes, Restricted, Endpoints, ReadPermissions, OperatorPermissions, AllPermissions
<1>2. \A e \in TokenEndpoints : Restricted(e)
  BY DEF TokenEndpoints, Changes, Restricted, Endpoints, ReadPermissions, OperatorPermissions, AllPermissions
<1>3. \A e \in AuditEndpoints : Restricted(e)
  BY DEF AuditEndpoints, Shows, Restricted, Endpoints, ReadPermissions, OperatorPermissions, AllPermissions
<1>4. \A e \in BackupEndpoints : Restricted(e)
  BY DEF BackupEndpoints, Shows, Changes, Restricted, Endpoints, ReadPermissions, OperatorPermissions, AllPermissions
<1> QED
  BY <1>1, <1>2, <1>3, <1>4 DEF Reserved

(* What is left, of which the guide says nothing. *)
LEMMA OthersAre ==
    \A e \in UNION {ProjectEndpoints, WebhookEndpoints, EventEndpoints, NodeSnapshotEndpoints, AgentEndpoints,
                   HealthEndpoints} :
        Shown(e) \/ Extended(e) \/ Restricted(e) \/ e.permission = None
<1>1. \A e \in ProjectEndpoints : Shown(e) \/ Extended(e) \/ Restricted(e)
  BY DEF ProjectEndpoints, Shows, Changes, Shown, Extended, Restricted, Beyond, Endpoints, ReadPermissions,
         OperatorPermissions, AllPermissions
<1>2. \A e \in WebhookEndpoints : Restricted(e)
  BY DEF WebhookEndpoints, Shows, Changes, Restricted, Endpoints, ReadPermissions, OperatorPermissions, AllPermissions
<1>3. \A e \in EventEndpoints : Restricted(e)
  BY DEF EventEndpoints, Shows, Restricted, Endpoints, ReadPermissions, OperatorPermissions, AllPermissions
<1>4. \A e \in NodeSnapshotEndpoints : Restricted(e)
  BY DEF NodeSnapshotEndpoints, Shows, Changes, Restricted, Endpoints, ReadPermissions, OperatorPermissions,
         AllPermissions
<1>5. \A e \in AgentEndpoints \cup HealthEndpoints : e.permission = None
  BY DEF AgentEndpoints, HealthEndpoints, Shows, Changes, Endpoints
<1> QED
  BY <1>1, <1>2, <1>3, <1>4, <1>5

(* Every endpoint is open to the roles the guide names. *)
LEMMA SurfaceKept == RolesAsDocumented
<1>1. \A e \in Surface :
         (Operates(e) /\ e \in Operated) \/ Shown(e) \/ Extended(e) \/ Restricted(e) \/ e.permission = None
  <2>1. \A e \in Surface :
          \/ e \in Operated \/ e \in Reserved
          \/ e \in NodeEndpoints \cup OperationEndpoints \cup TopologyEndpoints
          \/ e \in UNION {ProjectEndpoints, WebhookEndpoints, EventEndpoints, NodeSnapshotEndpoints, AgentEndpoints,
                         HealthEndpoints}
    BY DEF Surface, Operated, Reserved
  <2> QED
    BY <2>1, OperatedIsTheirs, ReservedIsRestricted, NodesAre, OthersAre
<1>2. \A e \in Public : ~ e.changes => e.permission \in ReadPermissions
  BY OperatedIsTheirs, NodesAre DEF Public, Operates, Shown
<1>3. /\ RolePermissions["admin"] = AllPermissions
      /\ RolePermissions["viewer"] = ReadPermissions
      /\ RolePermissions["network_operator"] = OperatorPermissions
      /\ RolePermissions["automation"] = OperatorPermissions
  BY DEF RolePermissions
<1>4. ReadPermissions \subseteq OperatorPermissions /\ OperatorPermissions \subseteq AllPermissions
  BY DEF OperatorPermissions, AllPermissions
<1> SUFFICES ASSUME NEW e \in Surface, e.permission # None
             PROVE  /\ May("admin", e)
                    /\ May("automation", e) <=> May("network_operator", e)
                    /\ e \in Operated => May("network_operator", e)
                    /\ e.changes /\ May("network_operator", e) =>
                         e \in Operated \/ e.handler \in {"register_node", "create_project", "update_project"}
                    /\ May("viewer", e) => ~ e.changes
                    /\ e \in Public /\ ~ e.changes => May("viewer", e)
                    /\ e \in Reserved => ~ May("viewer", e) /\ ~ May("network_operator", e)
  BY DEF RolesAsDocumented
<1>5. \A role : May(role, e) <=> e.permission \in RolePermissions[role]
  BY DEF May
<1>6. e \in Operated => Operates(e)
  BY OperatedIsTheirs
<1>7. e \in Reserved => Restricted(e)
  BY ReservedIsRestricted
<1> QED
  BY <1>1, <1>2, <1>3, <1>4, <1>5, <1>6, <1>7 DEF Operates, Shown, Extended, Restricted, Beyond

(* Each role may call the endpoints the guide names for it and no other; *)
(* a disabled account never authenticates again; a revoked token stays   *)
(* revoked but for a lost database and the saves of requests that were   *)
(* let in with it before, which put it in force again.                   *)
THEOREM AccessIsHeld == Spec => AccessHolds
BY SurfaceKept, ShutOutStaysOut DEF AccessHolds

(* With a file archive configured, an audit event leaves its table only  *)
(* when the archive has it; the default archive keeps none.              *)
THEOREM ArchivedBeforeDeleted == Spec => NothingForgotten
<1>1. ASSUME StepInv, [Next]_<<storeVars, limiterVars>>
      PROVE  [files.backend = "file" =>
                \A e \in Ids("audit") \ Ids("audit")' : e \in files.archive]_storeVars
  BY <1>1, StoreSteps, TrailStays DEF InArchive
<1>2. NothingForgotten <=>
        [][files.backend = "file" => \A e \in Ids("audit") \ Ids("audit")' : e \in files.archive]_storeVars
  BY DEF NothingForgotten
<1> QED
  BY <1>1, <1>2, StepsArePrepared, PTL DEF Spec

(* A schedule is due exactly at the times its cron expression lists, and *)
(* a schedule that is paused gets a run on record only from a tick that  *)
(* had read it before it was paused.                                     *)
THEOREM SchedulesRunAsTheyShould == Spec => SchedulesRunAsAsked
<1>1. Spec => []DueWhenListed
  <2>1. GoodState => DueWhenListed
    BY DueListed
  <2> QED
    BY <2>1, StateIsGood, PTL
<1>2. ASSUME StepInv, [Next]_<<storeVars, limiterVars>>
      PROVE  [\A s \in Ids("schedules") :
                Schedule(s).status = "paused" /\ s \in Ids("schedules")' /\ Schedule(s)'.ran > Schedule(s).ran
                  => late']_storeVars
  BY <1>2, StoreSteps, PausedStays
<1>3. PausedDoesNotRun <=>
        [][\A s \in Ids("schedules") :
             Schedule(s).status = "paused" /\ s \in Ids("schedules")' /\ Schedule(s)'.ran > Schedule(s).ran
               => late']_storeVars
  BY DEF PausedDoesNotRun
<1>4. Spec => PausedDoesNotRun
  BY <1>2, <1>3, StepsArePrepared, PTL DEF Spec
<1> QED
  BY <1>1, <1>4 DEF SchedulesRunAsAsked

==============================================================================
