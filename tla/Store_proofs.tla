---------------------------- MODULE Store_proofs ----------------------------
(***************************************************************************)
(* Whatever requests interleave, the tables stay good: THEOREM StateIsGood *)
(* of Services, for all tables, requests and values of the constants.      *)
(*                                                                         *)
(* GoodState is inductive.  It says of the tables that every row loads     *)
(* (GoodRow, one *Ok predicate a table), that references lead somewhere    *)
(* and that unique columns differ; of suspended requests that they ask for *)
(* such rows (GoodWork) - a row is checked before the await and saved      *)
(* after it -; and of a bundle that it can be put back.  The proof is in   *)
(* three parts:                                                            *)
(*   - what the store does to good tables: MergeKeeps for the columns of a *)
(*     save, SweepGood and SweepRefs for ON DELETE, WrittenGood for one    *)
(*     write and AllWrittenGood for all the writes of a request;           *)
(*   - what the handlers ask of it: a lemma for the *Next of every         *)
(*     component concludes Requested, that is, a request whose writes are  *)
(*     LawfulWork for the tables it has read;                              *)
(*   - that a step of Services is a lawful request, a write of a suspended *)
(*     one, or one of a few steps that touch rows beside (StepKinds).      *)
(*                                                                         *)
(* What LawfulWork says beyond GoodWork - that a save has seen what is     *)
(* free, that an id is drawn - is for Services_proofs.                     *)
(***************************************************************************)
EXTENDS Services, FiniteSetTheorems, SequenceTheorems, WellFoundedInduction, TLAPS

(* Induction over the naturals, for a set of them. *)
LEMMA NatSetInduction ==
    ASSUME NEW S, 0 \in S, \A n \in Nat : n \in S => n + 1 \in S
    PROVE  Nat \subseteq S
<1> SUFFICES ASSUME Nat \ S # {} PROVE FALSE
  OBVIOUS
<1>1. PICK x \in Nat \ S : \A y \in Nat \ S : ~ (<<y, x>> \in OpToRel(<, Nat))
  <2>1. Nat \ S \subseteq Nat
    OBVIOUS
  <2> QED
    BY <2>1, NatLessThanWellFounded, WFMin
<1>2. \A y \in Nat \ S : ~ (y < x)
  BY <1>1 DEF OpToRel
<1>3. x # 0
  OBVIOUS
<1>4. x - 1 \in Nat /\ x - 1 < x
  BY <1>3
<1>5. x - 1 \in S
  BY <1>2, <1>4
<1> QED
  BY <1>4, <1>5

------------------------------------------------------------------------------
(* The writes of a request, one after the other. *)

\* The tables after each write of a request: from d, one write after the other,
\* until one is refused.
IsProgress(f, d, work) ==
    f = [n \in 0 .. Len(work) |->
           IF n = 0 THEN [db |-> d, over |-> FALSE] ELSE OneWritten(f[n - 1], work[n])]

(* The writes of a request lead somewhere, however many there are: such  *)
(* a function exists.                                                    *)
LEMMA ProgressExists ==
    ASSUME NEW d, NEW work, Len(work) \in Nat
    PROVE  \E f : IsProgress(f, d, work)
<1> DEFINE Upto(f, k) ==
      f = [n \in 0 .. k |->
             IF n = 0 THEN [db |-> d, over |-> FALSE] ELSE OneWritten(f[n - 1], work[n])]
    S == {k \in Nat : \E f : Upto(f, k)}
<1>1. 0 \in S
  <2> DEFINE f0 == [n \in 0 .. 0 |-> [db |-> d, over |-> FALSE]]
  <2>1. Upto(f0, 0)
    OBVIOUS
  <2> QED
    BY <2>1, Zenon
<1>2. ASSUME NEW k \in Nat, k \in S PROVE k + 1 \in S
  <2>1. PICK f : Upto(f, k)
    BY <1>2, Zenon
  <2> HIDE DEF S
  <2> DEFINE g == [n \in 0 .. k + 1 |-> IF n = k + 1 THEN OneWritten(f[k], work[n]) ELSE f[n]]
  <2>2. \A n \in 0 .. k : g[n] = f[n]
    OBVIOUS
  <2>3. \A n \in 0 .. k + 1 :
          g[n] = IF n = 0 THEN [db |-> d, over |-> FALSE] ELSE OneWritten(g[n - 1], work[n])
    <3> SUFFICES ASSUME NEW n \in 0 .. k + 1
                 PROVE  g[n] = IF n = 0 THEN [db |-> d, over |-> FALSE] ELSE OneWritten(g[n - 1], work[n])
      OBVIOUS
    <3>1. CASE n = k + 1
      BY <3>1, <2>2
    <3>2. CASE n \in 0 .. k
      <4>1. f[n] = IF n = 0 THEN [db |-> d, over |-> FALSE] ELSE OneWritten(f[n - 1], work[n])
        BY <3>2, <2>1
      <4>2. n # 0 => g[n - 1] = f[n - 1]
        BY <3>2, <2>2
      <4> QED
        BY <3>2, <4>1, <4>2, <2>2
    <3> QED
      BY <3>1, <3>2
  <2>4. Upto(g, k + 1)
    <3>1. g = [n \in 0 .. k + 1 |-> g[n]]
      OBVIOUS
    <3> HIDE DEF g
    <3> QED
      BY <3>1, <2>3
  <2>5. \E h : Upto(h, k + 1)
    BY <2>4, Zenon
  <2>6. k + 1 \in Nat
    OBVIOUS
  <2> HIDE DEF Upto
  <2> QED
    BY <2>5, <2>6 DEF S
<1>3. Nat \subseteq S
  <2> HIDE DEF S
  <2> QED
    BY <1>1, <1>2, NatSetInduction
<1>4. Len(work) \in S
  BY <1>3
<1>5. \E f : Upto(f, Len(work))
  BY <1>4
<1> QED
  BY <1>5, Zenon DEF IsProgress

(* Progress takes the tables from one write of a request to the next, as *)
(* the session flushes them.                                             *)
LEMMA ProgressFact ==
    ASSUME NEW d, NEW work, Len(work) \in Nat
    PROVE  /\ Progress(d, work)[0] = [db |-> d, over |-> FALSE]
           /\ \A n \in 0 .. Len(work) - 1 :
                Progress(d, work)[n + 1] = OneWritten(Progress(d, work)[n], work[n + 1])
<1>1. IsProgress(Progress(d, work), d, work)
  <2>1. Progress(d, work) = CHOOSE f : IsProgress(f, d, work)
    BY DEF Progress, IsProgress
  <2> QED
    BY <2>1, ProgressExists, Zenon
<1> DEFINE p == Progress(d, work)
<1>2. p = [n \in 0 .. Len(work) |->
             IF n = 0 THEN [db |-> d, over |-> FALSE] ELSE OneWritten(p[n - 1], work[n])]
  BY <1>1 DEF IsProgress
<1> HIDE DEF p
<1>3. p[0] = [db |-> d, over |-> FALSE]
  BY <1>2
<1>4. \A n \in 0 .. Len(work) - 1 : p[n + 1] = OneWritten(p[n], work[n + 1])
  <2> SUFFICES ASSUME NEW n \in 0 .. Len(work) - 1 PROVE p[n + 1] = OneWritten(p[n], work[n + 1])
    OBVIOUS
  <2>1. n + 1 \in 0 .. Len(work) /\ n + 1 # 0 /\ (n + 1) - 1 = n
    OBVIOUS
  <2> QED
    BY <1>2, <2>1
<1> QED
  BY <1>3, <1>4 DEF p

(* A request of one write makes it, or is refused. *)
LEMMA OneWriteWritten ==
    ASSUME NEW d, NEW w
    PROVE  AllWritten(d, <<w>>) = IF Refused(d, w) THEN d ELSE Written(d, w)
<1>1. Len(<<w>>) = 1 /\ <<w>>[1] = w
  OBVIOUS
<1>2. Progress(d, <<w>>)[0] = [db |-> d, over |-> FALSE]
  BY <1>1, ProgressFact
<1>3. Progress(d, <<w>>)[0 + 1] = OneWritten(Progress(d, <<w>>)[0], <<w>>[0 + 1])
  <2> DEFINE work == <<w>>
  <2>1. Len(work) \in Nat /\ 0 \in 0 .. Len(work) - 1
    BY <1>1
  <2> HIDE DEF work
  <2>2. Progress(d, work)[0 + 1] = OneWritten(Progress(d, work)[0], work[0 + 1])
    BY <2>1, ProgressFact
  <2> QED
    BY <2>2 DEF work
<1>4. Progress(d, <<w>>)[1] = OneWritten([db |-> d, over |-> FALSE], w)
  BY <1>1, <1>2, <1>3
<1>5. AllWritten(d, <<w>>) = OneWritten([db |-> d, over |-> FALSE], w).db
  BY <1>1, <1>4 DEF AllWritten
<1> QED
  BY <1>5 DEF OneWritten

------------------------------------------------------------------------------
(* What every row of a table is, whichever saves it is the merge of.  n    *)
(* bounds the counters that requests advance.                              *)

NetworkOk(i, row) == i \in Networks /\ row \in NetworkRows /\ row.hash.subnet = SpecHash(row).subnet
AllocationOk(row) == row \in AllocationRows
AccountOk(i, row) == i \in Accounts /\ row \in AccountRows
TokenOk(row) == row \in TokenRows
ProjectOk(i, row) == i \in Projects /\ row \in ProjectRows
MemberOk(row) == row \in ProjectMemberRows

RouterOk(i, row) ==
    /\ i \in Routers /\ row \in RouterRows /\ RouterValid(row)
    /\ row.applied # None => row.applied.of = Rendered(row)
    /\ \A m, n \in DOMAIN row.routes : m # n => row.routes[m] # row.routes[n]

FipOk(row) ==
    /\ row \in FloatingIpRows
    /\ row.status = "active" <=> row.port # None
    /\ row.status = "down" => row.router = None

PeerOk(i, row) == i \in Peers /\ row \in BgpPeerRows

PortOk(row) ==
    /\ row \in [node : {row.node}, network : {row.network}, vif : Vifs \cup {None},
                status : {"pending", "active", "detached"}]
    /\ row.node # None /\ row.network # None

GroupOk(i, row) == i \in Groups /\ row \in SecurityGroupRows

GroupMemberOk(row) ==
    row \in [group : {row.group}, value : MemberValues] /\ row.group # None

AddressPoolOk(row) == row \in AddressPoolRows
QosOk(row) == row \in QosPolicyRows /\ RateValid(row.rate)

TrunkOk(row) ==
    /\ row \in [node : {row.node}, vlans : SUBSET Vlans, native : Vlans \cup {None}]
    /\ row.node # None /\ TrunkValid(row)

ServiceOk(i, row) == i \in Services /\ row \in ServiceObjectRows

PolicyOk(row) ==
    /\ row \in [rules : SUBSET PolicyRuleRows, status : {"draft", "compiled", "applied"},
                compiled : {row.compiled}]
    /\ row.status = "draft" <=> row.compiled = None
    /\ \A r, s \in row.rules : r.id = s.id => r = s
    /\ IsFiniteSet(row.rules)
    /\ row.compiled # None =>
          /\ row.compiled = [ruleset |-> Ruleset(row.rules, row.compiled.seen), seen |-> row.compiled.seen]
          /\ row.compiled \in Compilations

QuotaOk(row) == row \in QuotaRows
SnapshotOk(row, n) == row \in [project : Owners, version : 1 .. n]
BondOk(row) == row \in BondRows /\ MtuValid(row.mtu)
RetentionOk(row) == row \in RetentionRows /\ DaysValid(row.days)

BalancerOk(i, row) ==
    /\ i \in Balancers
    /\ row \in [status : {"build", "active", "down"}, admin : BOOLEAN, applied : {row.applied}]
    /\ row.status = "down" => ~ row.admin
    /\ row.status = "build" => row.applied = None /\ row.admin

ListenerOk(row) == row \in ListenerRows
LbPoolOk(i, row) == i \in LbPools /\ row \in LbPoolRows
LbMemberOk(row) == row \in LbMemberRows
MonitorOk(row) == row \in MonitorRows

ScheduleOk(i, row, n) ==
    /\ i \in Schedules
    /\ row \in [expr : Exprs, enabled : BOOLEAN, status : {"active", "paused", "error"}, ran : 0 .. n]
    /\ ExprValid(row.expr)
    /\ row.status = "paused" => ~ row.enabled

MirrorOk(row) ==
    row \in MirrorRows /\ row.applied = IF row.status = "active" THEN MirrorConfig(row) ELSE None

TunnelOk(i, row) == i \in Tunnels /\ row \in TunnelRows
VpnPeerOk(row) == row \in VpnPeerRows

GoodRow(t, i, row, n) ==
    /\ t = "nodes" => i # None
    /\ t = "networks" => NetworkOk(i, row)
    /\ t = "allocs" => AllocationOk(row)
    /\ t = "accounts" => AccountOk(i, row)
    /\ t = "tokens" => TokenOk(row)
    /\ t = "projects" => ProjectOk(i, row)
    /\ t = "members" => MemberOk(row)
    /\ t = "routers" => RouterOk(i, row)
    /\ t = "fips" => FipOk(row)
    /\ t = "peers" => PeerOk(i, row)
    /\ t = "ports" => PortOk(row)
    /\ t = "groups" => GroupOk(i, row)
    /\ t = "groupMembers" => GroupMemberOk(row)
    /\ t = "addressPools" => AddressPoolOk(row)
    /\ t = "qos" => QosOk(row)
    /\ t = "trunks" => TrunkOk(row)
    /\ t = "services" => ServiceOk(i, row)
    /\ t = "policies" => PolicyOk(row)
    /\ t = "quotas" => QuotaOk(row)
    /\ t = "snapshots" => SnapshotOk(row, n)
    /\ t = "bonds" => BondOk(row)
    /\ t = "retention" => RetentionOk(row)
    /\ t = "lbs" => BalancerOk(i, row)
    /\ t = "listeners" => ListenerOk(row)
    /\ t = "lbPools" => LbPoolOk(i, row)
    /\ t = "lbMembers" => LbMemberOk(row)
    /\ t = "monitors" => MonitorOk(row)
    /\ t = "schedules" => ScheduleOk(i, row, n)
    /\ t = "mirrors" => MirrorOk(row)
    /\ t = "tunnels" => TunnelOk(i, row)
    /\ t = "vpnPeers" => VpnPeerOk(row)

\* What a save leaves of the row that was there: the columns the upsert names,
\* and the others as they were.
Merged(t, row, old) == [c \in DOMAIN row |-> IF c \in Columns[t] THEN row[c] ELSE old[c]]

(* A save over a row that is there leaves a row of its table. *)
LEMMA MergeKeeps ==
    ASSUME NEW t, NEW i, NEW row, NEW old, NEW n,
           GoodRow(t, i, row, n), GoodRow(t, i, old, n)
    PROVE  GoodRow(t, i, Merged(t, row, old), n)
<1>1. t = "networks" => NetworkOk(i, Merged(t, row, old))
  <2> SUFFICES ASSUME t = "networks" PROVE NetworkOk(i, Merged(t, row, old))
    OBVIOUS
  <2>1. NetworkOk(i, row) /\ NetworkOk(i, old)
    BY DEF GoodRow
  <2>2. Columns[t] = NetworkColumns
    BY DEF Columns
  <2> QED
    BY <2>1, <2>2 DEF NetworkOk, NetworkRows, SpecHash, NetworkColumns, Merged
<1>2. t = "allocs" => AllocationOk(Merged(t, row, old))
  <2> SUFFICES ASSUME t = "allocs" PROVE AllocationOk(Merged(t, row, old))
    OBVIOUS
  <2>1. AllocationOk(row) /\ AllocationOk(old)
    BY DEF GoodRow
  <2>2. Columns[t] = IpAllocationColumns
    BY DEF Columns
  <2> QED
    BY <2>1, <2>2 DEF AllocationOk, AllocationRows, IpAllocationColumns, Merged
<1>3. t = "accounts" => AccountOk(i, Merged(t, row, old))
  <2> SUFFICES ASSUME t = "accounts" PROVE AccountOk(i, Merged(t, row, old))
    OBVIOUS
  <2>1. AccountOk(i, row) /\ AccountOk(i, old)
    BY DEF GoodRow
  <2>2. Columns[t] = ServiceAccountColumns
    BY DEF Columns
  <2> QED
    BY <2>1, <2>2 DEF AccountOk, AccountRows, ServiceAccountColumns, Merged
<1>4. t = "tokens" => TokenOk(Merged(t, row, old))
  <2> SUFFICES ASSUME t = "tokens" PROVE TokenOk(Merged(t, row, old))
    OBVIOUS
  <2>1. TokenOk(row) /\ TokenOk(old)
    BY DEF GoodRow
  <2>2. Columns[t] = ServiceTokenColumns
    BY DEF Columns
  <2> QED
    BY <2>1, <2>2 DEF TokenOk, TokenRows, ServiceTokenColumns, Merged
<1>5. t = "projects" => ProjectOk(i, Merged(t, row, old))
  <2> SUFFICES ASSUME t = "projects" PROVE ProjectOk(i, Merged(t, row, old))
    OBVIOUS
  <2>1. ProjectOk(i, row) /\ ProjectOk(i, old)
    BY DEF GoodRow
  <2>2. Columns[t] = ProjectColumns
    BY DEF Columns
  <2> QED
    BY <2>1, <2>2 DEF ProjectOk, ProjectRows, ProjectColumns, Merged
<1>6. t = "members" => MemberOk(Merged(t, row, old))
  <2> SUFFICES ASSUME t = "members" PROVE MemberOk(Merged(t, row, old))
    OBVIOUS
  <2>1. MemberOk(row) /\ MemberOk(old)
    BY DEF GoodRow
  <2>2. Columns[t] = ProjectMemberColumns
    BY DEF Columns
  <2> QED
    BY <2>1, <2>2 DEF MemberOk, ProjectMemberRows, ProjectMemberColumns, Merged
<1>7. t = "routers" => RouterOk(i, Merged(t, row, old))
  <2> SUFFICES ASSUME t = "routers" PROVE RouterOk(i, Merged(t, row, old))
    OBVIOUS
  <2>1. RouterOk(i, row) /\ RouterOk(i, old)
    BY DEF GoodRow
  <2>2. Columns[t] = RouterColumns
    BY DEF Columns
  <2> QED
    BY <2>1, <2>2 DEF RouterOk, RouterRows, RouterColumns, Merged
<1>8. t = "fips" => FipOk(Merged(t, row, old))
  <2> SUFFICES ASSUME t = "fips" PROVE FipOk(Merged(t, row, old))
    OBVIOUS
  <2>1. FipOk(row) /\ FipOk(old)
    BY DEF GoodRow
  <2>2. Columns[t] = FloatingIpColumns
    BY DEF Columns
  <2> QED
    BY <2>1, <2>2 DEF FipOk, FloatingIpRows, FloatingIpColumns, Merged
<1>9. t = "peers" => PeerOk(i, Merged(t, row, old))
  <2> SUFFICES ASSUME t = "peers" PROVE PeerOk(i, Merged(t, row, old))
    OBVIOUS
  <2>1. PeerOk(i, row) /\ PeerOk(i, old)
    BY DEF GoodRow
  <2>2. Columns[t] = BgpPeerColumns
    BY DEF Columns
  <2> QED
    BY <2>1, <2>2 DEF PeerOk, BgpPeerRows, BgpPeerColumns, Merged
<1>10. t = "ports" => PortOk(Merged(t, row, old))
  <2> SUFFICES ASSUME t = "ports" PROVE PortOk(Merged(t, row, old))
    OBVIOUS
  <2>1. PortOk(row) /\ PortOk(old)
    BY DEF GoodRow
  <2>2. Columns[t] = LogicalPortColumns
    BY DEF Columns
  <2> QED
    BY <2>1, <2>2 DEF PortOk, LogicalPortColumns, Merged
<1>11. t = "groups" => GroupOk(i, Merged(t, row, old))
  <2> SUFFICES ASSUME t = "groups" PROVE GroupOk(i, Merged(t, row, old))
    OBVIOUS
  <2>1. GroupOk(i, row) /\ GroupOk(i, old)
    BY DEF GoodRow
  <2>2. Columns[t] = SecurityGroupColumns
    BY DEF Columns
  <2> QED
    BY <2>1, <2>2 DEF GroupOk, SecurityGroupRows, SecurityGroupColumns, Merged
<1>12. t = "groupMembers" => GroupMemberOk(Merged(t, row, old))
  <2> SUFFICES ASSUME t = "groupMembers" PROVE GroupMemberOk(Merged(t, row, old))
    OBVIOUS
  <2>1. GroupMemberOk(row) /\ GroupMemberOk(old)
    BY DEF GoodRow
  <2>2. Columns[t] = SecurityGroupMemberColumns
    BY DEF Columns
  <2> QED
    BY <2>1, <2>2 DEF GroupMemberOk, SecurityGroupMemberColumns, Merged
<1>13. t = "addressPools" => AddressPoolOk(Merged(t, row, old))
  <2> SUFFICES ASSUME t = "addressPools" PROVE AddressPoolOk(Merged(t, row, old))
    OBVIOUS
  <2>1. AddressPoolOk(row) /\ AddressPoolOk(old)
    BY DEF GoodRow
  <2>2. Columns[t] = AddressPoolColumns
    BY DEF Columns
  <2> QED
    BY <2>1, <2>2 DEF AddressPoolOk, AddressPoolRows, AddressPoolColumns, Merged
<1>14. t = "qos" => QosOk(Merged(t, row, old))
  <2> SUFFICES ASSUME t = "qos" PROVE QosOk(Merged(t, row, old))
    OBVIOUS
  <2>1. QosOk(row) /\ QosOk(old)
    BY DEF GoodRow
  <2>2. Columns[t] = QosPolicyColumns
    BY DEF Columns
  <2> QED
    BY <2>1, <2>2 DEF QosOk, QosPolicyRows, QosPolicyColumns, Merged
<1>15. t = "trunks" => TrunkOk(Merged(t, row, old))
  <2> SUFFICES ASSUME t = "trunks" PROVE TrunkOk(Merged(t, row, old))
    OBVIOUS
  <2>1. TrunkOk(row) /\ TrunkOk(old)
    BY DEF GoodRow
  <2>2. Columns[t] = TrunkPortColumns
    BY DEF Columns
  <2> QED
    BY <2>1, <2>2 DEF TrunkOk, TrunkValid, TrunkPortColumns, Merged
<1>16. t = "services" => ServiceOk(i, Merged(t, row, old))
  <2> SUFFICES ASSUME t = "services" PROVE ServiceOk(i, Merged(t, row, old))
    OBVIOUS
  <2>1. ServiceOk(i, row) /\ ServiceOk(i, old)
    BY DEF GoodRow
  <2>2. Columns[t] = ServiceObjectColumns
    BY DEF Columns
  <2> QED
    BY <2>1, <2>2 DEF ServiceOk, ServiceObjectRows, ServiceObjectColumns, Merged
<1>17. t = "policies" => PolicyOk(Merged(t, row, old))
  <2> SUFFICES ASSUME t = "policies" PROVE PolicyOk(Merged(t, row, old))
    OBVIOUS
  <2>1. PolicyOk(row) /\ PolicyOk(old)
    BY DEF GoodRow
  <2>2. Columns[t] = SecurityPolicyColumns
    BY DEF Columns
  <2>3. Merged(t, row, old) = row
    BY <2>1, <2>2 DEF PolicyOk, SecurityPolicyColumns, Merged
  <2> QED
    BY <2>1, <2>3
<1>18. t = "quotas" => QuotaOk(Merged(t, row, old))
  <2> SUFFICES ASSUME t = "quotas" PROVE QuotaOk(Merged(t, row, old))
    OBVIOUS
  <2>1. QuotaOk(row) /\ QuotaOk(old)
    BY DEF GoodRow
  <2>2. Columns[t] = ProjectQuotaColumns
    BY DEF Columns
  <2> QED
    BY <2>1, <2>2 DEF QuotaOk, QuotaRows, ProjectQuotaColumns, Merged
<1>19. t = "snapshots" => SnapshotOk(Merged(t, row, old), n)
  <2> SUFFICES ASSUME t = "snapshots" PROVE SnapshotOk(Merged(t, row, old), n)
    OBVIOUS
  <2>1. SnapshotOk(row, n) /\ SnapshotOk(old, n)
    BY DEF GoodRow
  <2>2. Columns[t] = ResourceSnapshotColumns
    BY DEF Columns
  <2> QED
    BY <2>1, <2>2 DEF SnapshotOk, ResourceSnapshotColumns, Merged
<1>20. t = "bonds" => BondOk(Merged(t, row, old))
  <2> SUFFICES ASSUME t = "bonds" PROVE BondOk(Merged(t, row, old))
    OBVIOUS
  <2>1. BondOk(row) /\ BondOk(old)
    BY DEF GoodRow
  <2>2. Columns[t] = GatewayBondColumns
    BY DEF Columns
  <2> QED
    BY <2>1, <2>2 DEF BondOk, BondRows, GatewayBondColumns, Merged
<1>21. t = "retention" => RetentionOk(Merged(t, row, old))
  <2> SUFFICES ASSUME t = "retention" PROVE RetentionOk(Merged(t, row, old))
    OBVIOUS
  <2>1. RetentionOk(row) /\ RetentionOk(old)
    BY DEF GoodRow
  <2>2. Columns[t] = RetentionPolicyColumns
    BY DEF Columns
  <2> QED
    BY <2>1, <2>2 DEF RetentionOk, RetentionRows, RetentionPolicyColumns, Merged
<1>22. t = "lbs" => BalancerOk(i, Merged(t, row, old))
  <2> SUFFICES ASSUME t = "lbs" PROVE BalancerOk(i, Merged(t, row, old))
    OBVIOUS
  <2>1. BalancerOk(i, row) /\ BalancerOk(i, old)
    BY DEF GoodRow
  <2>2. Columns[t] = LoadBalancerColumns
    BY DEF Columns
  <2> QED
    BY <2>1, <2>2 DEF BalancerOk, LoadBalancerColumns, Merged
<1>23. t = "listeners" => ListenerOk(Merged(t, row, old))
  <2> SUFFICES ASSUME t = "listeners" PROVE ListenerOk(Merged(t, row, old))
    OBVIOUS
  <2>1. ListenerOk(row) /\ ListenerOk(old)
    BY DEF GoodRow
  <2>2. Columns[t] = LbListenerColumns
    BY DEF Columns
  <2> QED
    BY <2>1, <2>2 DEF ListenerOk, ListenerRows, LbListenerColumns, Merged
<1>24. t = "lbPools" => LbPoolOk(i, Merged(t, row, old))
  <2> SUFFICES ASSUME t = "lbPools" PROVE LbPoolOk(i, Merged(t, row, old))
    OBVIOUS
  <2>1. LbPoolOk(i, row) /\ LbPoolOk(i, old)
    BY DEF GoodRow
  <2>2. Columns[t] = LbPoolColumns
    BY DEF Columns
  <2> QED
    BY <2>1, <2>2 DEF LbPoolOk, LbPoolRows, LbPoolColumns, Merged
<1>25. t = "lbMembers" => LbMemberOk(Merged(t, row, old))
  <2> SUFFICES ASSUME t = "lbMembers" PROVE LbMemberOk(Merged(t, row, old))
    OBVIOUS
  <2>1. LbMemberOk(row) /\ LbMemberOk(old)
    BY DEF GoodRow
  <2>2. Columns[t] = LbMemberColumns
    BY DEF Columns
  <2> QED
    BY <2>1, <2>2 DEF LbMemberOk, LbMemberRows, LbMemberColumns, Merged
<1>26. t = "monitors" => MonitorOk(Merged(t, row, old))
  <2> SUFFICES ASSUME t = "monitors" PROVE MonitorOk(Merged(t, row, old))
    OBVIOUS
  <2>1. MonitorOk(row) /\ MonitorOk(old)
    BY DEF GoodRow
  <2>2. Columns[t] = HealthMonitorColumns
    BY DEF Columns
  <2> QED
    BY <2>1, <2>2 DEF MonitorOk, MonitorRows, HealthMonitorColumns, Merged
<1>27. t = "schedules" => ScheduleOk(i, Merged(t, row, old), n)
  <2> SUFFICES ASSUME t = "schedules" PROVE ScheduleOk(i, Merged(t, row, old), n)
    OBVIOUS
  <2>1. ScheduleOk(i, row, n) /\ ScheduleOk(i, old, n)
    BY DEF GoodRow
  <2>2. Columns[t] = ApplyScheduleColumns
    BY DEF Columns
  <2> QED
    BY <2>1, <2>2 DEF ScheduleOk, ApplyScheduleColumns, Merged
<1>28. t = "mirrors" => MirrorOk(Merged(t, row, old))
  <2> SUFFICES ASSUME t = "mirrors" PROVE MirrorOk(Merged(t, row, old))
    OBVIOUS
  <2>1. MirrorOk(row) /\ MirrorOk(old)
    BY DEF GoodRow
  <2>2. Columns[t] = MirrorSessionColumns
    BY DEF Columns
  <2> QED
    BY <2>1, <2>2 DEF MirrorOk, MirrorRows, MirrorConfig, MirrorSessionColumns, Merged
<1>29. t = "tunnels" => TunnelOk(i, Merged(t, row, old))
  <2> SUFFICES ASSUME t = "tunnels" PROVE TunnelOk(i, Merged(t, row, old))
    OBVIOUS
  <2>1. TunnelOk(i, row) /\ TunnelOk(i, old)
    BY DEF GoodRow
  <2>2. Columns[t] = VpnTunnelColumns
    BY DEF Columns
  <2> QED
    BY <2>1, <2>2 DEF TunnelOk, TunnelRows, VpnTunnelColumns, Merged
<1>30. t = "vpnPeers" => VpnPeerOk(Merged(t, row, old))
  <2> SUFFICES ASSUME t = "vpnPeers" PROVE VpnPeerOk(Merged(t, row, old))
    OBVIOUS
  <2>1. VpnPeerOk(row) /\ VpnPeerOk(old)
    BY DEF GoodRow
  <2>2. Columns[t] = VpnPeerColumns
    BY DEF Columns
  <2> QED
    BY <2>1, <2>2 DEF VpnPeerOk, VpnPeerRows, VpnPeerColumns, Merged
<1>100. t = "nodes" => i # None
  BY DEF GoodRow
<1> QED
  BY <1>100, <1>1, <1>2, <1>3, <1>4, <1>5, <1>6, <1>7, <1>8, <1>9, <1>10, <1>11, <1>12, <1>13,
     <1>14, <1>15, <1>16, <1>17, <1>18, <1>19, <1>20, <1>21, <1>22, <1>23, <1>24, <1>25, <1>26,
     <1>27, <1>28, <1>29, <1>30 DEF GoodRow

(* A floating IP without its router is one. *)
LEMMA ClearedKeeps ==
    ASSUME NEW row, FipOk(row)
    PROVE  FipOk([c \in DOMAIN row |-> IF c = "router" THEN None ELSE row[c]])
BY DEF FipOk, FloatingIpRows

(* What the counters bound they bound when they have advanced. *)
LEMMA GoodRowLater ==
    ASSUME NEW t, NEW i, NEW row, NEW n \in Nat, NEW m \in Nat, n <= m, GoodRow(t, i, row, n)
    PROVE  GoodRow(t, i, row, m)
<1>1. SnapshotOk(row, n) => SnapshotOk(row, m)
  BY DEF SnapshotOk
<1>2. ScheduleOk(i, row, n) => ScheduleOk(i, row, m)
  BY DEF ScheduleOk
<1> QED
  BY <1>1, <1>2 DEF GoodRow

------------------------------------------------------------------------------
(* References and unique columns, whatever is written. *)

\* Tables that refer to no other.
Roots == {"networks", "nodes", "accounts", "projects", "routers", "groups", "lbs", "tunnels"}

\* Every row of the child table refers to nothing or to a row that is there.
Refers(d, k) ==
    \A i \in DOMAIN d[k.child] : d[k.child][i][k.field] = None \/ Exists(d, k, d[k.child][i][k.field])

\* The foreign keys hold.
Refs(d) == \A k \in ForeignKeys : k.child \in DOMAIN d => Refers(d, k)

\* Rows i and j differ in a column of the unique key u, or have no value in
\* one.
Differ(d, u, i, j) == \E c \in u[2] : d[u[1]][i][c] # d[u[1]][j][c] \/ d[u[1]][j][c] = None

\* The unique keys hold.
Uniques(d) ==
    \A u \in UniqueKeys : u[1] \in DOMAIN d =>
        \A i, j \in DOMAIN d[u[1]] : i # j => Differ(d, u, i, j)

\* Every row loads: it has the columns and the values that its mapper and its
\* domain class ask for.
GoodRows(d, n) == \A t \in DOMAIN d : \A i \in DOMAIN d[t] : GoodRow(t, i, d[t][i], n)

\* Every table has finitely many rows.
Finite(d) == \A t \in DOMAIN d : IsFiniteSet(DOMAIN d[t])

\* What a database may contain once its constraints have let it in.
GoodDb(d, n) == GoodRows(d, n) /\ Refs(d) /\ Uniques(d) /\ Finite(d)

\* What requests ask the tables to do: to save or insert a row that loads, to
\* delete one, to empty a group, to sweep.
GoodWrite(w, tables, n) ==
    /\ w.kind \in {"save", "insert", "delete", "empty", "deleteAll"}
    /\ w.kind \in {"save", "insert"} => w.table \in tables /\ GoodRow(w.table, w.id, w.row, n)
    /\ w.kind = "delete" => w.table \in tables
    /\ w.kind = "empty" => w.table = "groupMembers"
    /\ w.kind = "deleteAll" => w.table \in {"audit", "operations"}

(* Of the foreign keys the proofs use this alone: a parent is a root, or   *)
(* the table of pools, which refers to a root.                             *)
KeyFact(k) ==
    /\ k.parent \in Roots \cup {"lbPools"} /\ k.child \notin Roots
    /\ k.child = "lbPools" => k.parent = "lbs"
    /\ k.child = "allocs" => k.parent = "networks" /\ k.field = "subnet"
    /\ k.onDelete \in {"cascade", "set null"}
    /\ k.onDelete = "set null" <=> k.child = "fips"
    /\ k.child = "fips" => k.field = "router"
    /\ k.child = "tokens" => k.parent = "accounts" /\ k.field = "account"
    /\ k.child \notin {"audit", "operations", "policies", "services", "schedules"}

(* The foreign keys of the migrations are of that kind. *)
LEMMA KeyFacts == \A k \in ForeignKeys : KeyFact(k)
<1>1. KeyFact(Key("allocs", "subnet", "networks", "cascade"))
  BY DEF KeyFact, Key, Roots
<1>2. KeyFact(Key("tokens", "account", "accounts", "cascade"))
  BY DEF KeyFact, Key, Roots
<1>3. KeyFact(Key("members", "project", "projects", "cascade"))
  BY DEF KeyFact, Key, Roots
<1>4. KeyFact(Key("fips", "router", "routers", "set null"))
  BY DEF KeyFact, Key, Roots
<1>5. KeyFact(Key("peers", "router", "routers", "cascade"))
  BY DEF KeyFact, Key, Roots
<1>6. KeyFact(Key("ports", "node", "nodes", "cascade"))
  BY DEF KeyFact, Key, Roots
<1>7. KeyFact(Key("ports", "network", "networks", "cascade"))
  BY DEF KeyFact, Key, Roots
<1>8. KeyFact(Key("groupMembers", "group", "groups", "cascade"))
  BY DEF KeyFact, Key, Roots
<1>9. KeyFact(Key("trunks", "node", "nodes", "cascade"))
  BY DEF KeyFact, Key, Roots
<1>10. KeyFact(Key("listeners", "lb", "lbs", "cascade"))
  BY DEF KeyFact, Key, Roots
<1>11. KeyFact(Key("lbPools", "lb", "lbs", "cascade"))
  BY DEF KeyFact, Key, Roots
<1>12. KeyFact(Key("lbMembers", "pool", "lbPools", "cascade"))
  BY DEF KeyFact, Key, Roots
<1>13. KeyFact(Key("monitors", "pool", "lbPools", "cascade"))
  BY DEF KeyFact, Key, Roots
<1>14. KeyFact(Key("vpnPeers", "tunnel", "tunnels", "cascade"))
  BY DEF KeyFact, Key, Roots
<1> QED
  BY <1>1, <1>2, <1>3, <1>4, <1>5, <1>6, <1>7, <1>8, <1>9, <1>10, <1>11, <1>12, <1>13, <1>14 DEF ForeignKeys

(* A floating IP refers to its router, and survives it without one. *)
LEMMA FipKey == Key("fips", "router", "routers", "set null") \in ForeignKeys
BY DEF ForeignKeys

(* The tables that are emptied or swept, and that of floating IPs, have  *)
(* no unique key.                                                        *)
LEMMA UniqueFacts ==
    ASSUME NEW u \in UniqueKeys
    PROVE  u[1] \notin {"fips", "groupMembers", "audit", "operations"}
BY DEF UniqueKeys

\* What SET NULL leaves of a floating IP.
Null(row) == [c \in DOMAIN row |-> IF c = "router" THEN None ELSE row[c]]

\* What a sweep leaves of row i of table t.
Swept(d, t, i) == IF t # "fips" \/ i \notin Orphans(d, t, "set null") THEN d[t][i] ELSE Null(d[t][i])

(* A sweep takes the rows whose parent is gone and clears the router of  *)
(* floating IPs, as ON DELETE asks.                                      *)
LEMMA SweepFact ==
    ASSUME NEW d
    PROVE  /\ DOMAIN Sweep(d) = DOMAIN d
           /\ \A t \in DOMAIN d :
                /\ DOMAIN Sweep(d)[t] = DOMAIN d[t] \ Orphans(d, t, "cascade")
                /\ \A i \in DOMAIN Sweep(d)[t] : Sweep(d)[t][i] = Swept(d, t, i)
<1> SUFFICES ASSUME NEW t \in DOMAIN d
             PROVE  /\ DOMAIN Sweep(d) = DOMAIN d
                    /\ DOMAIN Sweep(d)[t] = DOMAIN d[t] \ Orphans(d, t, "cascade")
                    /\ \A i \in DOMAIN Sweep(d)[t] : Sweep(d)[t][i] = Swept(d, t, i)
  BY DEF Sweep
<1> DEFINE left == Keep(d[t], DOMAIN d[t] \ Orphans(d, t, "cascade"))
           cleared == Orphans(d, t, "set null")
           null(i) == [c \in DOMAIN left[i] |->
                         IF \E k \in ForeignKeys : k.child = t /\ k.field = c THEN None ELSE left[i][c]]
<1>1. DOMAIN Sweep(d) = DOMAIN d
  BY DEF Sweep
<1>2. Sweep(d)[t] = [i \in DOMAIN left |-> IF i \notin cleared THEN left[i] ELSE null(i)]
  BY DEF Sweep
<1>3. DOMAIN left = DOMAIN d[t] \ Orphans(d, t, "cascade") /\ \A i \in DOMAIN left : left[i] = d[t][i]
  BY DEF Keep
<1>4. DOMAIN Sweep(d)[t] = DOMAIN d[t] \ Orphans(d, t, "cascade")
  BY <1>2, <1>3
<1>5. ASSUME NEW i \in DOMAIN Sweep(d)[t], t # "fips" PROVE Sweep(d)[t][i] = d[t][i]
  <2>1. i \notin cleared
    BY <1>5, KeyFacts DEF Orphans, KeyFact
  <2> HIDE DEF left, cleared
  <2> QED
    BY <1>2, <1>3, <2>1, <1>5
<1>6. ASSUME NEW i \in DOMAIN Sweep(d)[t], t = "fips"
      PROVE  Sweep(d)[t][i] = IF i \notin cleared THEN d[t][i] ELSE Null(d[t][i])
  <2>1. \A c : (\E k \in ForeignKeys : k.child = t /\ k.field = c) <=> c = "router"
    BY <1>6, KeyFacts, FipKey DEF Key, KeyFact
  <2>2. i \in DOMAIN left /\ left[i] = d[t][i]
    BY <1>3, <1>4, <1>6
  <2>3. null(i) = Null(d[t][i])
    BY <2>1, <2>2 DEF Null
  <2> HIDE DEF left, cleared, null
  <2> QED
    BY <1>2, <2>2, <2>3
<1> QED
  BY <1>1, <1>4, <1>5, <1>6 DEF Swept

(* The roots are swept of nothing. *)
LEMMA SweepRoots ==
    ASSUME NEW d, NEW t \in DOMAIN d, \A k \in ForeignKeys : k.child # t
    PROVE  DOMAIN Sweep(d)[t] = DOMAIN d[t] /\ \A i \in DOMAIN d[t] : Sweep(d)[t][i] = d[t][i]
<1>1. Orphans(d, t, "cascade") = {} /\ Orphans(d, t, "set null") = {}
  BY DEF Orphans
<1>2. t # "fips"
  BY FipKey DEF Key
<1> QED
  BY <1>1, <1>2, SweepFact DEF Swept

(* A table of whose rows none is an orphan stays as it is. *)
LEMMA SweepKept ==
    ASSUME NEW d, NEW t \in DOMAIN d, t # "fips", \A k \in ForeignKeys : k.child = t => Refers(d, k)
    PROVE  DOMAIN Sweep(d)[t] = DOMAIN d[t] /\ \A i \in DOMAIN d[t] : Sweep(d)[t][i] = d[t][i]
<1>1. Orphans(d, t, "cascade") = {}
  BY DEF Orphans, Refers
<1>2. DOMAIN Sweep(d)[t] = DOMAIN d[t]
  <2>1. DOMAIN Sweep(d)[t] = DOMAIN d[t] \ Orphans(d, t, "cascade")
    BY SweepFact
  <2> QED
    BY <1>1, <2>1
<1>3. \A i \in DOMAIN d[t] : Sweep(d)[t][i] = Swept(d, t, i)
  BY <1>2, SweepFact
<1> QED
  BY <1>2, <1>3 DEF Swept

(* A key whose parents the sweep leaves alone leads somewhere afterwards. *)
LEMMA SweepRefers ==
    ASSUME NEW d, NEW k \in ForeignKeys, k.child \in DOMAIN d, k.parent \in DOMAIN d,
           DOMAIN Sweep(d)[k.parent] = DOMAIN d[k.parent],
           k.child = "fips" => \A f \in DOMAIN d.fips : "router" \in DOMAIN d.fips[f]
    PROVE  Refers(Sweep(d), k)
<1> SUFFICES ASSUME NEW i \in DOMAIN Sweep(d)[k.child],
                    Sweep(d)[k.child][i][k.field] # None
             PROVE  Exists(Sweep(d), k, Sweep(d)[k.child][i][k.field])
  BY DEF Refers
<1>1. i \in DOMAIN d[k.child] /\ i \notin Orphans(d, k.child, "cascade")
  BY SweepFact
<1>2. CASE k.child # "fips"
  <2>0. Sweep(d)[k.child][i] = Swept(d, k.child, i)
    BY SweepFact
  <2>1. Sweep(d)[k.child][i] = d[k.child][i] /\ k.onDelete = "cascade"
    BY <1>2, <2>0, KeyFacts DEF Swept, KeyFact
  <2>2. Exists(d, k, d[k.child][i][k.field])
    BY <1>1, <2>1 DEF Orphans
  <2>3. k.child = "allocs" => /\ k.parent = "networks" /\ "networks" \in Roots
                              /\ \A x \in DOMAIN d.networks : Sweep(d).networks[x] = d.networks[x]
    <3>1. \A kk \in ForeignKeys : kk.child # "networks"
      BY KeyFacts DEF Roots, KeyFact
    <3> SUFFICES ASSUME k.child = "allocs"
                 PROVE  /\ k.parent = "networks" /\ "networks" \in Roots
                        /\ \A x \in DOMAIN d.networks : Sweep(d).networks[x] = d.networks[x]
      OBVIOUS
    <3>2. k.parent = "networks" /\ "networks" \in DOMAIN d
      BY KeyFacts DEF KeyFact
    <3>3. \A x \in DOMAIN d["networks"] : Sweep(d)["networks"][x] = d["networks"][x]
      BY <3>1, <3>2, SweepRoots
    <3> QED
      BY <3>2, <3>3 DEF Roots
  <2> QED
    BY <2>1, <2>2, <2>3 DEF Exists
<1>3. CASE k.child = "fips"
  <2>1. k.onDelete = "set null" /\ k.field = "router"
    BY <1>3, KeyFacts DEF KeyFact
  <2>2. i \notin Orphans(d, k.child, "set null")
    <3>1. ASSUME i \in Orphans(d, k.child, "set null") PROVE FALSE
      <4>1. Sweep(d)[k.child][i] = Null(d[k.child][i])
        BY <3>1, <1>3, SweepFact DEF Swept
      <4>2. "router" \in DOMAIN d[k.child][i]
        BY <1>1, <1>3
      <4> QED
        BY <4>1, <4>2, <2>1 DEF Null
    <3> QED
      BY <3>1
  <2>3. Sweep(d)[k.child][i] = d[k.child][i]
    BY <2>2, <1>3, SweepFact DEF Swept
  <2>4. Exists(d, k, d[k.child][i][k.field])
    BY <1>1, <2>1, <2>2, <2>3 DEF Orphans
  <2> QED
    BY <2>3, <2>4, <1>3 DEF Exists
<1> QED
  BY <1>2, <1>3

\* No table refers to one that the deployment does not have.
HasParents(d) == \A k \in ForeignKeys : k.child \in DOMAIN d => k.parent \in DOMAIN d

\* Floating IPs have the column that SET NULL is about.
FipsHaveRouter(d) == "fips" \in DOMAIN d => \A f \in DOMAIN d.fips : "router" \in DOMAIN d.fips[f]

(* Where rows load, floating IPs have that column. *)
LEMMA FipsOfGood ==
    ASSUME NEW d, NEW n, GoodRows(d, n)
    PROVE  FipsHaveRouter(d)
<1> SUFFICES ASSUME "fips" \in DOMAIN d, NEW f \in DOMAIN d["fips"]
             PROVE  "router" \in DOMAIN d["fips"][f]
  BY DEF FipsHaveRouter
<1>1. FipOk(d["fips"][f])
  BY DEF GoodRows, GoodRow
<1> QED
  BY <1>1 DEF FipOk, FloatingIpRows

(* Sweeping keeps rows good, finite and distinct. *)
LEMMA SweepGood ==
    ASSUME NEW d, NEW n, GoodRows(d, n), Uniques(d), Finite(d)
    PROVE  GoodRows(Sweep(d), n) /\ Uniques(Sweep(d)) /\ Finite(Sweep(d)) /\ DOMAIN Sweep(d) = DOMAIN d
<1>1. DOMAIN Sweep(d) = DOMAIN d
  BY SweepFact
<1>2. \A t \in DOMAIN d : DOMAIN Sweep(d)[t] \subseteq DOMAIN d[t]
  BY SweepFact
<1>3. ASSUME NEW t \in DOMAIN d, NEW i \in DOMAIN Sweep(d)[t]
      PROVE  GoodRow(t, i, Sweep(d)[t][i], n)
  <2>1. GoodRow(t, i, d[t][i], n)
    BY <1>2 DEF GoodRows
  <2>2. Sweep(d)[t][i] = Swept(d, t, i)
    BY SweepFact
  <2>3. ASSUME t = "fips" PROVE GoodRow(t, i, Null(d[t][i]), n)
    <3>1. FipOk(Null(d[t][i]))
      BY <2>1, <2>3, ClearedKeeps DEF GoodRow, Null
    <3> QED
      BY <3>1, <2>3 DEF GoodRow
  <2> QED
    BY <2>1, <2>2, <2>3 DEF Swept
<1>4. Finite(Sweep(d))
  BY <1>1, <1>2, FS_Subset DEF Finite
<1>5. ASSUME NEW u \in UniqueKeys, u[1] \in DOMAIN d, NEW i \in DOMAIN Sweep(d)[u[1]],
             NEW j \in DOMAIN Sweep(d)[u[1]], i # j
      PROVE  Differ(Sweep(d), u, i, j)
  <2>1. i \in DOMAIN d[u[1]] /\ j \in DOMAIN d[u[1]]
    BY <1>2, <1>5
  <2>2. Differ(d, u, i, j)
    BY <1>5, <2>1 DEF Uniques
  <2>3. u[1] # "fips"
    BY UniqueFacts
  <2>4. Sweep(d)[u[1]][i] = Swept(d, u[1], i) /\ Sweep(d)[u[1]][j] = Swept(d, u[1], j)
    BY <1>5, SweepFact
  <2>5. Sweep(d)[u[1]][i] = d[u[1]][i] /\ Sweep(d)[u[1]][j] = d[u[1]][j]
    BY <2>3, <2>4 DEF Swept
  <2> QED
    BY <2>2, <2>5 DEF Differ
<1>6. Uniques(Sweep(d))
  BY <1>1, <1>5 DEF Uniques
<1> QED
  BY <1>1, <1>3, <1>4, <1>6 DEF GoodRows

(* After one sweep what refers to a root does; when the pools did, all do. *)
LEMMA SweepRootKeys ==
    ASSUME NEW d, HasParents(d), FipsHaveRouter(d), NEW k \in ForeignKeys, k.child \in DOMAIN d, k.parent \in Roots
    PROVE  Refers(Sweep(d), k)
<1>1. \A kk \in ForeignKeys : kk.child # k.parent
  BY KeyFacts DEF KeyFact
<1>2. k.parent \in DOMAIN d
  BY DEF HasParents
<1>3. DOMAIN Sweep(d)[k.parent] = DOMAIN d[k.parent]
  BY <1>1, <1>2, SweepRoots
<1> QED
  BY <1>2, <1>3, SweepRefers DEF FipsHaveRouter

(* A sweep leaves no dangling reference, provided pools had their load   *)
(* balancer before it.                                                   *)
LEMMA SweepRefs ==
    ASSUME NEW d, HasParents(d), FipsHaveRouter(d),
           \A k \in ForeignKeys : k.child = "lbPools" /\ k.child \in DOMAIN d => Refers(d, k)
    PROVE  Refs(Sweep(d))
<1> SUFFICES ASSUME NEW k \in ForeignKeys, k.child \in DOMAIN d PROVE Refers(Sweep(d), k)
  BY SweepFact DEF Refs
<1>1. CASE k.parent \in Roots
  BY <1>1, SweepRootKeys
<1>2. CASE k.parent = "lbPools"
  <2>1. k.parent \in DOMAIN d
    BY DEF HasParents
  <2>2. DOMAIN Sweep(d)[k.parent] = DOMAIN d[k.parent]
    BY <1>2, <2>1, SweepKept
  <2> QED
    BY <2>1, <2>2, SweepRefers DEF FipsHaveRouter
<1> QED
  BY <1>1, <1>2, KeyFacts DEF KeyFact

(* Rows that are taken away leave the others as good as they were. *)
LEMMA KeepGood ==
    ASSUME NEW d, NEW n, NEW t \in DOMAIN d, NEW S, GoodRows(d, n), Uniques(d), Finite(d)
    PROVE  LET e == [d EXCEPT ![t] = Keep(@, S)]
           IN GoodRows(e, n) /\ Uniques(e) /\ Finite(e) /\ DOMAIN e = DOMAIN d
<1> DEFINE e == [d EXCEPT ![t] = Keep(@, S)]
<1>1. /\ DOMAIN e = DOMAIN d
      /\ \A x \in DOMAIN d : DOMAIN e[x] \subseteq DOMAIN d[x] /\ \A i \in DOMAIN e[x] : e[x][i] = d[x][i]
  <2>1. /\ DOMAIN e = DOMAIN d
        /\ DOMAIN e[t] = DOMAIN d[t] \cap S
        /\ \A i \in DOMAIN e[t] : e[t][i] = d[t][i]
        /\ \A x \in DOMAIN d : x # t => e[x] = d[x]
    BY DEF Keep
  <2> HIDE DEF e
  <2> QED
    BY <2>1
<1> HIDE DEF e
<1>2. GoodRows(e, n)
  BY <1>1 DEF GoodRows
<1>3. Finite(e)
  BY <1>1, FS_Subset DEF Finite
<1>4. Uniques(e)
  <2> SUFFICES ASSUME NEW u \in UniqueKeys, u[1] \in DOMAIN d, NEW i \in DOMAIN e[u[1]],
                      NEW j \in DOMAIN e[u[1]], i # j
               PROVE  Differ(e, u, i, j)
    BY <1>1 DEF Uniques
  <2>1. Differ(d, u, i, j)
    BY <1>1 DEF Uniques
  <2>2. e[u[1]][i] = d[u[1]][i] /\ e[u[1]][j] = d[u[1]][j]
    BY <1>1
  <2> QED
    BY <2>1, <2>2 DEF Differ
<1> QED
  BY <1>1, <1>2, <1>3, <1>4 DEF e

(* A delete takes what depends on the row along, and leaves good tables. *)
LEMMA DeletedGood ==
    ASSUME NEW d, NEW n, NEW t \in DOMAIN d, NEW id, HasParents(d), GoodDb(d, n)
    PROVE  GoodDb(Deleted(d, t, id), n) /\ DOMAIN Deleted(d, t, id) = DOMAIN d
<1> DEFINE d1 == [d EXCEPT ![t] = Keep(@, DOMAIN @ \ {id})]
           d2 == Sweep(d1)
           d3 == Sweep(d2)
<1>1. Deleted(d, t, id) = d3
  BY DEF Deleted
<1>2. GoodRows(d1, n) /\ Uniques(d1) /\ Finite(d1) /\ DOMAIN d1 = DOMAIN d
  <2>1. d1 = [d EXCEPT ![t] = Keep(@, DOMAIN d[t] \ {id})]
    OBVIOUS
  <2> QED
    BY <2>1, KeepGood DEF GoodDb
<1> HIDE DEF d1
<1>3. GoodRows(d2, n) /\ Uniques(d2) /\ Finite(d2) /\ DOMAIN d2 = DOMAIN d
  BY <1>2, SweepGood
<1>4. ASSUME NEW k \in ForeignKeys, k.child \in DOMAIN d2, k.parent \in Roots PROVE Refers(d2, k)
  <2>1. HasParents(d1) /\ FipsHaveRouter(d1)
    BY <1>2, FipsOfGood DEF HasParents
  <2> QED
    BY <2>1, <1>2, <1>3, <1>4, SweepRootKeys
<1> HIDE DEF d2
<1>5. HasParents(d2) /\ FipsHaveRouter(d2)
  BY <1>3, FipsOfGood DEF HasParents
<1>6. \A k \in ForeignKeys : k.child = "lbPools" /\ k.child \in DOMAIN d2 => Refers(d2, k)
  BY <1>4, KeyFacts DEF KeyFact, Roots
<1>7. Refs(d3)
  BY <1>5, <1>6, SweepRefs
<1>8. GoodRows(d3, n) /\ Uniques(d3) /\ Finite(d3) /\ DOMAIN d3 = DOMAIN d
  BY <1>3, SweepGood
<1> QED
  BY <1>1, <1>7, <1>8 DEF GoodDb

(* A row is saved. *)
LEMMA StoredFact ==
    ASSUME NEW d, NEW t \in DOMAIN d, NEW id, NEW row
    PROVE  /\ DOMAIN Stored(d, t, id, row) = DOMAIN d
           /\ \A x \in DOMAIN d : x # t => Stored(d, t, id, row)[x] = d[x]
           /\ DOMAIN Stored(d, t, id, row)[t] = DOMAIN d[t] \cup {id}
           /\ \A i \in DOMAIN d[t] : i # id => Stored(d, t, id, row)[t][i] = d[t][i]
           /\ Stored(d, t, id, row)[t][id] = IF id \in DOMAIN d[t] THEN Merged(t, row, d[t][id]) ELSE row
BY DEF Stored, Merged

(* A save of a row that loads leaves rows that load. *)
LEMMA StoredGood ==
    ASSUME NEW d, NEW n, NEW t \in DOMAIN d, NEW id, NEW row, GoodRows(d, n), Finite(d), GoodRow(t, id, row, n)
    PROVE  GoodRows(Stored(d, t, id, row), n) /\ Finite(Stored(d, t, id, row))
<1> DEFINE e == Stored(d, t, id, row)
<1>1. /\ DOMAIN e = DOMAIN d
      /\ \A x \in DOMAIN d : x # t => e[x] = d[x]
      /\ DOMAIN e[t] = DOMAIN d[t] \cup {id}
      /\ \A i \in DOMAIN d[t] : i # id => e[t][i] = d[t][i]
      /\ e[t][id] = IF id \in DOMAIN d[t] THEN Merged(t, row, d[t][id]) ELSE row
  BY StoredFact
<1>2. GoodRow(t, id, e[t][id], n)
  BY <1>1, MergeKeeps DEF GoodRows
<1> HIDE DEF e
<1>3. GoodRows(e, n)
  BY <1>1, <1>2 DEF GoodRows
<1>4. Finite(e)
  <2>1. IsFiniteSet(DOMAIN d[t] \cup {id})
    BY FS_AddElement DEF Finite
  <2> QED
    BY <1>1, <2>1 DEF Finite
<1> QED
  BY <1>3, <1>4 DEF e

(* What Accepted looks at: the references of the row, and the rows beside it. *)
LEMMA AcceptedUniques ==
    ASSUME NEW d, NEW t \in DOMAIN d, NEW id \in DOMAIN d[t], Accepted(d, t, id),
           \A u \in UniqueKeys : u[1] \in DOMAIN d =>
               \A i, j \in DOMAIN d[u[1]] : i # j /\ ~ (u[1] = t /\ id \in {i, j}) => Differ(d, u, i, j)
    PROVE  Uniques(d)
<1> SUFFICES ASSUME NEW u \in UniqueKeys, u[1] \in DOMAIN d, NEW i \in DOMAIN d[u[1]], NEW j \in DOMAIN d[u[1]], i # j
             PROVE  Differ(d, u, i, j)
  BY DEF Uniques
<1>1. CASE ~ (u[1] = t /\ id \in {i, j})
  BY <1>1
<1>2. CASE u[1] = t /\ id \in {i, j}
  <2>1. ASSUME NEW x \in DOMAIN d[t] \ {id}
        PROVE  \E c \in u[2] : ~ (d[t][x][c] = d[t][id][c] /\ d[t][id][c] # None)
    BY <1>2 DEF Accepted
  <2>2. CASE j = id
    BY <1>2, <2>1, <2>2 DEF Differ
  <2>3. CASE i = id
    <3>1. PICK c \in u[2] : ~ (d[t][j][c] = d[t][id][c] /\ d[t][id][c] # None)
      BY <1>2, <2>1, <2>3
    <3>2. d[t][i][c] # d[t][j][c] \/ d[t][j][c] = None
      BY <3>1, <2>3
    <3> QED
      BY <3>2, <1>2 DEF Differ
  <2> QED
    BY <1>2, <2>2, <2>3
<1> QED
  BY <1>1, <1>2

(* A save that is not refused. *)
LEMMA SavedGood ==
    ASSUME NEW d, NEW n, NEW t \in DOMAIN d, NEW id, NEW row, t # "networks", HasParents(d), GoodDb(d, n),
           GoodRow(t, id, row, n), Accepted(Stored(d, t, id, row), t, id)
    PROVE  GoodDb(Stored(d, t, id, row), n)
<1> DEFINE e == Stored(d, t, id, row)
<1>1. /\ DOMAIN e = DOMAIN d
      /\ \A x \in DOMAIN d : x # t => e[x] = d[x]
      /\ DOMAIN e[t] = DOMAIN d[t] \cup {id}
      /\ \A i \in DOMAIN d[t] : i # id => e[t][i] = d[t][i]
  BY StoredFact
<1>2. GoodRows(e, n) /\ Finite(e) /\ Accepted(e, t, id)
  BY StoredGood DEF GoodDb
<1> HIDE DEF e
<1>3. ASSUME NEW k \in ForeignKeys, k.child \in DOMAIN d PROVE Refers(e, k)
  <2> SUFFICES ASSUME NEW i \in DOMAIN e[k.child], e[k.child][i][k.field] # None
               PROVE  Exists(e, k, e[k.child][i][k.field])
    BY DEF Refers
  <2>1. CASE k.child = t /\ i = id
    BY <1>2, <2>1 DEF Accepted
  <2>2. CASE ~ (k.child = t /\ i = id)
    <3>1. i \in DOMAIN d[k.child] /\ e[k.child][i] = d[k.child][i]
      BY <1>1, <1>3, <2>2
    <3>2. Exists(d, k, d[k.child][i][k.field])
      BY <1>3, <3>1 DEF GoodDb, Refs, Refers
    <3>3. k.parent \in DOMAIN d
      BY <1>3 DEF HasParents
    <3>4. DOMAIN d[k.parent] \subseteq DOMAIN e[k.parent]
      BY <1>1, <3>3
    <3>5. k.child = "allocs" => e["networks"] = d["networks"]
      BY <1>1, <3>3, KeyFacts DEF KeyFact
    <3> QED
      BY <3>1, <3>2, <3>4, <3>5 DEF Exists
  <2> QED
    BY <2>1, <2>2
<1>4. ASSUME NEW u \in UniqueKeys, u[1] \in DOMAIN e, NEW i \in DOMAIN e[u[1]], NEW j \in DOMAIN e[u[1]],
             i # j, ~ (u[1] = t /\ id \in {i, j})
      PROVE  Differ(e, u, i, j)
  <2>1. i \in DOMAIN d[u[1]] /\ j \in DOMAIN d[u[1]] /\ e[u[1]][i] = d[u[1]][i] /\ e[u[1]][j] = d[u[1]][j]
    BY <1>1, <1>4
  <2>2. Differ(d, u, i, j)
    BY <1>1, <1>4, <2>1 DEF GoodDb, Uniques
  <2> QED
    BY <2>1, <2>2 DEF Differ
<1>5. Uniques(e)
  <2>1. t \in DOMAIN e /\ id \in DOMAIN e[t]
    BY <1>1
  <2> QED
    BY <1>2, <1>4, <2>1, AcceptedUniques
<1> QED
  BY <1>1, <1>2, <1>3, <1>5 DEF GoodDb, Refs, e

(* No key makes networks unique, so a save of one needs the references only. *)
LEMMA NetworkSavedGood ==
    ASSUME NEW d, NEW n, "networks" \in DOMAIN d, NEW id, NEW row, HasParents(d), GoodDb(d, n),
           GoodRow("networks", id, row, n)
    PROVE  GoodDb(Sweep(Stored(d, "networks", id, row)), n)
<1> DEFINE t == "networks"
           e == Stored(d, t, id, row)
<1>1. /\ DOMAIN e = DOMAIN d
      /\ \A x \in DOMAIN d : x # t => e[x] = d[x]
  BY StoredFact
<1>2. GoodRows(e, n) /\ Finite(e)
  BY StoredGood DEF GoodDb
<1> HIDE DEF e
<1>3. Uniques(e)
  <2>1. \A u \in UniqueKeys : u[1] # t
    BY DEF UniqueKeys
  <2> HIDE DEF t
  <2>2. ASSUME NEW u \in UniqueKeys, u[1] \in DOMAIN e PROVE e[u[1]] = d[u[1]] /\ u[1] \in DOMAIN d
    BY <1>1, <2>1, <2>2
  <2> QED
    BY <2>2 DEF Uniques, GoodDb, Differ
<1>4. ASSUME NEW k \in ForeignKeys, k.child = "lbPools", k.child \in DOMAIN e PROVE Refers(e, k)
  <2>1. k.parent = "lbs" /\ "lbs" \in DOMAIN d /\ "lbPools" \in DOMAIN d
    BY <1>1, <1>4, KeyFacts DEF KeyFact, HasParents
  <2>2. e["lbs"] = d["lbs"] /\ e["lbPools"] = d["lbPools"]
    BY <1>1, <2>1
  <2>3. Refers(d, k)
    BY <1>1, <1>4 DEF GoodDb, Refs
  <2> QED
    BY <1>4, <2>1, <2>2, <2>3 DEF Refers, Exists
<1>5. HasParents(e) /\ FipsHaveRouter(e)
  BY <1>1, <1>2, FipsOfGood DEF HasParents
<1>6. Refs(Sweep(e))
  BY <1>4, <1>5, SweepRefs
<1>7. GoodRows(Sweep(e), n) /\ Uniques(Sweep(e)) /\ Finite(Sweep(e))
  BY <1>2, <1>3, SweepGood
<1> QED
  BY <1>6, <1>7 DEF GoodDb, e

(* Rows go that nothing refers to. *)
LEMMA KeptGood ==
    ASSUME NEW d, NEW n, NEW t, NEW S, HasParents(d), GoodDb(d, n), \A k \in ForeignKeys : k.parent # t,
           NEW e, e = [d EXCEPT ![t] = Keep(@, S)]
    PROVE  GoodDb(e, n) /\ DOMAIN e = DOMAIN d
<1>1. /\ DOMAIN e = DOMAIN d
      /\ \A x \in DOMAIN d : x # t => e[x] = d[x]
      /\ t \in DOMAIN d => DOMAIN e[t] \subseteq DOMAIN d[t] /\ \A i \in DOMAIN e[t] : e[t][i] = d[t][i]
  BY DEF Keep
<1>2. GoodRows(e, n) /\ Uniques(e) /\ Finite(e)
  <2>1. CASE t \in DOMAIN d
    BY <2>1, KeepGood DEF GoodDb
  <2>2. CASE t \notin DOMAIN d
    <3>1. \A x \in DOMAIN d : e[x] = d[x]
      BY <1>1, <2>2
    <3>2. GoodRows(e, n) /\ Finite(e)
      BY <1>1, <3>1 DEF GoodDb, GoodRows, Finite
    <3>3. Uniques(e)
      BY <1>1, <3>1 DEF GoodDb, Uniques, Differ
    <3> QED
      BY <3>2, <3>3
  <2> QED
    BY <2>1, <2>2
<1>3. Refs(e)
  <2> SUFFICES ASSUME NEW k \in ForeignKeys, k.child \in DOMAIN d, NEW i \in DOMAIN e[k.child],
                      e[k.child][i][k.field] # None
               PROVE  Exists(e, k, e[k.child][i][k.field])
    BY <1>1 DEF Refs, Refers
  <2>1. i \in DOMAIN d[k.child] /\ e[k.child][i] = d[k.child][i]
    BY <1>1
  <2>2. Exists(d, k, d[k.child][i][k.field])
    BY <2>1 DEF GoodDb, Refs, Refers
  <2>3. k.parent \in DOMAIN d /\ k.parent # t
    BY DEF HasParents
  <2>4. e[k.parent] = d[k.parent] /\ (k.child = "allocs" => e["networks"] = d["networks"])
    BY <1>1, <2>3, KeyFacts DEF KeyFact
  <2> QED
    BY <2>1, <2>2, <2>4 DEF Exists
<1> QED
  BY <1>1, <1>2, <1>3 DEF GoodDb

(* Whatever a request writes, and is not refused, leaves good tables. *)
LEMMA WrittenGood ==
    ASSUME NEW d, NEW n, NEW w, HasParents(d), GoodDb(d, n), GoodWrite(w, DOMAIN d, n), ~ Refused(d, w)
    PROVE  GoodDb(Written(d, w), n) /\ DOMAIN Written(d, w) = DOMAIN d
<1>1. CASE w.kind = "delete"
  <2>1. Written(d, w) = Deleted(d, w.table, w.id) /\ w.table \in DOMAIN d
    BY <1>1 DEF Written, GoodWrite
  <2> QED
    BY <2>1, DeletedGood
<1>2. CASE w.kind = "empty"
  <2>1. w.table = "groupMembers" /\ \A k \in ForeignKeys : k.parent # w.table
    BY <1>2, KeyFacts DEF GoodWrite, KeyFact, Roots
  <2> DEFINE S == {i \in DOMAIN d[w.table] : d[w.table][i][w.row] # w.id}
  <2>2. Written(d, w) = [d EXCEPT ![w.table] = Keep(@, S)]
    BY <1>2 DEF Written
  <2> HIDE DEF S
  <2> QED
    BY <2>1, <2>2, KeptGood
<1>3. CASE w.kind = "deleteAll"
  <2>1. \A k \in ForeignKeys : k.parent # w.table
    BY <1>3, KeyFacts DEF GoodWrite, KeyFact, Roots
  <2> DEFINE S == DOMAIN d[w.table] \ w.id
  <2>2. Written(d, w) = [d EXCEPT ![w.table] = Keep(@, S)]
    BY <1>3 DEF Written
  <2> HIDE DEF S
  <2> QED
    BY <2>1, <2>2, KeptGood
<1>4. CASE w.kind \in {"save", "insert"}
  <2> DEFINE e == Stored(d, w.table, w.id, w.row)
  <2>1. w.table \in DOMAIN d /\ GoodRow(w.table, w.id, w.row, n)
    BY <1>4 DEF GoodWrite
  <2>2. Written(d, w) = IF w.table = "networks" THEN Sweep(e) ELSE e
    BY <1>4 DEF Written
  <2>3. Accepted(Written(d, w), w.table, w.id)
    BY <1>4 DEF Refused
  <2>4. DOMAIN e = DOMAIN d
    BY <2>1, StoredFact
  <2>5. CASE w.table = "networks"
    <3>1. GoodDb(Sweep(e), n)
      BY <2>1, <2>5, NetworkSavedGood
    <3>2. DOMAIN Sweep(e) = DOMAIN e
      BY SweepFact
    <3> QED
      BY <2>2, <2>4, <2>5, <3>1, <3>2
  <2>6. CASE w.table # "networks"
    <3>1. Written(d, w) = e
      BY <2>2, <2>6
    <3>2. GoodDb(e, n)
      BY <2>1, <2>3, <2>6, <3>1, SavedGood
    <3> QED
      BY <2>4, <3>1, <3>2
  <2> QED
    BY <2>5, <2>6
<1> QED
  BY <1>1, <1>2, <1>3, <1>4 DEF GoodWrite

\* work is a sequence.
IsWork(work) == work \in Seq({work[i] : i \in DOMAIN work})

\* A sequence of such writes.
GoodWork(work, tables, n) == IsWork(work) /\ \A i \in DOMAIN work : GoodWrite(work[i], tables, n)

(* A sequence of writes has a length, and is defined up to it. *)
LEMMA WorkLen ==
    ASSUME NEW work, IsWork(work)
    PROVE  Len(work) \in Nat /\ DOMAIN work = 1 .. Len(work)
BY DEF IsWork

\* The tables after the first k writes of work.
After(d, work, k) == Progress(d, work)[k].db

(* The writes of a request leave good tables one by one: each is refused *)
(* and changes nothing, or is made.                                      *)
LEMMA Stepwise ==
    ASSUME NEW d, NEW n, NEW work, HasParents(d), GoodDb(d, n), GoodWork(work, DOMAIN d, n)
    PROVE  /\ Len(work) \in Nat /\ DOMAIN work = 1 .. Len(work)
           /\ After(d, work, 0) = d /\ AllWritten(d, work) = After(d, work, Len(work))
           /\ \A k \in 0 .. Len(work) : GoodDb(After(d, work, k), n) /\ DOMAIN After(d, work, k) = DOMAIN d
           /\ \A k \in 0 .. Len(work) - 1 :
                \/ After(d, work, k + 1) = After(d, work, k)
                \/ /\ ~ Refused(After(d, work, k), work[k + 1])
                   /\ After(d, work, k + 1) = Written(After(d, work, k), work[k + 1])
<1> DEFINE p == Progress(d, work)
           Ok(at) == GoodDb(at.db, n) /\ DOMAIN at.db = DOMAIN d
           IsAt(at) == at = [db |-> at.db, over |-> at.over]
           Goes(k) == \/ p[k + 1].db = p[k].db
                      \/ ~ Refused(p[k].db, work[k + 1]) /\ p[k + 1].db = Written(p[k].db, work[k + 1])
           S == {k \in Nat : k <= Len(work) => Ok(p[k]) /\ IsAt(p[k])}
<1>1. Len(work) \in Nat /\ DOMAIN work = 1 .. Len(work)
  BY WorkLen DEF GoodWork
<1>2. p[0] = [db |-> d, over |-> FALSE] /\ \A k \in 0 .. Len(work) - 1 : p[k + 1] = OneWritten(p[k], work[k + 1])
  BY <1>1, ProgressFact
<1> HIDE DEF p
<1>3. 0 \in S
  BY <1>2
<1>4. ASSUME NEW k \in 0 .. Len(work) - 1, Ok(p[k]) /\ IsAt(p[k])
      PROVE  Ok(p[k + 1]) /\ IsAt(p[k + 1]) /\ Goes(k)
  <2>1. p[k + 1] = OneWritten(p[k], work[k + 1])
    BY <1>2
  <2>2. GoodWrite(work[k + 1], DOMAIN d, n)
    <3>1. k + 1 \in DOMAIN work
      BY <1>1
    <3> QED
      BY <3>1 DEF GoodWork
  <2>3. CASE p[k].over \/ Refused(p[k].db, work[k + 1])
    BY <1>4, <2>1, <2>3 DEF OneWritten
  <2>4. CASE ~ (p[k].over \/ Refused(p[k].db, work[k + 1]))
    <3>1. HasParents(p[k].db)
      BY <1>4 DEF HasParents
    <3>2. GoodDb(Written(p[k].db, work[k + 1]), n) /\ DOMAIN Written(p[k].db, work[k + 1]) = DOMAIN d
      BY <1>4, <2>2, <2>4, <3>1, WrittenGood
    <3>3. p[k + 1] = [p[k] EXCEPT !.db = Written(p[k].db, work[k + 1])]
      BY <2>1, <2>4 DEF OneWritten
    <3>4. p[k + 1].db = Written(p[k].db, work[k + 1]) /\ IsAt(p[k + 1])
      BY <1>4, <3>3
    <3> QED
      BY <2>4, <3>2, <3>4
  <2> QED
    BY <2>3, <2>4
<1>5. Nat \subseteq S
  <2>1. ASSUME NEW k \in Nat, k \in S PROVE k + 1 \in S
    <3> SUFFICES ASSUME k + 1 <= Len(work) PROVE Ok(p[k + 1]) /\ IsAt(p[k + 1])
      OBVIOUS
    <3>1. Ok(p[k]) /\ IsAt(p[k])
      BY <1>1, <2>1
    <3>2. k \in 0 .. Len(work) - 1
      BY <1>1
    <3> QED
      BY <1>4, <3>1, <3>2
  <2> HIDE DEF S
  <2> QED
    BY <1>3, <2>1, NatSetInduction
<1>6. \A k \in 0 .. Len(work) : Ok(p[k]) /\ IsAt(p[k])
  BY <1>1, <1>5
<1>7. ASSUME NEW k \in 0 .. Len(work) - 1 PROVE Goes(k)
  <2>1. Ok(p[k]) /\ IsAt(p[k])
    <3>1. k \in 0 .. Len(work)
      BY <1>1
    <3> QED
      BY <1>6, <3>1
  <2> QED
    BY <1>4, <2>1
<1>8. p[0].db = d
  BY <1>2
<1> QED
  BY <1>1, <1>6, <1>7, <1>8 DEF AllWritten, After, p

(* All the writes of a request that nobody interrupts leave good tables. *)
LEMMA AllWrittenGood ==
    ASSUME NEW d, NEW n, NEW work, HasParents(d), GoodDb(d, n), GoodWork(work, DOMAIN d, n)
    PROVE  GoodDb(AllWritten(d, work), n) /\ DOMAIN AllWritten(d, work) = DOMAIN d
<1>1. Len(work) \in 0 .. Len(work)
  BY Stepwise
<1> QED
  BY <1>1, Stepwise

------------------------------------------------------------------------------
(* Work, its head and its tail. *)

(* What a request has left when its first write is made. *)
LEMMA TailFact ==
    ASSUME NEW work, IsWork(work), work # <<>>
    PROVE  /\ Len(work) \in Nat \ {0} /\ DOMAIN work = 1 .. Len(work) /\ Head(work) = work[1]
           /\ IsWork(Tail(work)) /\ DOMAIN Tail(work) = 1 .. Len(work) - 1
           /\ \A i \in DOMAIN Tail(work) : i + 1 \in DOMAIN work /\ Tail(work)[i] = work[i + 1]
<1> DEFINE S == {work[i] : i \in DOMAIN work}
           T == {Tail(work)[i] : i \in DOMAIN Tail(work)}
<1>1. work \in Seq(S)
  BY DEF IsWork
<1> HIDE DEF S
<1>2. Len(work) \in Nat \ {0} /\ DOMAIN work = 1 .. Len(work) /\ Head(work) = work[1]
  BY <1>1
<1>3. Len(Tail(work)) = Len(work) - 1 /\ \A i \in 1 .. Len(work) - 1 : Tail(work)[i] = work[i + 1]
  BY <1>1
<1>4. Tail(work) \in Seq(S)
  BY <1>1
<1>5. DOMAIN Tail(work) = 1 .. Len(work) - 1
  BY <1>3, <1>4
<1>6. Tail(work) \in Seq(T)
  <2>1. \A i \in 1 .. Len(work) - 1 : Tail(work)[i] \in T
    BY <1>5
  <2> HIDE DEF T
  <2> DEFINE rest == Tail(work)
             n == Len(work) - 1
  <2>2. rest \in Seq(S) /\ Len(rest) = n /\ n \in Nat
    BY <1>2, <1>3, <1>4
  <2> HIDE DEF rest, n
  <2>3. rest = [i \in 1 .. Len(rest) |-> rest[i]]
    BY <2>2
  <2>4. Tail(work) \in [1 .. n -> T]
    BY <2>1, <2>2, <2>3 DEF rest, n
  <2> QED
    BY <2>2, <2>4, SeqDef
<1>7. IsWork(Tail(work))
  BY <1>6 DEF IsWork
<1> HIDE DEF T
<1>8. \A i \in 1 .. Len(work) - 1 : i + 1 \in 1 .. Len(work)
  BY <1>2
<1> QED
  BY <1>2, <1>3, <1>5, <1>7, <1>8

(* The work of one write. *)
LEMMA OneFact ==
    ASSUME NEW w
    PROVE  /\ IsWork(<<w>>) /\ DOMAIN <<w>> = {1} /\ <<w>>[1] = w
           /\ <<w>> # <<>> /\ Tail(<<w>>) = <<>> /\ Head(<<w>>) = w
<1>1. DOMAIN <<w>> = {1} /\ <<w>>[1] = w
  OBVIOUS
<1>2. {<<w>>[i] : i \in DOMAIN <<w>>} = {w}
  BY <1>1
<1>3. <<w>> \in Seq({w})
  OBVIOUS
<1> QED
  BY <1>1, <1>2, <1>3 DEF IsWork

(* A function of the numbers up to n is work. *)
LEMMA ListFact ==
    ASSUME NEW n \in Nat, NEW f, DOMAIN f = 1 .. n, f = [i \in DOMAIN f |-> f[i]]
    PROVE  IsWork(f) /\ Len(f) = n
<1> DEFINE S == {f[i] : i \in DOMAIN f}
<1>1. \A i \in 1 .. n : f[i] \in S
  OBVIOUS
<1>2. f \in [1 .. n -> S]
  <2> HIDE DEF S
  <2> QED
    BY <1>1
<1>3. f \in Seq(S)
  <2> HIDE DEF S
  <2> QED
    BY <1>2
<1>4. Len(f) = n
  <2> HIDE DEF S
  <2> QED
    BY <1>2
<1> QED
  BY <1>3, <1>4 DEF IsWork

------------------------------------------------------------------------------
(* The least and the greatest of a set of numbers. *)

(* The least of a set of numbers is one of it. *)
LEMMA MinFact ==
    ASSUME NEW S, S \subseteq Nat, S # {}
    PROVE  Min(S) \in S /\ \A y \in S : Min(S) <= y
<1>1. PICK x \in S : \A y \in S : ~ (<<y, x>> \in OpToRel(<, Nat))
  BY NatLessThanWellFounded, WFMin
<1>2. ASSUME NEW y \in S PROVE x <= y
  <2>1. x \in Nat /\ y \in Nat
    OBVIOUS
  <2>2. ~ (<<y, x>> \in {p \in Nat \X Nat : p[1] < p[2]})
    BY <1>1 DEF OpToRel
  <2>3. ~ (y < x)
    BY <2>1, <2>2
  <2> QED
    BY <2>1, <2>3
<1> QED
  BY <1>2 DEF Min

(* The greatest of a bounded set of numbers is one of it. *)
LEMMA MaxFact ==
    ASSUME NEW n \in Nat, NEW S, S \subseteq 0 .. n, S # {}
    PROVE  Max(S) \in S /\ \A y \in S : y <= Max(S)
<1> DEFINE T == {n - x : x \in S}
<1>1. T \subseteq Nat /\ T # {}
  <2>1. \A x \in S : x \in 0 .. n /\ n - x \in Nat
    OBVIOUS
  <2> QED
    BY <2>1
<1>2. Min(T) \in T /\ \A y \in T : Min(T) <= y
  BY <1>1, MinFact
<1>3. PICK x \in S : Min(T) = n - x
  BY <1>2
<1>4. \A y \in S : x >= y
  <2> SUFFICES ASSUME NEW y \in S PROVE x >= y
    OBVIOUS
  <2>1. n - y \in T
    OBVIOUS
  <2>2. n - x <= n - y
    BY <1>2, <1>3, <2>1
  <2>3. x \in Nat /\ y \in Nat
    OBVIOUS
  <2> HIDE DEF T
  <2> QED
    BY <2>2, <2>3
<1>5. \E z \in S : \A y \in S : z >= y
  BY <1>4
<1>6. Max(S) \in S /\ \A y \in S : Max(S) >= y
  BY <1>5 DEF Max
<1> QED
  BY <1>6

------------------------------------------------------------------------------
(* What a request knows when it decides on a write, of the tables it read. *)

\* A subnet that gives no pools and reserves no range.
Plain(s) == s.pools = <<>> /\ s.reserved = {}

\* The subnet s has room for the addresses that network n has given out.
Encloses(d, n, s) ==
    "allocs" \in DOMAIN d => \A a \in DOMAIN d.allocs : d.allocs[a].subnet = n => Inside(d.allocs[a].ip, s.cidr)

\* The policy saved is the project's own, or is a new global one where there is
\* none.
SeenRetention(w, d) ==
    IF w.id \in DOMAIN d.retention THEN d.retention[w.id].project = w.row.project
    ELSE w.row.project = None => \A j \in DOMAIN d.retention : d.retention[j].project # None

\* The version of the snapshot saved is none of its project's.
SeenSnapshots(w, d) ==
    /\ w.id \notin DOMAIN d.snapshots
    /\ \A j \in DOMAIN d.snapshots :
         d.snapshots[j].project = w.row.project => d.snapshots[j].version # w.row.version

\* The key of the peer saved is none of its tunnel's.
SeenKeys(w, d) ==
    IF w.id \in DOMAIN d.vpnPeers THEN w.row = d.vpnPeers[w.id]
    ELSE \A j \in DOMAIN d.vpnPeers : d.vpnPeers[j].tunnel = w.row.tunnel => d.vpnPeers[j].key # w.row.key

\* The subnet saved is plain, or that of the network before, or has room for
\* its addresses.
SeenNetworks(reads, w, d) ==
    \/ w.row.subnet = None
    \/ Plain(w.row.subnet)
    \/ w.id \in DOMAIN d.networks /\ w.row.subnet = d.networks[w.id].subnet
    \/ "allocs" \in reads /\ Encloses(d, w.id, w.row.subnet)

\* The address saved is inside the subnet of its network.
SeenSubnet(w, d) ==
    /\ w.row.subnet \in DOMAIN d.networks
    /\ d.networks[w.row.subnet].subnet # None
    /\ Inside(w.row.ip, d.networks[w.row.subnet].subnet.cidr)

\* The token saved is revoked, unless the one that is there is not.
SeenToken(w, d) == w.row.revoked \/ (w.id \in DOMAIN d.tokens => ~ d.tokens[w.id].revoked)

\* The schedule saved has no new run on record while the one that is there is
\* paused.
SeenSchedule(w, d) ==
    w.id \in DOMAIN d.schedules /\ w.row.ran > d.schedules[w.id].ran => d.schedules[w.id].status # "paused"

\* What a request that saves w has made sure of in the tables it read.
Seen(reads, w, d) ==
    /\ w.table = "retention" => "retention" \in reads /\ SeenRetention(w, d)
    /\ w.table = "snapshots" => "snapshots" \in reads /\ SeenSnapshots(w, d)
    /\ w.table = "vpnPeers" => "vpnPeers" \in reads /\ SeenKeys(w, d)
    /\ w.table = "networks" => "networks" \in reads /\ SeenNetworks(reads, w, d)
    /\ w.table = "allocs" => "networks" \in reads /\ SeenSubnet(w, d)
    /\ w.table = "tokens" /\ "tokens" \in reads => SeenToken(w, d)
    /\ w.table = "schedules" /\ "schedules" \in reads => SeenSchedule(w, d)

\* It saves a row under an id that it has drawn.
Creates(reads, w) ==
    /\ w.kind = "save"
    /\ \/ w.table = "accounts" /\ ~ w.row.disabled
       \/ w.table = "tokens" /\ ~ w.row.revoked /\ ("tokens" \notin reads \/ ~ w.row.used)
       \/ w.table = "schedules" /\ "schedules" \notin reads

\* The id of w is one that no row of its table has.
Drawn(w) == w.id \in FreshIds(w.table, {w.id})

\* Tables whose rows are told apart by ids that requests draw.
Guarded == {"accounts", "tokens", "schedules"}

\* Network n is there and has a subnet.
HasSubnet(d, n) == n \in DOMAIN d.networks /\ d.networks[n].subnet # None

\* The network saved is there, or its id is not one of the bundle's.
KnownOrNew(w, d, b) ==
    "networks" \in DOMAIN b /\ w.id \in DOMAIN b.networks => w.id \in DOMAIN d.networks

\* The save of w takes a network's subnet away.
Clears(w, d) == w.row.subnet = None /\ HasSubnet(d, w.id)

\* What a write is when a request decides on it.
LawfulWrite(reads, w) ==
    /\ GoodWrite(w, DOMAIN db, asked + 1)
    /\ w.kind = "save" => Seen(reads, w, db)
    /\ w.kind = "save" /\ w.table = "networks" => KnownOrNew(w, db, Bundle) /\ ~ Clears(w, db)
    /\ w.kind = "save" /\ w.table \in Guarded =>
         Drawn(w) \/ w.id \in Ids(w.table)
    /\ Creates(reads, w) => Drawn(w)
    /\ w.kind = "delete" => w.table \notin {"accounts", "tokens", "networks", "audit"}
    /\ w.kind = "insert" =>
         /\ Keeps("allocs") /\ Keeps("accounts")
         /\ w.table \in {"networks", "nodes", "accounts", "allocs"}
         /\ w.table \in DOMAIN Bundle /\ w.id \in DOMAIN Bundle[w.table]
    /\ w.kind = "deleteAll" => w.table = "operations"

\* Several saves are of different rows.
Apart(work) ==
    \A i, k \in DOMAIN work : i # k /\ work[k].kind = "save" =>
        /\ work[i].kind = "save" /\ work[i].table \in Guarded /\ work[k].table \in Guarded
        /\ work[i].table = work[k].table => work[i].table = "schedules" /\ work[i].id # work[k].id

\* An address is inserted after its network.
InOrder(work) ==
    \A k \in DOMAIN work : work[k].kind = "insert" /\ work[k].table = "allocs" =>
        \E j \in DOMAIN work :
            /\ j < k /\ work[j].kind = "insert" /\ work[j].table = "networks"
            /\ work[j].id = work[k].row.subnet /\ work[j].row.subnet # None

\* What the writes of a request are when it decides on them.
LawfulWork(reads, work) ==
    /\ IsWork(work) /\ Apart(work) /\ InOrder(work)
    /\ \A k \in DOMAIN work : LawfulWrite(reads, work[k])

\* A request that decides on lawful writes is handled.
Requested == \E reads, work : Handles(reads, work) /\ LawfulWork(reads, work)

------------------------------------------------------------------------------
(* The invariant all others rest on: tables, requests and files are good.  *)

\* A suspended request has something left to write.
GoodRequest(r, tables, n) ==
    /\ r = [reads |-> r.reads, work |-> r.work, overtaken |-> r.overtaken]
    /\ r.work # <<>> /\ GoodWork(r.work, tables, n)

\* All suspended requests have.
GoodRequests(rs, tables, n) ==
    /\ rs = [q \in Requests |-> rs[q]]
    /\ \A q \in Requests : rs[q] # Idle => GoodRequest(rs[q], tables, n)

\* What export_bundle has read so far: it goes through its tables in this
\* order.
Exported ==
    {{}, {"networks"}, {"networks", "nodes"}, {"networks", "nodes", "accounts"},
     {"networks", "nodes", "accounts", "allocs"}}

\* A bundle has rows that load, and addresses whose network is in it.
GoodBundle(b, n) ==
    /\ DOMAIN b \in Exported
    /\ \A t \in DOMAIN b : IsFiniteSet(DOMAIN b[t]) /\ \A i \in DOMAIN b[t] : GoodRow(t, i, b[t][i], n)
    /\ "allocs" \in DOMAIN b =>
         \A a \in DOMAIN b.allocs :
            /\ b.allocs[a].subnet \in DOMAIN b.networks /\ b.networks[b.allocs[a].subnet].subnet # None

\* Tables that the constraints let in, requests that ask for rows that load, a
\* bundle that can be put back.
GoodState ==
    /\ asked \in 0 .. MaxAsked
    /\ DeploymentOk(DOMAIN db)
    /\ GoodDb(db, asked)
    /\ GoodRequests(req, DOMAIN db, asked)
    /\ files = [bundle |-> files.bundle, archive |-> files.archive, backend |-> files.backend]
    /\ GoodBundle(files.bundle, asked)

------------------------------------------------------------------------------
(* And the others: what has been drawn is nobody else's, what has been seen *)
(* is still so, a bundle is put back in order, a sweep deletes what it kept. *)

\* What a request of rs is about to create nobody has, in the tables or in the
\* bundle, and nobody else is about to write.
OwnIn(rs, d, b) ==
    \A q \in Requests : rs[q] # Idle => \A k \in DOMAIN rs[q].work :
        LET w == rs[q].work[k] IN
        Creates(rs[q].reads, w) =>
            /\ w.table \in DOMAIN d => w.id \notin DOMAIN d[w.table]
            /\ w.table \in DOMAIN b => w.id \notin DOMAIN b[w.table]
            /\ \A p \in Requests : rs[p] # Idle => \A j \in DOMAIN rs[p].work :
                 <<p, j>> # <<q, k>> /\ rs[p].work[j].kind \in {"save", "insert"} =>
                    ~ (rs[p].work[j].table = w.table /\ rs[p].work[j].id = w.id)

DrawnIsOwn == OwnIn(req, db, Bundle)

\* There is one retention policy that is no project's.
OneGlobalPolicy(d) ==
    "retention" \in DOMAIN d =>
        \A i, j \in DOMAIN d.retention : d.retention[i].project = None /\ d.retention[j].project = None => i = j

\* Snapshots of a project have versions of their own.
VersionsDiffer(d) ==
    "snapshots" \in DOMAIN d =>
        \A i, j \in DOMAIN d.snapshots :
            d.snapshots[i].project = d.snapshots[j].project /\ d.snapshots[i].version = d.snapshots[j].version
                  => i = j

\* Peers of a tunnel have keys of their own.
KeysDiffer(d) ==
    "vpnPeers" \in DOMAIN d =>
        \A i, j \in DOMAIN d.vpnPeers :
            d.vpnPeers[i].tunnel = d.vpnPeers[j].tunnel /\ d.vpnPeers[i].key = d.vpnPeers[j].key => i = j

\* Address a comes with the bundle.
Restored(b, a) == "allocs" \in DOMAIN b /\ a \in DOMAIN b.allocs

\* An address is inside the subnet of its network, unless that was replaced
\* unchecked or the address restored.
NotStranded(d, b) ==
    "allocs" \in DOMAIN d =>
        \A a \in DOMAIN d.allocs :
            LET s == d.networks[d.allocs[a].subnet].subnet
            IN Inside(d.allocs[a].ip, s.cidr) \/ Plain(s) \/ Restored(b, a)

\* Of tables that no late save has touched.
Taken(d, b) == OneGlobalPolicy(d) /\ VersionsDiffer(d) /\ KeysDiffer(d) /\ NotStranded(d, b)

\* What a request of rs has seen in the tables it read, nobody having changed them.
SeenIn(rs, d) ==
    \A q \in Requests : rs[q] # Idle /\ ~ rs[q].overtaken =>
        \A k \in DOMAIN rs[q].work : rs[q].work[k].kind = "save" => Seen(rs[q].reads, rs[q].work[k], d)

\* Until a late save, nothing is taken twice and who was not overtaken has seen
\* what still is so.
SeenIsSo == late \/ (Taken(db, Bundle) /\ SeenIn(req, db))

\* The saves of every suspended request are of different rows.
ApartIn(rs) == \A q \in Requests : rs[q] # Idle => Apart(rs[q].work)

AllApart == ApartIn(req)

\* The write w leaves network n without a subnet.
Empties(w, n) == w.kind = "save" /\ w.table = "networks" /\ w.id = n /\ w.row.subnet = None

\* Network n has a subnet, and no request of rs is about to save it without.
Settled(rs, d, n) ==
    /\ HasSubnet(d, n)
    /\ \A q \in Requests : rs[q] # Idle => \A k \in DOMAIN rs[q].work : ~ Empties(rs[q].work[k], n)

\* The network of an address about to be inserted is there to stay, or is inserted
\* before.  It is then nobody's but the bundle's: a network that somebody saves is
\* there or is new.
InPlace(rs, work, k, d, b) ==
    LET w == work[k] IN
    /\ w.kind = "insert" /\ w.table = "allocs" =>
         \/ Settled(rs, d, w.row.subnet)
         \/ \E j \in DOMAIN work :
              /\ j < k /\ work[j].kind = "insert" /\ work[j].table = "networks"
              /\ work[j].id = w.row.subnet /\ work[j].row.subnet # None
    /\ w.kind = "insert" =>
         /\ {"allocs", "accounts"} \subseteq DOMAIN d /\ w.table \in {"networks", "nodes", "accounts", "allocs"}
         /\ w.table \in DOMAIN b /\ w.id \in DOMAIN b[w.table]
    /\ w.kind = "save" /\ w.table = "networks" => KnownOrNew(w, d, b)
    /\ w.kind = "delete" => w.table \notin {"accounts", "tokens", "networks", "audit"}

\* So it is for every write of every suspended request.
RestoredIn(rs, d, b) ==
    \A q \in Requests : rs[q] # Idle => \A k \in DOMAIN rs[q].work : InPlace(rs, rs[q].work, k, d, b)

RestoredInOrder == RestoredIn(req, db, Bundle)

\* What a sweep of rs is about to delete is in the archive, where that is a file.
SweptIn(rs, archive) ==
    \A q \in Requests : rs[q] # Idle => \A k \in DOMAIN rs[q].work :
        rs[q].work[k].kind = "deleteAll" /\ rs[q].work[k].table = "audit" => rs[q].work[k].id \subseteq archive

SweptIsArchived == files.backend = "file" => SweptIn(req, files.archive)

------------------------------------------------------------------------------
(* Every request decides on lawful work. *)

(* A row that a handler has loaded is there, and is one of its table. *)
LEMMA RowThere ==
    ASSUME GoodState, NEW t, NEW i \in Ids(t)
    PROVE  /\ t \in DOMAIN db /\ Rows(t) = db[t] /\ i \in DOMAIN db[t]
           /\ GoodRow(t, i, Rows(t)[i], asked) /\ GoodRow(t, i, Rows(t)[i], asked + 1)
<1>1. t \in DOMAIN db /\ Rows(t) = db[t] /\ i \in DOMAIN db[t]
  BY DEF Ids, Rows
<1>2. GoodRow(t, i, db[t][i], asked)
  BY <1>1 DEF GoodState, GoodDb, GoodRows
<1>3. asked \in Nat /\ asked + 1 \in Nat /\ asked <= asked + 1
  BY DEF GoodState
<1>4. GoodRow(t, i, db[t][i], asked + 1)
  BY <1>2, <1>3, GoodRowLater
<1> QED
  BY <1>1, <1>2, <1>4

(* An id that is drawn is nobody's. *)
LEMMA FreshFact ==
    ASSUME NEW t, NEW all, NEW i \in FreshIds(t, all)
    PROVE  i \in all /\ i \notin Ids(t) /\ i \in FreshIds(t, {i})
BY DEF FreshIds

(* A handler that decides on one lawful write decides on lawful work. *)
LEMMA WriteRequested ==
    ASSUME NEW reads, NEW w, LawfulWrite(reads, w), w.kind # "insert", Handles(reads, <<w>>)
    PROVE  Requested
<1>1. IsWork(<<w>>) /\ DOMAIN <<w>> = {1} /\ <<w>>[1] = w
  BY OneFact
<1> DEFINE work == <<w>>
<1> HIDE DEF work
<1>2. Apart(work) /\ InOrder(work) /\ \A k \in DOMAIN work : LawfulWrite(reads, work[k])
  BY <1>1 DEF Apart, InOrder, work
<1>3. LawfulWork(reads, work)
  BY <1>1, <1>2 DEF LawfulWork, work
<1> QED
  BY <1>3, Zenon DEF Requested, work

\* Tables of whose rows more is asked than that they load.
Special == Guarded \cup {"networks", "allocs", "retention", "snapshots", "vpnPeers"}

(* So does one that saves a row of any other table. *)
LEMMA PutRequested ==
    ASSUME NEW reads, NEW t, NEW id, NEW row, t \in DOMAIN db, t \notin Special,
           GoodRow(t, id, row, asked + 1), Handles(reads, <<Put(t, id, row)>>)
    PROVE  Requested
<1> DEFINE w == Put(t, id, row)
<1>1. w.kind = "save" /\ w.table = t /\ w.id = id /\ w.row = row
  BY DEF Put, Write
<1> HIDE DEF w
<1>2. GoodWrite(w, DOMAIN db, asked + 1)
  BY <1>1 DEF GoodWrite
<1>3. LawfulWrite(reads, w)
  BY <1>1, <1>2 DEF LawfulWrite, Special, Guarded, Seen, Creates
<1> QED
  BY <1>1, <1>3, WriteRequested DEF w

(* So does one that deletes a row of a table that requests delete from. *)
LEMMA DropRequested ==
    ASSUME NEW reads, NEW t, NEW id, t \in DOMAIN db, t \notin {"accounts", "tokens", "networks", "audit"},
           Handles(reads, <<Drop(t, id)>>)
    PROVE  Requested
<1> DEFINE w == Drop(t, id)
<1>1. w.kind = "delete" /\ w.table = t
  BY DEF Drop, Write
<1> HIDE DEF w
<1>2. GoodWrite(w, DOMAIN db, asked + 1)
  BY <1>1 DEF GoodWrite
<1>3. LawfulWrite(reads, w)
  BY <1>1, <1>2 DEF LawfulWrite, Creates
<1> QED
  BY <1>1, <1>3, WriteRequested DEF w

(* So does one whose writes are lawful together. *)
LEMMA WorkRequested ==
    ASSUME NEW reads, NEW work, LawfulWork(reads, work), Handles(reads, work)
    PROVE  Requested
BY Zenon DEF Requested

(* The handlers of ports, groups, pools, trunks and QoS policies (N1)    *)
(* save rows that load.                                                  *)
LEMMA PortsRequested == ASSUME GoodState, PortsNext PROVE Requested
<1> USE DEF Guarded, Special
<1>1. CASE CreateLogicalPort
  <2>1. PICK p \in FreshIds("ports", PortIds), n \in Ids("nodes"), w \in Ids("networks"), v \in Vifs \cup {None} :
          "ports" \in DOMAIN db /\ Handles({"nodes", "networks"}, <<Put("ports", p, NewPort(n, w, v))>>)
    BY <1>1 DEF CreateLogicalPort
  <2>2. n # None
    BY RowThere DEF GoodRow
  <2>3. w # None
    BY RowThere, IpamAssumption DEF GoodRow, NetworkOk
  <2>4. GoodRow("ports", p, NewPort(n, w, v), asked + 1)
    BY <2>2, <2>3 DEF GoodRow, PortOk, NewPort
  <2> QED
    BY <2>1, <2>4, PutRequested
<1>2. ASSUME NEW p \in Ids("ports") PROVE "ports" \in DOMAIN db /\ PortOk(Port(p))
  BY <1>2, RowThere DEF GoodRow, Port
<1>3. CASE UpdateLogicalPort
  <2>1. PICK p \in Ids("ports") : Handles({"ports"}, <<Put("ports", p, Port(p))>>)
    BY <1>3 DEF UpdateLogicalPort, SavesPort
  <2>2. GoodRow("ports", p, Port(p), asked + 1)
    BY <1>2 DEF GoodRow
  <2> QED
    BY <2>1, <2>2, <1>2, PutRequested
<1>4. CASE AttachLogicalPort
  <2>1. PICK p \in Ids("ports"), v \in Vifs \cup {None} : Handles({"ports"}, <<Put("ports", p, Attached(p, v))>>)
    BY <1>4 DEF AttachLogicalPort, SavesPort
  <2>2. PortOk(Attached(p, v))
    BY <1>2 DEF PortOk, Attached
  <2>3. GoodRow("ports", p, Attached(p, v), asked + 1)
    BY <2>2 DEF GoodRow
  <2> QED
    BY <2>1, <2>3, <1>2, PutRequested
<1>5. CASE DetachLogicalPort
  <2>1. PICK p \in Ids("ports") : Handles({"ports"}, <<Put("ports", p, Detached(p))>>)
    BY <1>5 DEF DetachLogicalPort, SavesPort
  <2>2. PortOk(Detached(p))
    BY <1>2 DEF PortOk, Detached
  <2>3. GoodRow("ports", p, Detached(p), asked + 1)
    BY <2>2 DEF GoodRow
  <2> QED
    BY <2>1, <2>3, <1>2, PutRequested
<1>6. CASE DeleteLogicalPort
  <2>1. PICK p \in Ids("ports") : Handles({"ports"}, <<Drop("ports", p)>>)
    BY <1>6 DEF DeleteLogicalPort
  <2> QED
    BY <2>1, <1>2, DropRequested
<1>7. CASE NodeDeleted
  <2>1. PICK n \in Ids("nodes") : Handles({"nodes"}, <<Drop("nodes", n)>>)
    BY <1>7 DEF NodeDeleted
  <2> QED
    BY <2>1, RowThere, DropRequested
<1>8. CASE CreateSecurityGroup
  <2>1. PICK g \in FreshIds("groups", Groups) :
          "groups" \in DOMAIN db /\ Handles({}, <<Put("groups", g, NewGroup(0))>>)
    BY <1>8 DEF CreateSecurityGroup
  <2>2. GoodRow("groups", g, NewGroup(0), asked + 1)
    <3>1. g \in Groups
      BY FreshFact
    <3> QED
      BY <3>1 DEF GoodRow, GroupOk, SecurityGroupRows, NewGroup
  <2> QED
    BY <2>1, <2>2, PutRequested
<1>9. CASE UpdateSecurityGroup
  <2>1. PICK g \in Ids("groups"), name \in 0 .. 1 : Handles({"groups"}, <<Put("groups", g, NewGroup(name))>>)
    BY <1>9 DEF UpdateSecurityGroup
  <2>2. "groups" \in DOMAIN db /\ g \in Groups
    BY RowThere DEF GoodRow, GroupOk
  <2>3. GoodRow("groups", g, NewGroup(name), asked + 1)
    BY <2>2 DEF GoodRow, GroupOk, SecurityGroupRows, NewGroup
  <2> QED
    BY <2>1, <2>2, <2>3, PutRequested
<1>10. CASE DeleteSecurityGroup
  <2>1. PICK g \in Ids("groups") :
          Handles({"groups"}, <<Empty("groupMembers", "group", g), Drop("groups", g)>>)
    BY <1>10 DEF DeleteSecurityGroup
  <2> DEFINE work == <<Empty("groupMembers", "group", g), Drop("groups", g)>>
  <2>2. DOMAIN work = 1 .. 2 /\ work = [i \in DOMAIN work |-> work[i]]
        /\ work[1] = Empty("groupMembers", "group", g) /\ work[2] = Drop("groups", g)
    OBVIOUS
  <2> HIDE DEF work
  <2>3. IsWork(work)
    BY <2>2, ListFact
  <2>4. work[1].kind = "empty" /\ work[1].table = "groupMembers" /\ work[2].kind = "delete"
              /\ work[2].table = "groups"
    BY <2>2 DEF Empty, Drop, Write
  <2>5. "groups" \in DOMAIN db
    BY RowThere
  <2>6. LawfulWrite({"groups"}, work[1]) /\ LawfulWrite({"groups"}, work[2])
    BY <2>4, <2>5 DEF LawfulWrite, GoodWrite, Creates
  <2>7. \A k \in DOMAIN work : k = 1 \/ k = 2
    BY <2>2
  <2>8. Apart(work) /\ InOrder(work)
    BY <2>4, <2>7 DEF Apart, InOrder
  <2>9. LawfulWork({"groups"}, work)
    BY <2>3, <2>6, <2>7, <2>8 DEF LawfulWork
  <2> QED
    BY <2>1, <2>9, WorkRequested DEF work
<1>11. CASE AddSecurityGroupMember
  <2>1. PICK g \in Ids("groups"), v \in MemberValues :
          Handles({"groups"}, <<Put("groupMembers", <<g, v>>, NewGroupMember(g, v))>>)
    BY <1>11 DEF AddSecurityGroupMember
  <2>2. "groups" \in DOMAIN db /\ g \in Groups
    BY RowThere DEF GoodRow, GroupOk
  <2>3. "groupMembers" \in DOMAIN db
    BY <2>2 DEF GoodState, DeploymentOk
  <2>4. GoodRow("groupMembers", <<g, v>>, NewGroupMember(g, v), asked + 1)
    BY <2>2, PortsAssumption DEF GoodRow, GroupMemberOk, NewGroupMember
  <2> QED
    BY <2>1, <2>3, <2>4, PutRequested
<1>12. CASE RemoveSecurityGroupMember
  <2>1. PICK g \in Ids("groups"), v \in MemberValues : Handles({"groups"}, <<Drop("groupMembers", <<g, v>>)>>)
    BY <1>12 DEF RemoveSecurityGroupMember
  <2>2. "groupMembers" \in DOMAIN db
    BY RowThere DEF GoodState, DeploymentOk
  <2> QED
    BY <2>1, <2>2, DropRequested
<1>13. CASE CreateAddressPool
  <2>1. PICK a \in FreshIds("addressPools", AddressPools), c \in Versions :
          "addressPools" \in DOMAIN db /\ Handles({}, <<Put("addressPools", a, NewPool(c))>>)
    BY <1>13 DEF CreateAddressPool
  <2>2. GoodRow("addressPools", a, NewPool(c), asked + 1)
    BY DEF GoodRow, AddressPoolOk, AddressPoolRows, NewPool
  <2> QED
    BY <2>1, <2>2, PutRequested
<1>14. CASE UpdateAddressPool
  <2>1. PICK a \in Ids("addressPools"), c \in Versions :
          Handles({"addressPools"}, <<Put("addressPools", a, NewPool(c))>>)
    BY <1>14 DEF UpdateAddressPool
  <2>2. GoodRow("addressPools", a, NewPool(c), asked + 1)
    BY DEF GoodRow, AddressPoolOk, AddressPoolRows, NewPool
  <2> QED
    BY <2>1, <2>2, RowThere, PutRequested
<1>15. CASE DeleteAddressPool
  <2>1. PICK a \in Ids("addressPools") : Handles({"addressPools"}, <<Drop("addressPools", a)>>)
    BY <1>15 DEF DeleteAddressPool
  <2> QED
    BY <2>1, RowThere, DropRequested
<1>16. CASE CreateQosPolicy
  <2>1. PICK o \in FreshIds("qos", QosPolicies), r \in Versions \cup {None} :
          "qos" \in DOMAIN db /\ RateValid(r) /\ Handles({}, <<Put("qos", o, [rate |-> r])>>)
    BY <1>16 DEF CreateQosPolicy
  <2>2. GoodRow("qos", o, [rate |-> r], asked + 1)
    BY <2>1 DEF GoodRow, QosOk, QosPolicyRows
  <2> QED
    BY <2>1, <2>2, PutRequested
<1>17. CASE UpdateQosPolicy
  <2>1. PICK o \in Ids("qos"), r \in Versions \cup {None} :
          LET rate == IF r = None THEN QosPolicy(o).rate ELSE r
          IN RateValid(rate) /\ Handles({"qos"}, <<Put("qos", o, [rate |-> rate])>>)
    BY <1>17 DEF UpdateQosPolicy
  <2> DEFINE rate == IF r = None THEN QosPolicy(o).rate ELSE r
  <2>2. "qos" \in DOMAIN db /\ QosOk(QosPolicy(o))
    BY RowThere DEF GoodRow, QosPolicy
  <2>3. rate \in Versions \cup {None}
    BY <2>2 DEF QosOk, QosPolicyRows
  <2>4. GoodRow("qos", o, [rate |-> rate], asked + 1)
    BY <2>1, <2>3 DEF GoodRow, QosOk, QosPolicyRows
  <2> QED
    BY <2>1, <2>2, <2>4, PutRequested
<1>18. CASE DeleteQosPolicy
  <2>1. PICK o \in Ids("qos") : Handles({"qos"}, <<Drop("qos", o)>>)
    BY <1>18 DEF DeleteQosPolicy
  <2> QED
    BY <2>1, RowThere, DropRequested
<1>19. CASE CreateTrunkPort
  <2>1. PICK t \in FreshIds("trunks", Trunks), n \in Ids("nodes"), vlans \in SUBSET Vlans,
             native \in Vlans \cup {None} :
          LET row == [node |-> n, vlans |-> vlans, native |-> native]
          IN "trunks" \in DOMAIN db /\ TrunkValid(row) /\ Handles({"nodes"}, <<Put("trunks", t, row)>>)
    BY <1>19 DEF CreateTrunkPort
  <2>2. n # None
    BY RowThere DEF GoodRow
  <2>3. GoodRow("trunks", t, [node |-> n, vlans |-> vlans, native |-> native], asked + 1)
    BY <2>1, <2>2 DEF GoodRow, TrunkOk
  <2> QED
    BY <2>1, <2>3, PutRequested
<1>20. CASE UpdateTrunkPort
  <2>1. PICK t \in Ids("trunks"), vlans \in (SUBSET Vlans) \cup {None}, native \in Vlans \cup {None} :
          LET row == [TrunkPort(t) EXCEPT !.vlans = IF vlans = None THEN @ ELSE vlans, !.native = native]
          IN TrunkValid(row) /\ Handles({"trunks"}, <<Put("trunks", t, row)>>)
    BY <1>20 DEF UpdateTrunkPort, SavesTrunk
  <2> DEFINE row == [TrunkPort(t) EXCEPT !.vlans = IF vlans = None THEN @ ELSE vlans, !.native = native]
  <2>2. "trunks" \in DOMAIN db /\ TrunkOk(TrunkPort(t))
    BY RowThere DEF GoodRow, TrunkPort
  <2>3. TrunkOk(row)
    BY <2>1, <2>2 DEF TrunkOk
  <2>4. GoodRow("trunks", t, row, asked + 1)
    BY <2>3 DEF GoodRow
  <2> QED
    BY <2>1, <2>2, <2>4, PutRequested
<1>21. CASE DeleteTrunkPort
  <2>1. PICK t \in Ids("trunks") : Handles({"trunks"}, <<Drop("trunks", t)>>)
    BY <1>21 DEF DeleteTrunkPort
  <2> QED
    BY <2>1, RowThere, DropRequested
<1> QED
  BY <1>1, <1>3, <1>4, <1>5, <1>6, <1>7, <1>8, <1>9, <1>10, <1>11, <1>12, <1>13, <1>14, <1>15, <1>16, <1>17,
     <1>18, <1>19, <1>20, <1>21 DEF PortsNext

------------------------------------------------------------------------------
(* What is left of the routes of a router. *)

IsKept(f, routes, d) ==
    f = [n \in 0 .. Len(routes) |->
           IF n = 0 THEN <<>>
           ELSE IF routes[n] = d THEN f[n - 1] ELSE Append(f[n - 1], routes[n])]

(* The routes that are left exist, however many there were. *)
LEMMA KeptExists ==
    ASSUME NEW routes, NEW d, Len(routes) \in Nat
    PROVE  \E f : IsKept(f, routes, d)
<1> DEFINE Next1(s, n) == IF routes[n] = d THEN s ELSE Append(s, routes[n])
           Upto(f, k) == f = [n \in 0 .. k |-> IF n = 0 THEN <<>> ELSE Next1(f[n - 1], n)]
           S == {k \in Nat : \E f : Upto(f, k)}
<1>1. 0 \in S
  <2> DEFINE f0 == [n \in 0 .. 0 |-> <<>>]
  <2>1. Upto(f0, 0)
    OBVIOUS
  <2> QED
    BY <2>1, Zenon
<1>2. ASSUME NEW k \in Nat, k \in S PROVE k + 1 \in S
  <2>1. PICK f : Upto(f, k)
    BY <1>2, Zenon
  <2> HIDE DEF S, Next1
  <2> DEFINE g == [n \in 0 .. k + 1 |-> IF n = k + 1 THEN Next1(f[k], n) ELSE f[n]]
  <2>2. \A n \in 0 .. k : g[n] = f[n]
    OBVIOUS
  <2>3. \A n \in 0 .. k + 1 : g[n] = IF n = 0 THEN <<>> ELSE Next1(g[n - 1], n)
    <3> SUFFICES ASSUME NEW n \in 0 .. k + 1
                 PROVE  g[n] = IF n = 0 THEN <<>> ELSE Next1(g[n - 1], n)
      OBVIOUS
    <3>1. CASE n = k + 1
      BY <3>1, <2>2
    <3>2. CASE n \in 0 .. k
      <4>1. f[n] = IF n = 0 THEN <<>> ELSE Next1(f[n - 1], n)
        BY <3>2, <2>1
      <4>2. n # 0 => g[n - 1] = f[n - 1]
        BY <3>2, <2>2
      <4> QED
        BY <3>2, <4>1, <4>2, <2>2
    <3> QED
      BY <3>1, <3>2
  <2>4. Upto(g, k + 1)
    <3>1. g = [n \in 0 .. k + 1 |-> g[n]]
      OBVIOUS
    <3> HIDE DEF g
    <3> QED
      BY <3>1, <2>3
  <2>5. \E h : Upto(h, k + 1)
    BY <2>4, Zenon
  <2>6. k + 1 \in Nat
    OBVIOUS
  <2> HIDE DEF Upto
  <2> QED
    BY <2>5, <2>6 DEF S
<1>3. Nat \subseteq S
  <2> HIDE DEF S
  <2> QED
    BY <1>1, <1>2, NatSetInduction
<1>4. Len(routes) \in S
  BY <1>3
<1>5. \E f : Upto(f, Len(routes))
  BY <1>4
<1> QED
  BY <1>5, Zenon DEF IsKept

(* Routes are left, and no destination comes twice that had not. *)
LEMMA WithoutFact ==
    ASSUME NEW S, NEW routes \in Seq(S), NEW d
    PROVE  /\ Without(routes, d) \in Seq(S)
           /\ (\A i, j \in DOMAIN routes : i # j => routes[i] # routes[j]) =>
                \A i, j \in DOMAIN Without(routes, d) : i # j => Without(routes, d)[i] # Without(routes, d)[j]
<1>2. Len(routes) \in Nat /\ DOMAIN routes = 1 .. Len(routes)
  OBVIOUS
<1>1. PICK kept : IsKept(kept, routes, d) /\ Without(routes, d) = kept[Len(routes)]
  <2> DEFINE f == CHOOSE f : IsKept(f, routes, d)
  <2>1. IsKept(f, routes, d)
    BY <1>2, KeptExists, Zenon
  <2>2. Without(routes, d) = f[Len(routes)]
    BY DEF Without, IsKept
  <2> QED
    BY <2>1, <2>2, Zenon
<1> DEFINE Among(s, n) == \A i \in DOMAIN s : \E m \in 1 .. n : s[i] = routes[m]
           Once(s) == \A i, j \in DOMAIN s : i # j => s[i] # s[j]
           Ok(n) == kept[n] \in Seq(S) /\ Among(kept[n], n) /\ (Once(routes) => Once(kept[n]))
           T == {n \in Nat : n <= Len(routes) => Ok(n)}
<1>3. 0 \in T
  <2>1. kept[0] = <<>>
    BY <1>1, <1>2 DEF IsKept
  <2>2. <<>> \in Seq(S) /\ DOMAIN <<>> = {}
    OBVIOUS
  <2>3. Ok(0)
    BY <2>1, <2>2
  <2> QED
    BY <2>3
<1>4. ASSUME NEW n \in Nat, n \in T PROVE n + 1 \in T
  <2> SUFFICES ASSUME n + 1 <= Len(routes) PROVE Ok(n + 1)
    OBVIOUS
  <2>1. Ok(n) /\ n \in 0 .. Len(routes) /\ n + 1 \in 0 .. Len(routes) /\ n + 1 # 0 /\ (n + 1) - 1 = n
    BY <1>2, <1>4
  <2>2. kept[n + 1] = IF routes[n + 1] = d THEN kept[n] ELSE Append(kept[n], routes[n + 1])
    BY <1>1, <2>1 DEF IsKept
  <2>3. CASE routes[n + 1] = d
    <3>1. kept[n + 1] = kept[n]
      BY <2>2, <2>3
    <3>2. Among(kept[n], n + 1)
      BY <2>1
    <3> QED
      BY <2>1, <3>1, <3>2
  <2>4. CASE routes[n + 1] # d
    <3> DEFINE s == kept[n]
               x == routes[n + 1]
    <3>1. kept[n + 1] = Append(s, x) /\ x \in S
      BY <1>2, <2>1, <2>2, <2>4
    <3>2. s \in Seq(S) /\ Among(s, n) /\ (Once(routes) => Once(s))
      BY <2>1
    <3>3. n + 1 \in 1 .. n + 1 /\ n + 1 \in DOMAIN routes
      BY <1>2
    <3>7. Once(routes) => \A m \in 1 .. n : x # routes[m]
      BY <1>2, <2>1
    <3>8. \A m \in 1 .. n : m \in 1 .. n + 1
      OBVIOUS
    <3>9. x = routes[n + 1]
      OBVIOUS
    <3> HIDE DEF s, x
    <3>4. /\ Append(s, x) \in Seq(S)
          /\ DOMAIN Append(s, x) = 1 .. Len(s) + 1 /\ DOMAIN s = 1 .. Len(s)
          /\ \A i \in DOMAIN s : Append(s, x)[i] = s[i]
          /\ Append(s, x)[Len(s) + 1] = x
      BY <3>1, <3>2
    <3> DEFINE a == Append(s, x)
               l == Len(s)
    <3>10. l \in Nat
      BY <3>2
    <3> HIDE DEF a, l
    <3>11. DOMAIN a = 1 .. l + 1 /\ DOMAIN s = 1 .. l /\ (\A i \in DOMAIN s : a[i] = s[i]) /\ a[l + 1] = x
      BY <3>4 DEF a, l
    <3>5. Among(a, n + 1)
      <4> SUFFICES ASSUME NEW i \in DOMAIN a PROVE \E m \in 1 .. n + 1 : a[i] = routes[m]
        OBVIOUS
      <4>1. CASE i = l + 1
        BY <3>3, <3>9, <3>11, <4>1
      <4>2. CASE i \in DOMAIN s
        <5>1. a[i] = s[i]
          BY <3>11, <4>2
        <5> QED
          BY <5>1, <3>2, <3>8, <4>2
      <4> QED
        BY <3>10, <3>11, <4>1, <4>2
    <3>6. Once(routes) => Once(a)
      <4> SUFFICES ASSUME Once(routes), NEW i \in DOMAIN a, NEW j \in DOMAIN a, i # j PROVE a[i] # a[j]
        OBVIOUS
      <4>1. \A m \in DOMAIN s : s[m] # x
        BY <3>2, <3>7
      <4>2. i \in DOMAIN s \/ i = l + 1
        BY <3>10, <3>11
      <4>3. j \in DOMAIN s \/ j = l + 1
        BY <3>10, <3>11
      <4> QED
        BY <3>2, <3>11, <4>1, <4>2, <4>3
    <3> QED
      BY <3>1, <3>4, <3>5, <3>6 DEF a
  <2> QED
    BY <2>3, <2>4
<1>5. Nat \subseteq T
  <2> HIDE DEF T
  <2> QED
    BY <1>3, <1>4, NatSetInduction
<1>6. Len(routes) \in T
  BY <1>2, <1>5
<1> QED
  BY <1>1, <1>2, <1>6

(* A router that its validation let through is saved as a row that       *)
(* loads.                                                                *)
LEMMA RouterRequested ==
    ASSUME GoodState, NEW id \in Ids("routers"), NEW row, RouterOk(id, row), SavesRouter(id, row)
    PROVE  Requested
<1>1. "routers" \in DOMAIN db /\ GoodRow("routers", id, row, asked + 1)
  BY RowThere DEF GoodRow
<1> QED
  BY <1>1, PutRequested DEF SavesRouter, Special, Guarded

(* The handlers of routers, floating IPs and BGP peers (N3) save rows    *)
(* that load.                                                            *)
LEMMA RoutingRequested == ASSUME GoodState, RoutingNext PROVE Requested
<1> USE DEF Guarded, Special
<1>1. ASSUME NEW id \in Ids("routers")
      PROVE  "routers" \in DOMAIN db /\ id \in Routers /\ RouterOk(id, Router(id))
  BY <1>1, RowThere DEF GoodRow, Router, RouterOk
<1>2. ASSUME NEW f \in Ids("fips") PROVE "fips" \in DOMAIN db /\ FipOk(FloatingIp(f))
  BY <1>2, RowThere DEF GoodRow, FloatingIp
<1>3. ASSUME NEW p \in Ids("peers") PROVE "peers" \in DOMAIN db /\ PeerOk(p, BgpPeer(p))
  BY <1>3, RowThere DEF GoodRow, BgpPeer
<1>4. CASE CreateRouter
  <2>1. PICK id \in FreshIds("routers", Routers), ext \in ExtNets \cup {None}, ha \in {"none", "vrrp"},
              vrrp \in VrrpValues :
          "routers" \in DOMAIN db /\ SavesRouter(id, RouterRow(ext, ha, vrrp))
    BY <1>4 DEF CreateRouter
  <2>2. id \in Routers
    BY FreshFact
  <2>3. RouterRow(ext, ha, vrrp) \in RouterRows
    <3>1. <<>> \in Seq(Dests)
      OBVIOUS
    <3> QED
      BY <3>1 DEF RouterRow, RouterRows
  <2>4. RouterOk(id, RouterRow(ext, ha, vrrp))
    BY <2>1, <2>2, <2>3 DEF RouterOk, RouterRow, SavesRouter
  <2>5. GoodRow("routers", id, RouterRow(ext, ha, vrrp), asked + 1)
    BY <2>4 DEF GoodRow
  <2> QED
    BY <2>1, <2>5, PutRequested DEF SavesRouter
<1>5. CASE UpdateRouter
  <2>1. PICK id \in Ids("routers") :
          \/ \E ext \in ExtNets \cup {None} : SavesRouter(id, [Router(id) EXCEPT !.ext = ext, !.applied = None])
          \/ \E ha \in {"none", "vrrp"} : SavesRouter(id, [Router(id) EXCEPT !.ha = ha, !.applied = None])
          \/ \E vrrp \in VrrpValues : SavesRouter(id, [Router(id) EXCEPT !.vrrp = vrrp, !.applied = None])
    BY <1>5 DEF UpdateRouter
  <2>2. RouterOk(id, Router(id))
    BY <1>1
  <2>3. ASSUME NEW ext \in ExtNets \cup {None}, SavesRouter(id, [Router(id) EXCEPT !.ext = ext, !.applied = None])
        PROVE  Requested
    <3>1. RouterOk(id, [Router(id) EXCEPT !.ext = ext, !.applied = None])
      BY <2>2, <2>3 DEF RouterOk, RouterRows, SavesRouter
    <3> QED
      BY <2>3, <3>1, RouterRequested
  <2>4. ASSUME NEW ha \in {"none", "vrrp"}, SavesRouter(id, [Router(id) EXCEPT !.ha = ha, !.applied = None])
        PROVE  Requested
    <3>1. RouterOk(id, [Router(id) EXCEPT !.ha = ha, !.applied = None])
      BY <2>2, <2>4 DEF RouterOk, RouterRows, SavesRouter
    <3> QED
      BY <2>4, <3>1, RouterRequested
  <2>5. ASSUME NEW vrrp \in VrrpValues, SavesRouter(id, [Router(id) EXCEPT !.vrrp = vrrp, !.applied = None])
        PROVE  Requested
    <3>1. RouterOk(id, [Router(id) EXCEPT !.vrrp = vrrp, !.applied = None])
      BY <2>2, <2>5 DEF RouterOk, RouterRows, SavesRouter
    <3> QED
      BY <2>5, <3>1, RouterRequested
  <2> QED
    BY <2>1, <2>3, <2>4, <2>5
<1>6. CASE DeleteRouter
  <2>1. PICK id \in Ids("routers") : Handles({"routers"}, <<Drop("routers", id)>>)
    BY <1>6 DEF DeleteRouter
  <2> QED
    BY <2>1, <1>1, DropRequested
<1>7. CASE AddStaticRoute
  <2>1. PICK id \in Ids("routers"), d \in Dests : IsNewRoute(id, d) /\ SavesRouter(id, Routed(id, d))
    BY <1>7 DEF AddStaticRoute
  <2> DEFINE old == Router(id)
  <2>2. RouterOk(id, old) /\ (\A i \in DOMAIN old.routes : old.routes[i] # d)
    BY <1>1, <2>1 DEF IsNewRoute, Range
  <2>3. RouterValid([old EXCEPT !.routes = Append(@, d), !.applied = None])
    BY <2>1 DEF SavesRouter, Routed
  <2> HIDE DEF old
  <2>4. old.routes \in Seq(Dests) /\ old \in RouterRows
    BY <2>2 DEF RouterOk, RouterRows
  <2>5. /\ Append(old.routes, d) \in Seq(Dests)
        /\ \A m, n \in DOMAIN Append(old.routes, d) : m # n => Append(old.routes, d)[m] # Append(old.routes, d)[n]
    <3> DEFINE s == old.routes
    <3>1. s \in Seq(Dests) /\ (\A i \in DOMAIN s : s[i] # d) /\ (\A m, n \in DOMAIN s : m # n => s[m] # s[n])
      BY <2>2, <2>4 DEF RouterOk
    <3> HIDE DEF s
    <3>2. /\ Append(s, d) \in Seq(Dests) /\ DOMAIN Append(s, d) = 1 .. Len(s) + 1 /\ DOMAIN s = 1 .. Len(s)
                /\ Len(s) \in Nat
          /\ \A i \in DOMAIN s : Append(s, d)[i] = s[i]
          /\ Append(s, d)[Len(s) + 1] = d
      BY <3>1
    <3>3. \A m \in DOMAIN Append(s, d) : m \in DOMAIN s \/ m = Len(s) + 1
      BY <3>2
    <3>4. \A m, n \in DOMAIN Append(s, d) : m # n => Append(s, d)[m] # Append(s, d)[n]
      BY <3>1, <3>2, <3>3
    <3> QED
      BY <3>2, <3>4 DEF s
  <2>6. RouterOk(id, [old EXCEPT !.routes = Append(@, d), !.applied = None])
    <3> DEFINE r == Append(old.routes, d)
               new == [old EXCEPT !.routes = r, !.applied = None]
    <3>1. r \in Seq(Dests) /\ \A m, n \in DOMAIN r : m # n => r[m] # r[n]
      BY <2>5
    <3>4. RouterValid(new)
      BY <2>3
    <3> HIDE DEF r
    <3>2. new \in RouterRows /\ new.routes = r /\ new.applied = None
      BY <2>4, <3>1 DEF RouterRows
    <3>3. RouterOk(id, new)
      BY <2>2, <3>1, <3>2, <3>4 DEF RouterOk
    <3> QED
      BY <3>3 DEF r
  <2> QED
    BY <2>1, <2>6, RouterRequested DEF Routed, old
<1>8. CASE RemoveStaticRoute
  <2>1. PICK id \in Ids("routers"), d \in Dests :
          SavesRouter(id, [Router(id) EXCEPT !.routes = Without(@, d), !.applied = None])
    BY <1>8 DEF RemoveStaticRoute
  <2> DEFINE old == Router(id)
             r == Without(old.routes, d)
             new == [old EXCEPT !.routes = r, !.applied = None]
  <2>2. RouterOk(id, old)
    BY <1>1
  <2>3. RouterValid(new)
    BY <2>1 DEF SavesRouter
  <2> HIDE DEF old
  <2>4. old.routes \in Seq(Dests) /\ old \in RouterRows
    BY <2>2 DEF RouterOk, RouterRows
  <2>5. r \in Seq(Dests) /\ \A m, n \in DOMAIN r : m # n => r[m] # r[n]
    BY <2>2, <2>4, WithoutFact DEF RouterOk
  <2> HIDE DEF r
  <2>6. new \in RouterRows /\ new.routes = r /\ new.applied = None
    BY <2>4, <2>5 DEF RouterRows
  <2>7. RouterOk(id, new)
    BY <2>2, <2>3, <2>5, <2>6 DEF RouterOk
  <2> QED
    BY <2>1, <2>7, RouterRequested DEF old, r
<1>9. CASE AddInternalNetwork
  <2>1. PICK id \in Ids("routers"), n \in Nets :
          SavesRouter(id, [Router(id) EXCEPT !.nets = @ \cup {n}, !.applied = None])
    BY <1>9 DEF AddInternalNetwork
  <2>2. RouterOk(id, Router(id))
    BY <1>1
  <2>3. RouterOk(id, [Router(id) EXCEPT !.nets = @ \cup {n}, !.applied = None])
    BY <2>1, <2>2 DEF RouterOk, RouterRows, SavesRouter
  <2> QED
    BY <2>1, <2>3, RouterRequested
<1>10. CASE RemoveInternalNetwork
  <2>1. PICK id \in Ids("routers"), n \in Nets :
          SavesRouter(id, [Router(id) EXCEPT !.nets = @ \ {n}, !.applied = None])
    BY <1>10 DEF RemoveInternalNetwork
  <2>2. RouterOk(id, Router(id))
    BY <1>1
  <2>3. RouterOk(id, [Router(id) EXCEPT !.nets = @ \ {n}, !.applied = None])
    BY <2>1, <2>2 DEF RouterOk, RouterRows, SavesRouter
  <2> QED
    BY <2>1, <2>3, RouterRequested
<1>11. CASE ApplyRouter
  <2>1. PICK id \in Ids("routers") :
          SavesRouter(id, [Router(id) EXCEPT !.applied = RouterConfig(Router(id), PeersOf(id)), !.status = "active"])
    BY <1>11 DEF ApplyRouter
  <2>2. RouterOk(id, Router(id))
    BY <1>1
  <2>3. PeersOf(id) \subseteq Peers
    BY <1>3 DEF PeersOf, PeerOk
  <2>4. RouterConfig(Router(id), PeersOf(id)) \in RouterConfigs
    BY <2>2, <2>3 DEF RouterConfig, RouterConfigs, Rendered, RouterOk, RouterRows
  <2>5. RouterOk(id, [Router(id) EXCEPT !.applied = RouterConfig(Router(id), PeersOf(id)), !.status = "active"])
    <3> DEFINE c == RouterConfig(Router(id), PeersOf(id))
               old == Router(id)
               new == [old EXCEPT !.applied = c, !.status = "active"]
    <3>1. c \in RouterConfigs /\ c.of = Rendered(old) /\ RouterValid(new) /\ RouterOk(id, old)
      BY <2>1, <2>2, <2>4 DEF RouterConfig, SavesRouter
    <3> HIDE DEF c, old
    <3>2. new \in RouterRows /\ new.routes = old.routes /\ new.applied = c /\ Rendered(new) = Rendered(old)
      BY <3>1 DEF RouterOk, RouterRows, Rendered
    <3>3. RouterOk(id, new)
      BY <3>1, <3>2 DEF RouterOk
    <3> QED
      BY <3>3 DEF c, old
  <2> QED
    BY <2>1, <2>5, RouterRequested
<1>12. CASE SetRouterAdminState
  <2>1. PICK id \in Ids("routers"), up \in BOOLEAN :
          SavesRouter(id, [Router(id) EXCEPT !.admin = up, !.status = IF up THEN "active" ELSE "down"])
    BY <1>12 DEF SetRouterAdminState
  <2> DEFINE old == Router(id)
             new == [old EXCEPT !.admin = up, !.status = IF up THEN "active" ELSE "down"]
  <2>2. RouterOk(id, old) /\ RouterValid(new)
    BY <1>1, <2>1 DEF SavesRouter
  <2> HIDE DEF old
  <2>3. new \in RouterRows /\ new.routes = old.routes /\ new.applied = old.applied /\ Rendered(new) = Rendered(old)
    BY <2>2 DEF RouterOk, RouterRows, Rendered
  <2>4. RouterOk(id, new)
    BY <2>2, <2>3 DEF RouterOk
  <2> QED
    BY <2>1, <2>4, RouterRequested DEF old
<1>13. CASE AllocateFloatingIp
  <2>1. PICK f \in FreshIds("fips", Fips) : "fips" \in DOMAIN db /\ Handles({}, <<Put("fips", f, FreeFip)>>)
    BY <1>13 DEF AllocateFloatingIp
  <2>2. GoodRow("fips", f, FreeFip, asked + 1)
    BY DEF GoodRow, FipOk, FloatingIpRows, FreeFip
  <2> QED
    BY <2>1, <2>2, PutRequested
<1>14. CASE AssociateFloatingIp
  <2>1. PICK f \in Ids("fips"), id \in Ids("routers"), port \in Ports :
          Handles({"fips", "routers"}, <<Put("fips", f, [port |-> port, router |-> id, status |-> "active"])>>)
    BY <1>14 DEF AssociateFloatingIp
  <2>2. id \in Routers
    BY <1>1
  <2>3. GoodRow("fips", f, [port |-> port, router |-> id, status |-> "active"], asked + 1)
    BY <2>2, RoutingAssumption DEF GoodRow, FipOk, FloatingIpRows
  <2> QED
    BY <2>1, <2>3, <1>2, PutRequested
<1>15. CASE DisassociateFloatingIp
  <2>1. PICK f \in Ids("fips") : Handles({"fips"}, <<Put("fips", f, FreeFip)>>)
    BY <1>15 DEF DisassociateFloatingIp
  <2>2. GoodRow("fips", f, FreeFip, asked + 1)
    BY DEF GoodRow, FipOk, FloatingIpRows, FreeFip
  <2> QED
    BY <2>1, <2>2, <1>2, PutRequested
<1>16. CASE ReleaseFloatingIp
  <2>1. PICK f \in Ids("fips") : Handles({"fips"}, <<Drop("fips", f)>>)
    BY <1>16 DEF ReleaseFloatingIp
  <2> QED
    BY <2>1, <1>2, DropRequested
<1>17. CASE CreateBgpPeer
  <2>1. PICK p \in FreshIds("peers", Peers), id \in Ids("routers") :
          "peers" \in DOMAIN db /\ Handles({"routers"}, <<Put("peers", p, NewPeer(id))>>)
    BY <1>17 DEF CreateBgpPeer
  <2>2. p \in Peers /\ id \in Routers
    BY <1>1, FreshFact
  <2>3. GoodRow("peers", p, NewPeer(id), asked + 1)
    BY <2>2 DEF GoodRow, PeerOk, BgpPeerRows, NewPeer
  <2> QED
    BY <2>1, <2>3, PutRequested
<1>18. CASE DeleteBgpPeer
  <2>1. PICK p \in Ids("peers") : Handles({"peers"}, <<Drop("peers", p)>>)
    BY <1>18 DEF DeleteBgpPeer
  <2> QED
    BY <2>1, <1>3, DropRequested
<1>19. CASE UpdateBgpPeerState
  <2>1. PICK p \in Ids("peers"), state \in {"idle", "established"} :
          Handles({"peers"}, <<Put("peers", p, [BgpPeer(p) EXCEPT !.state = state])>>)
    BY <1>19 DEF UpdateBgpPeerState
  <2>2. "peers" \in DOMAIN db /\ PeerOk(p, BgpPeer(p))
    BY <1>3
  <2>3. GoodRow("peers", p, [BgpPeer(p) EXCEPT !.state = state], asked + 1)
    BY <2>2 DEF GoodRow, PeerOk, BgpPeerRows
  <2> QED
    BY <2>1, <2>2, <2>3, PutRequested
<1> QED
  BY <1>4, <1>5, <1>6, <1>7, <1>8, <1>9, <1>10, <1>11, <1>12, <1>13, <1>14, <1>15, <1>16, <1>17, <1>18, <1>19
  DEF RoutingNext

------------------------------------------------------------------------------
(* The rules of a policy, in order. *)

\* Rules have a priority and an id of their own.
Numbered(R) ==
    /\ \A r \in R : r.id \in Nat /\ r.priority \in Nat
    /\ \A r, s \in R : r.id = s.id => r = s

\* f lists the rules R by priority, and by id among equals.
IsListing(f, R, n) ==
    /\ f \in [1 .. n -> R]
    /\ \A i, j \in 1 .. n : i < j => Before(f[i], f[j])
    /\ \A r \in R : \E i \in 1 .. n : f[i] = r

(* There is a first rule. *)
LEMMA LeastRule ==
    ASSUME NEW R, R # {}, Numbered(R)
    PROVE  \E m \in R : \A r \in R \ {m} : Before(m, r)
<1> DEFINE P == {r.priority : r \in R}
<1>1. P \subseteq Nat /\ P # {}
  BY DEF Numbered
<1> DEFINE p == Min(P)
<1>2. p \in P /\ \A y \in P : p <= y
  BY <1>1, MinFact
<1> HIDE DEF p
<1>3. \A r \in R : p <= r.priority
  BY <1>2
<1> DEFINE I == {r.id : r \in {s \in R : s.priority = p}}
<1>4. I \subseteq Nat /\ I # {}
  <2>1. \E r \in R : r.priority = p
    BY <1>2
  <2> QED
    BY <2>1 DEF Numbered
<1> DEFINE i == Min(I)
<1>5. i \in I /\ \A y \in I : i <= y
  BY <1>4, MinFact
<1> HIDE DEF i
<1>6. PICK m \in R : m.priority = p /\ m.id = i
  BY <1>5
<1>7. ASSUME NEW r \in R \ {m} PROVE Before(m, r)
  <2>1. r.id \in Nat /\ r.priority \in Nat /\ p \in Nat /\ i \in Nat /\ r.id # m.id
    BY <1>6 DEF Numbered
  <2>2. p <= r.priority
    BY <1>3
  <2>3. r.priority = p => i <= r.id
    BY <1>5
  <2> QED
    BY <1>6, <2>1, <2>2, <2>3 DEF Before
<1> QED
  BY <1>7

(* Finitely many rules can be put in that order. *)
LEMMA SortedExists ==
    ASSUME NEW R, IsFiniteSet(R), Numbered(R)
    PROVE  \E f : IsListing(f, R, Cardinality(R))
<1> DEFINE Has(n) == \A T \in SUBSET R : IsFiniteSet(T) /\ Cardinality(T) = n => \E f : IsListing(f, T, n)
           S == {n \in Nat : Has(n)}
<1>1. 0 \in S
  <2>1. ASSUME NEW T, IsFiniteSet(T), Cardinality(T) = 0 PROVE \E f : IsListing(f, T, 0)
    <3>1. T = {}
      BY <2>1, FS_EmptySet
    <3>2. IsListing(<<>>, {}, 0)
      BY DEF IsListing
    <3> QED
      BY <3>1, <3>2
  <2> QED
    BY <2>1
<1>2. ASSUME NEW n \in Nat, n \in S PROVE n + 1 \in S
  <2> SUFFICES ASSUME NEW T \in SUBSET R, IsFiniteSet(T), Cardinality(T) = n + 1
               PROVE  \E f : IsListing(f, T, n + 1)
    OBVIOUS
  <2>1. T # {}
    BY FS_EmptySet
  <2>2. Numbered(T)
    BY DEF Numbered
  <2>3. PICK m \in T : \A r \in T \ {m} : Before(m, r)
    BY <2>1, <2>2, LeastRule
  <2> DEFINE U == T \ {m}
  <2>4. IsFiniteSet(U) /\ Cardinality(U) = n /\ U \in SUBSET R
    <3>1. IsFiniteSet(U) /\ Cardinality(U) = (n + 1) - 1
      BY FS_RemoveElement, Zenon
    <3> QED
      BY <3>1
  <2>5. PICK g : IsListing(g, U, n)
    BY <1>2, <2>4
  <2> DEFINE f == [i \in 1 .. n + 1 |-> IF i = 1 THEN m ELSE g[i - 1]]
  <2>6. \A i \in 1 .. n : g[i] \in U
    BY <2>5 DEF IsListing
  <2>7. \A i \in 1 .. n + 1 : i # 1 => i - 1 \in 1 .. n
    OBVIOUS
  <2>8. f[1] = m /\ \A i \in 1 .. n + 1 : i # 1 => f[i] = g[i - 1] /\ f[i] \in U
    BY <2>6, <2>7
  <2>9. f \in [1 .. n + 1 -> T]
    BY <2>6, <2>7
  <2>10. ASSUME NEW i \in 1 .. n + 1, NEW j \in 1 .. n + 1, i < j PROVE Before(f[i], f[j])
    <3>1. j # 1 /\ f[j] = g[j - 1] /\ f[j] \in U /\ j - 1 \in 1 .. n
      BY <2>7, <2>8, <2>10
    <3>2. CASE i = 1
      BY <3>1, <3>2, <2>3, <2>8
    <3>3. CASE i # 1
      <4>1. f[i] = g[i - 1] /\ i - 1 \in 1 .. n /\ i - 1 < j - 1
        BY <2>7, <2>8, <2>10, <3>3
      <4> QED
        BY <3>1, <4>1, <2>5 DEF IsListing
    <3> QED
      BY <3>2, <3>3
  <2>11. ASSUME NEW r \in T PROVE \E i \in 1 .. n + 1 : f[i] = r
    <3>1. CASE r = m
      BY <3>1, <2>8
    <3>2. CASE r # m
      <4>1. PICK i \in 1 .. n : g[i] = r
        BY <3>2, <2>5 DEF IsListing
      <4>2. i + 1 \in 1 .. n + 1 /\ i + 1 # 1 /\ (i + 1) - 1 = i
        OBVIOUS
      <4>3. f[i + 1] = r
        BY <4>1, <4>2
      <4> QED
        BY <4>2, <4>3
    <3> QED
      BY <3>1, <3>2
  <2> HIDE DEF f
  <2>12. IsListing(f, T, n + 1)
    BY <2>9, <2>10, <2>11 DEF IsListing
  <2> QED
    BY <2>12
<1>3. Nat \subseteq S
  <2> HIDE DEF S
  <2> QED
    BY <1>1, <1>2, NatSetInduction
<1>4. Cardinality(R) \in Nat
  BY FS_CardinalityType
<1>5. Has(Cardinality(R))
  BY <1>3, <1>4
<1> QED
  BY <1>5

(* Ordered lists the rules of a policy as the compiler sorts them. *)
LEMMA OrderedFact ==
    ASSUME NEW R, IsFiniteSet(R), Numbered(R)
    PROVE  IsListing(Ordered(R), R, Cardinality(R)) /\ Cardinality(R) \in Nat
<1> DEFINE n == Cardinality(R)
           f == Ordered(R)
<1>1. n \in Nat
  BY FS_CardinalityType
<1>2. PICK g : IsListing(g, R, n)
  BY SortedExists
<1>3. g \in [1 .. n -> R] /\ \A i, j \in DOMAIN g : i < j => Before(g[i], g[j])
  BY <1>2 DEF IsListing
<1>4. f \in [1 .. n -> R] /\ \A i, j \in DOMAIN f : i < j => Before(f[i], f[j])
  BY <1>3, Zenon DEF Ordered
<1> HIDE DEF f, n
<1>5. \A i, j \in 1 .. n : i # j => f[i] # f[j]
  <2> SUFFICES ASSUME NEW i \in 1 .. n, NEW j \in 1 .. n, i < j PROVE f[i] # f[j]
    BY <1>1
  <2>1. Before(f[i], f[j]) /\ f[i] \in R
    BY <1>4
  <2>2. f[i].id \in Nat /\ f[i].priority \in Nat
    BY <2>1 DEF Numbered
  <2> QED
    BY <2>1, <2>2 DEF Before
<1>6. f \in Injection(1 .. n, R)
  BY <1>4, <1>5 DEF Injection, IsInjective
<1>7. Cardinality(1 .. n) = n /\ IsFiniteSet(1 .. n)
  BY <1>1, FS_Interval
<1>8. f \in Surjection(1 .. n, R)
  BY <1>6, <1>7, FS_Injection DEF n
<1>9. \A r \in R : \E i \in 1 .. n : f[i] = r
  BY <1>8 DEF Surjection
<1>10. IsListing(f, R, n)
  BY <1>4, <1>9 DEF IsListing
<1> QED
  BY <1>1, <1>10 DEF f, n

(* The rules of a policy can be listed. *)
LEMMA RulesFact ==
    ASSUME NEW R \in SUBSET PolicyRuleRows, IsFiniteSet(R), \A r, s \in R : r.id = s.id => r = s,
           NEW U \in SUBSET R
    PROVE  /\ Numbered(U) /\ IsFiniteSet(U)
           /\ IsListing(Ordered(U), U, Cardinality(U)) /\ Cardinality(U) \in Nat
<1>1. IsFiniteSet(U)
  BY FS_Subset
<1>2. \A r \in U : r \in PolicyRuleRows
  OBVIOUS
<1>3. \A r \in PolicyRuleRows : r.id \in Nat /\ r.priority \in Nat
  <2>1. \A s \in RuleSpecs : s.priority \in Nat
    BY PoliciesAssumption
  <2>2. RuleIds \subseteq Nat
    BY PoliciesAssumption
  <2> QED
    BY <2>1, <2>2 DEF PolicyRuleRows
<1>4. Numbered(U)
  BY <1>2, <1>3 DEF Numbered
<1> QED
  BY <1>1, <1>4, OrderedFact

(* The statements of a chain are statements. *)
LEMMA ChainFact ==
    ASSUME NEW R \in SUBSET PolicyRuleRows, IsFiniteSet(R), \A r, s \in R : r.id = s.id => r = s,
           NEW chain, NEW found, \A v \in DOMAIN found : found[v] \in SUBSET PortNumbers
    PROVE  Chain(R, chain, found) \in Seq(Statements)
<1> DEFINE U == Used(R, chain)
           n == Cardinality(U)
           f == Ordered(U)
<1>1. U \in SUBSET R
  BY DEF Used
<1>2. IsListing(f, U, n) /\ n \in Nat
  BY <1>1, RulesFact
<1>3. f \in [1 .. n -> U]
  BY <1>2 DEF IsListing
<1>4. \A r \in PolicyRuleRows : Statement(r, found) \in Statements
  BY DEF Statement, Statements, PolicyRuleRows
<1>5. Chain(R, chain, found) = [i \in DOMAIN f |-> Statement(f[i], found)]
  BY DEF Chain
<1> HIDE DEF U, f, n
<1>6. \A i \in 1 .. n : f[i] \in PolicyRuleRows
  BY <1>1, <1>3
<1>7. [i \in DOMAIN f |-> Statement(f[i], found)] \in [1 .. n -> Statements]
  BY <1>3, <1>4, <1>6
<1> QED
  BY <1>2, <1>5, <1>7, SeqDef

(* What the compiler leaves has its type. *)
LEMMA CompiledFact ==
    ASSUME NEW R \in SUBSET PolicyRuleRows, IsFiniteSet(R), \A r, s \in R : r.id = s.id => r = s,
           NEW found, found = [v \in DOMAIN found |-> found[v]], DOMAIN found \subseteq Services,
           \A v \in DOMAIN found : found[v] \in SUBSET PortNumbers
    PROVE  [ruleset |-> Ruleset(R, found), seen |-> found] \in Compilations
<1>1. Chain(R, "ingress", found) \in Seq(Statements) /\ Chain(R, "egress", found) \in Seq(Statements)
  BY ChainFact
<1>2. Ruleset(R, found) \in [ingress : Seq(Statements), egress : Seq(Statements)]
  BY <1>1 DEF Ruleset
<1>3. found \in UNION {[f -> SUBSET PortNumbers] : f \in SUBSET Services}
  <2>1. found \in [DOMAIN found -> SUBSET PortNumbers]
    OBVIOUS
  <2>2. DOMAIN found \in SUBSET Services
    OBVIOUS
  <2> QED
    BY <2>1, <2>2
<1> QED
  BY <1>2, <1>3 DEF Compilations

(* The handlers of services and policies (N2) save rows that load,       *)
(* compiled rulesets included.                                           *)
LEMMA PoliciesRequested == ASSUME GoodState, PoliciesNext PROVE Requested
<1> USE DEF Guarded, Special
<1>1. ASSUME NEW id \in Ids("policies") PROVE "policies" \in DOMAIN db /\ PolicyOk(Policy(id))
  BY <1>1, RowThere DEF GoodRow, Policy
<1>2. ASSUME NEW v \in Ids("services") PROVE "services" \in DOMAIN db /\ ServiceOk(v, ServiceObject(v))
  BY <1>2, RowThere DEF GoodRow, ServiceObject
<1>3. ASSUME NEW reads, NEW id, "policies" \in DOMAIN db, NEW row, PolicyOk(row), SavesPolicy(reads, id, row)
      PROVE  Requested
  <2>1. GoodRow("policies", id, row, asked + 1)
    BY <1>3 DEF GoodRow
  <2> QED
    BY <1>3, <2>1, PutRequested DEF SavesPolicy
<1>4. CASE CreateSecurityPolicy
  <2>1. PICK id \in FreshIds("policies", PolicyIds) : "policies" \in DOMAIN db /\ SavesPolicy({}, id, PolicyRow)
    BY <1>4 DEF CreateSecurityPolicy
  <2>2. PolicyOk(PolicyRow)
    BY FS_EmptySet DEF PolicyOk, PolicyRow
  <2> QED
    BY <1>3, <2>1, <2>2
<1>5. CASE UpdateSecurityPolicy
  BY <1>1, <1>3, <1>5 DEF UpdateSecurityPolicy
<1>6. CASE DeleteSecurityPolicy
  <2>1. PICK id \in Ids("policies") : Handles({"policies"}, <<Drop("policies", id)>>)
    BY <1>6 DEF DeleteSecurityPolicy
  <2> QED
    BY <2>1, <1>1, DropRequested
<1>7. ASSUME NEW id \in Ids("policies"), NEW rules \in SUBSET PolicyRuleRows, IsFiniteSet(rules),
             \A r, s \in rules : r.id = s.id => r = s, Redrafted(id, rules)
      PROVE  Requested
  <2>1. PolicyOk([rules |-> rules, status |-> "draft", compiled |-> None])
    BY <1>7 DEF PolicyOk
  <2> QED
    BY <1>1, <1>3, <1>7, <2>1 DEF Redrafted
<1>8. CASE AddPolicyRule
  <2>1. PICK id \in Ids("policies"), k \in RuleIds, spec \in RuleSpecs :
          /\ ~ \E r \in Policy(id).rules : r.id = k
          /\ Redrafted(id, Policy(id).rules \cup
                {[id |-> k, priority |-> spec.priority, direction |-> spec.direction,
                  source |-> spec.source, service |-> spec.service, action |-> spec.action,
                  enabled |-> spec.enabled]})
    BY <1>8 DEF AddPolicyRule
  <2> DEFINE new == [id |-> k, priority |-> spec.priority, direction |-> spec.direction,
                     source |-> spec.source, service |-> spec.service, action |-> spec.action,
                     enabled |-> spec.enabled]
             old == Policy(id).rules
  <2>2. old \in SUBSET PolicyRuleRows /\ IsFiniteSet(old) /\ \A r, s \in old : r.id = s.id => r = s
    BY <1>1 DEF PolicyOk
  <2>3. new \in PolicyRuleRows /\ new.id = k
    <3>1. spec \in [priority : Nat, direction : {"ingress", "egress", "both"}, source : Sources,
                    service : Services \cup {None}, action : {"allow", "deny"}, enabled : BOOLEAN]
      BY PoliciesAssumption
    <3>2. spec.priority \in {r.priority : r \in RuleSpecs}
      OBVIOUS
    <3> QED
      BY <3>1, <3>2 DEF PolicyRuleRows
  <2>4. (\A r \in old : r.id # k) /\ Redrafted(id, old \cup {new})
    BY <2>1
  <2> HIDE DEF new, old
  <2>5. IsFiniteSet(old \cup {new})
    BY <2>2, FS_AddElement
  <2>6. old \cup {new} \in SUBSET PolicyRuleRows
    BY <2>2, <2>3
  <2>7. \A r, s \in old \cup {new} : r.id = s.id => r = s
    BY <2>2, <2>3, <2>4
  <2> QED
    BY <1>7, <2>4, <2>5, <2>6, <2>7
<1>9. CASE RemovePolicyRule
  <2>0. PICK id \in Ids("policies") : \E r \in Policy(id).rules : Redrafted(id, Policy(id).rules \ {r})
    BY <1>9 DEF RemovePolicyRule
  <2>1. PICK r \in Policy(id).rules : Redrafted(id, Policy(id).rules \ {r})
    BY <2>0
  <2> DEFINE old == Policy(id).rules
  <2>2. old \in SUBSET PolicyRuleRows /\ IsFiniteSet(old) /\ \A x, s \in old : x.id = s.id => x = s
    BY <1>1 DEF PolicyOk
  <2>3. Redrafted(id, old \ {r})
    BY <2>1
  <2> HIDE DEF old
  <2>4. IsFiniteSet(old \ {r})
    BY <2>2, FS_RemoveElement
  <2> QED
    BY <1>7, <2>2, <2>3, <2>4
<1>10. CASE CompileSecurityPolicy
  <2>1. PICK id \in Ids("policies") :
      LET used == {r.service : r \in Policy(id).rules}
          found == Keep([v \in Ids("services") |-> ServiceObject(v).ports], used)
      IN SavesPolicy({"policies", "services"}, id,
           [rules |-> Policy(id).rules, status |-> "compiled",
            compiled |-> [ruleset |-> Ruleset(Policy(id).rules, found), seen |-> found]])
    BY <1>10 DEF CompileSecurityPolicy
  <2> DEFINE rules == Policy(id).rules
             used == {r.service : r \in rules}
             found == Keep([v \in Ids("services") |-> ServiceObject(v).ports], used)
             c == [ruleset |-> Ruleset(rules, found), seen |-> found]
             new == [rules |-> rules, status |-> "compiled", compiled |-> c]
  <2>2. SavesPolicy({"policies", "services"}, id, new)
    BY <2>1
  <2>3. rules \in SUBSET PolicyRuleRows /\ IsFiniteSet(rules) /\ \A x, s \in rules : x.id = s.id => x = s
    BY <1>1 DEF PolicyOk
  <2>4. /\ found = [v \in DOMAIN found |-> found[v]] /\ DOMAIN found \subseteq Ids("services")
        /\ \A v \in DOMAIN found : found[v] = ServiceObject(v).ports
    BY DEF Keep
  <2> HIDE DEF rules, found
  <2>5. DOMAIN found \subseteq Services /\ \A v \in DOMAIN found : found[v] \in SUBSET PortNumbers
    BY <1>2, <2>4 DEF ServiceOk, ServiceObjectRows
  <2>6. c \in Compilations
    BY <2>3, <2>4, <2>5, CompiledFact
  <2>7. c # None
    BY <2>6, PoliciesAssumption
  <2>8. c = [ruleset |-> Ruleset(rules, c.seen), seen |-> c.seen]
    OBVIOUS
  <2> HIDE DEF c
  <2>9. PolicyOk(new)
    BY <2>3, <2>6, <2>7, <2>8 DEF PolicyOk
  <2> QED
    BY <1>1, <1>3, <2>2, <2>9
<1>11. CASE ApplySecurityPolicy
  <2>1. PICK id \in Ids("policies") :
          Policy(id).status = "compiled" /\ SavesPolicy({"policies"}, id, [Policy(id) EXCEPT !.status = "applied"])
    BY <1>11 DEF ApplySecurityPolicy
  <2> DEFINE old == Policy(id)
             new == [old EXCEPT !.status = "applied"]
  <2>2. PolicyOk(old) /\ old.status = "compiled"
    BY <1>1, <2>1
  <2> HIDE DEF old
  <2>3. new = [rules |-> old.rules, status |-> "applied", compiled |-> old.compiled]
    BY <2>2 DEF PolicyOk
  <2>4. PolicyOk(new)
    BY <2>2, <2>3 DEF PolicyOk
  <2> QED
    BY <1>1, <1>3, <2>1, <2>4 DEF old
<1>12. CASE UpdateRuleCounters
  BY <1>1, <1>3, <1>12 DEF UpdateRuleCounters
<1>13. ASSUME NEW reads, NEW v \in Services, "services" \in DOMAIN db, NEW ports \in SUBSET PortNumbers \ {{}},
              Handles(reads, <<Put("services", v, NewService(ports))>>)
       PROVE  Requested
  <2>1. GoodRow("services", v, NewService(ports), asked + 1)
    BY DEF GoodRow, ServiceOk, ServiceObjectRows, NewService
  <2> QED
    BY <1>13, <2>1, PutRequested
<1>14. CASE CreateServiceObject
  BY <1>13, <1>14, FreshFact DEF CreateServiceObject
<1>15. CASE UpdateServiceObject
  <2>1. \A v \in Ids("services") : v \in Services
    BY <1>2 DEF ServiceOk
  <2> QED
    BY <1>2, <1>13, <1>15, <2>1 DEF UpdateServiceObject
<1>16. CASE DeleteServiceObject
  <2>1. PICK v \in Ids("services") : Handles({"services"}, <<Drop("services", v)>>)
    BY <1>16 DEF DeleteServiceObject
  <2> QED
    BY <2>1, <1>2, DropRequested
<1> QED
  BY <1>4, <1>5, <1>6, <1>8, <1>9, <1>10, <1>11, <1>12, <1>14, <1>15, <1>16 DEF PoliciesNext

(* A save of a row whose table is looked at for what is taken. *)
LEMMA SeenRequested ==
    ASSUME NEW reads, NEW t \in {"networks", "allocs", "retention", "snapshots", "vpnPeers"}, NEW id, NEW row,
           t \in DOMAIN db, GoodRow(t, id, row, asked + 1), Seen(reads, Put(t, id, row), db),
           t = "networks" => KnownOrNew(Put(t, id, row), db, Bundle) /\ ~ Clears(Put(t, id, row), db),
           Handles(reads, <<Put(t, id, row)>>)
    PROVE  Requested
<1> DEFINE w == Put(t, id, row)
<1>1. w.kind = "save" /\ w.table = t /\ w.id = id /\ w.row = row /\ Seen(reads, w, db)
      /\ (t = "networks" => KnownOrNew(w, db, Bundle) /\ ~ Clears(w, db))
  BY DEF Put, Write
<1> HIDE DEF w
<1>2. GoodWrite(w, DOMAIN db, asked + 1)
  BY <1>1 DEF GoodWrite
<1>3. LawfulWrite(reads, w)
  BY <1>1, <1>2 DEF LawfulWrite, Guarded, Creates
<1> QED
  BY <1>1, <1>3, WriteRequested DEF w

(* The version a snapshot gets is that of no other. *)
LEMMA LastVersionFact ==
    ASSUME GoodState, NEW p
    PROVE  /\ LastVersion(p) \in 0 .. asked
           /\ \A s \in Ids("snapshots") : Snapshot(s).project = p => Snapshot(s).version <= LastVersion(p)
<1> DEFINE S == {0} \cup {Snapshot(s).version : s \in SnapshotsOf(p)}
<1>1. \A s \in Ids("snapshots") : Snapshot(s).version \in 0 .. asked
  <2>1. \A s \in Ids("snapshots") : SnapshotOk(Snapshot(s), asked)
    BY RowThere DEF GoodRow, Snapshot
  <2> QED
    BY <2>1 DEF SnapshotOk, GoodState
<1>2. S \subseteq 0 .. asked /\ S # {} /\ asked \in Nat
  BY <1>1 DEF SnapshotsOf, GoodState
<1>3. Max(S) \in S /\ \A y \in S : y <= Max(S)
  BY <1>2, MaxFact
<1>4. LastVersion(p) = Max(S)
  BY DEF LastVersion
<1>5. \A s \in Ids("snapshots") : Snapshot(s).project = p => Snapshot(s).version \in S
  BY DEF SnapshotsOf
<1> HIDE DEF S
<1> QED
  BY <1>2, <1>3, <1>4, <1>5

(* The handlers of quotas, snapshots, bonds and retention (N4) save rows *)
(* that load and take nothing twice.                                     *)
LEMMA GovernanceRequested == ASSUME GoodState, GovernanceNext PROVE Requested
<1> USE DEF Guarded, Special
<1>1. ASSUME NEW k \in Ids("quotas") PROVE "quotas" \in DOMAIN db /\ QuotaOk(Quota(k))
  BY <1>1, RowThere DEF GoodRow, Quota
<1>2. ASSUME NEW b \in Ids("bonds") PROVE "bonds" \in DOMAIN db /\ BondOk(Bond(b))
  BY <1>2, RowThere DEF GoodRow, Bond
<1>3. CASE SetProjectQuota
  <2>1. PICK p \in Owners, r \in Resources, limit \in Limits \cup {None} :
        LET rows == IF QuotaOf(p) # {} THEN QuotaOf(p) ELSE FreshIds("quotas", QuotaIds)
            limits(k) == IF k \in Ids("quotas") THEN Quota(k).limits ELSE [x \in Resources |-> None]
        IN /\ "quotas" \in DOMAIN db
           /\ \E k \in rows :
                Handles({"quotas"},
                        <<Put("quotas", k, NewQuota(p, [limits(k) EXCEPT ![r] = limit]))>>)
    BY <1>3 DEF SetProjectQuota
  <2> DEFINE limits(k) == IF k \in Ids("quotas") THEN Quota(k).limits ELSE [x \in Resources |-> None]
  <2>2. PICK k : Handles({"quotas"}, <<Put("quotas", k, NewQuota(p, [limits(k) EXCEPT ![r] = limit]))>>)
    BY <2>1
  <2>3. limits(k) \in [Resources -> Limits \cup {None}]
    BY <1>1 DEF QuotaOk, QuotaRows
  <2> HIDE DEF limits
  <2>4. GoodRow("quotas", k, NewQuota(p, [limits(k) EXCEPT ![r] = limit]), asked + 1)
    BY <2>3 DEF GoodRow, QuotaOk, QuotaRows, NewQuota
  <2> QED
    BY <2>1, <2>2, <2>4, PutRequested
<1>4. CASE DeleteProjectQuota
  <2>1. PICK p \in Owners : \E k \in QuotaOf(p) : Handles({"quotas"}, <<Drop("quotas", k)>>)
    BY <1>4 DEF DeleteProjectQuota
  <2>2. PICK k \in QuotaOf(p) : Handles({"quotas"}, <<Drop("quotas", k)>>)
    BY <2>1
  <2> QED
    BY <2>2, <1>1, DropRequested DEF QuotaOf
<1>5. CASE TakeResourceSnapshot
  <2>1. PICK p \in Owners, s \in FreshIds("snapshots", SnapshotIds) :
        /\ "snapshots" \in DOMAIN db
        /\ Handles({"snapshots"}, <<Put("snapshots", s, NewSnapshot(p, LastVersion(p) + 1))>>)
    BY <1>5 DEF TakeResourceSnapshot
  <2> DEFINE row == NewSnapshot(p, LastVersion(p) + 1)
             w == Put("snapshots", s, row)
  <2>2. /\ LastVersion(p) \in 0 .. asked /\ asked \in Nat
        /\ \A x \in Ids("snapshots") : Snapshot(x).project = p => Snapshot(x).version <= LastVersion(p)
    BY LastVersionFact DEF GoodState
  <2>3. row.project = p /\ row.version = LastVersion(p) + 1 /\ row = [project |-> p, version |-> LastVersion(p) + 1]
    BY DEF NewSnapshot
  <2>4. LastVersion(p) + 1 \in 1 .. asked + 1
    BY <2>2
  <2>5. GoodRow("snapshots", s, row, asked + 1)
    BY <2>3, <2>4 DEF GoodRow, SnapshotOk
  <2>6. w.table = "snapshots" /\ w.id = s /\ w.row = row /\ w.kind = "save"
    BY DEF Put, Write
  <2> HIDE DEF row, w
  <2>7. Ids("snapshots") = DOMAIN db.snapshots /\ Rows("snapshots") = db.snapshots
    BY <2>1 DEF Ids, Rows
  <2>8. \A x \in DOMAIN db.snapshots : db.snapshots[x].project = p => db.snapshots[x].version # row.version
    <3> SUFFICES ASSUME NEW x \in DOMAIN db.snapshots, db.snapshots[x].project = p
                 PROVE  db.snapshots[x].version # row.version
      OBVIOUS
    <3>1. Snapshot(x) = db.snapshots[x] /\ x \in Ids("snapshots")
      BY <2>7 DEF Snapshot
    <3>2. SnapshotOk(Snapshot(x), asked)
      BY <3>1, RowThere DEF GoodRow, Snapshot
    <3>3. Snapshot(x).version \in Nat
      BY <3>2, <2>2 DEF SnapshotOk
    <3>4. Snapshot(x).version <= LastVersion(p)
      BY <3>1, <2>2
    <3> QED
      BY <3>1, <3>3, <3>4, <2>2, <2>3
  <2>9. SeenSnapshots(w, db)
    BY <2>3, <2>6, <2>7, <2>8, FreshFact DEF SeenSnapshots
  <2>10. Seen({"snapshots"}, w, db)
    BY <2>6, <2>9 DEF Seen
  <2> QED
    BY <2>1, <2>5, <2>10, SeenRequested DEF row, w
<1>6. CASE DeleteResourceSnapshot
  <2>1. PICK s \in Ids("snapshots") : Handles({"snapshots"}, <<Drop("snapshots", s)>>)
    BY <1>6 DEF DeleteResourceSnapshot
  <2> QED
    BY <2>1, RowThere, DropRequested
<1>7. CASE CreateGatewayBond
  <2>1. PICK b \in FreshIds("bonds", BondIds), m \in Mtus :
          "bonds" \in DOMAIN db /\ MtuValid(m) /\ Handles({}, <<Put("bonds", b, [mtu |-> m, applied |-> None])>>)
    BY <1>7 DEF CreateGatewayBond
  <2>2. GoodRow("bonds", b, [mtu |-> m, applied |-> None], asked + 1)
    BY <2>1 DEF GoodRow, BondOk, BondRows
  <2> QED
    BY <2>1, <2>2, PutRequested
<1>8. CASE UpdateGatewayBond
  <2>1. PICK b \in Ids("bonds"), m \in Mtus :
          MayChangeMtuTo(m) /\ Handles({"bonds"}, <<Put("bonds", b, [Bond(b) EXCEPT !.mtu = m])>>)
    BY <1>8 DEF UpdateGatewayBond
  <2>2. GoodRow("bonds", b, [Bond(b) EXCEPT !.mtu = m], asked + 1)
    BY <1>2, <2>1 DEF GoodRow, BondOk, BondRows, MayChangeMtuTo
  <2> QED
    BY <1>2, <2>1, <2>2, PutRequested
<1>9. CASE DeleteGatewayBond
  <2>1. PICK b \in Ids("bonds") : Handles({"bonds"}, <<Drop("bonds", b)>>)
    BY <1>9 DEF DeleteGatewayBond
  <2> QED
    BY <2>1, <1>2, DropRequested
<1>10. CASE ApplyGatewayBond
  <2>1. PICK b \in Ids("bonds") : Handles({"bonds"}, <<Put("bonds", b, [Bond(b) EXCEPT !.applied = Bond(b).mtu])>>)
    BY <1>10 DEF ApplyGatewayBond
  <2>2. GoodRow("bonds", b, [Bond(b) EXCEPT !.applied = Bond(b).mtu], asked + 1)
    BY <1>2, <2>1 DEF GoodRow, BondOk, BondRows
  <2> QED
    BY <1>2, <2>1, <2>2, PutRequested
<1>11. CASE SetRetentionPolicy
  <2>1. PICK p \in Owners \cup {None}, d \in Days :
        LET rows == IF PolicyFor(p) # {} THEN PolicyFor(p) ELSE FreshIds("retention", RetentionIds)
        IN /\ "retention" \in DOMAIN db
           /\ DaysValid(d)
           /\ \E k \in rows : Handles({"retention"}, <<Put("retention", k, [project |-> p, days |-> d])>>)
    BY <1>11 DEF SetRetentionPolicy
  <2>2. PICK k \in IF PolicyFor(p) # {} THEN PolicyFor(p) ELSE FreshIds("retention", RetentionIds) :
          Handles({"retention"}, <<Put("retention", k, [project |-> p, days |-> d])>>)
    BY <2>1
  <2> DEFINE row == [project |-> p, days |-> d]
             w == Put("retention", k, row)
  <2>3. GoodRow("retention", k, row, asked + 1)
    BY <2>1 DEF GoodRow, RetentionOk, RetentionRows
  <2>4. w.table = "retention" /\ w.id = k /\ w.row.project = p
    BY DEF Put, Write
  <2>5. Ids("retention") = DOMAIN db.retention /\ Rows("retention") = db.retention
    BY <2>1 DEF Ids, Rows
  <2>6. PolicyFor(p) = {j \in DOMAIN db.retention : db.retention[j].project = p}
    BY <2>5 DEF PolicyFor, RetentionPolicy
  <2> HIDE DEF w
  <2>7. SeenRetention(w, db)
    <3>1. CASE PolicyFor(p) # {}
      <4>1. k \in PolicyFor(p)
        BY <3>1
      <4> QED
        BY <4>1, <2>4, <2>6 DEF SeenRetention
    <3>2. CASE PolicyFor(p) = {}
      <4>1. k \notin DOMAIN db.retention
        BY <3>2, <2>5, FreshFact
      <4> QED
        BY <3>2, <4>1, <2>4, <2>6 DEF SeenRetention
    <3> QED
      BY <3>1, <3>2
  <2>8. Seen({"retention"}, w, db)
    BY <2>4, <2>7 DEF Seen
  <2> QED
    BY <2>1, <2>2, <2>3, <2>8, SeenRequested DEF w
<1>12. CASE DeleteRetentionPolicy
  <2>1. PICK k \in Ids("retention") : Handles({"retention"}, <<Drop("retention", k)>>)
    BY <1>12 DEF DeleteRetentionPolicy
  <2> QED
    BY <2>1, RowThere, DropRequested
<1> QED
  BY <1>3, <1>4, <1>5, <1>6, <1>7, <1>8, <1>9, <1>10, <1>11, <1>12 DEF GovernanceNext

(* The handlers of load balancers (N4) save rows that load. *)
LEMMA BalancingRequested == ASSUME GoodState, BalancingNext PROVE Requested
<1> USE DEF Guarded, Special
<1>1. ASSUME NEW b \in Ids("lbs") PROVE "lbs" \in DOMAIN db /\ BalancerOk(b, Balancer(b)) /\ b \in Balancers
  BY <1>1, RowThere DEF GoodRow, Balancer, BalancerOk
<1>2. ASSUME NEW n \in Ids("listeners") PROVE "listeners" \in DOMAIN db /\ ListenerOk(Listener(n))
  BY <1>2, RowThere DEF GoodRow, Listener
<1>3. ASSUME NEW p \in Ids("lbPools") PROVE "lbPools" \in DOMAIN db /\ LbPoolOk(p, LbPool(p)) /\ p \in LbPools
  BY <1>3, RowThere DEF GoodRow, LbPool, LbPoolOk
<1>4. ASSUME NEW m \in Ids("lbMembers") PROVE "lbMembers" \in DOMAIN db /\ LbMemberOk(LbMember(m))
  BY <1>4, RowThere DEF GoodRow, LbMember
<1>5. ASSUME NEW k \in Ids("monitors") PROVE "monitors" \in DOMAIN db /\ MonitorOk(Monitor(k))
  BY <1>5, RowThere DEF GoodRow, Monitor
<1>6. ASSUME NEW b, "lbs" \in DOMAIN db, NEW row, BalancerOk(b, row), Handles({"lbs"}, <<Put("lbs", b, row)>>)
      PROVE  Requested
  <2>1. GoodRow("lbs", b, row, asked + 1)
    BY <1>6 DEF GoodRow
  <2> QED
    BY <1>6, <2>1, PutRequested
<1>7. CASE CreateLoadBalancer
  <2>1. PICK b \in FreshIds("lbs", Balancers) : "lbs" \in DOMAIN db /\ Handles({}, <<Put("lbs", b, NewBalancer)>>)
    BY <1>7 DEF CreateLoadBalancer
  <2>2. b \in Balancers
    BY FreshFact
  <2>3. GoodRow("lbs", b, NewBalancer, asked + 1)
    BY <2>2 DEF GoodRow, BalancerOk, NewBalancer
  <2> QED
    BY <2>1, <2>3, PutRequested
<1>8. CASE UpdateLoadBalancer
  BY <1>1, <1>6, <1>8 DEF UpdateLoadBalancer, SavesBalancer
<1>9. CASE DeleteLoadBalancer
  <2>1. PICK b \in Ids("lbs") : Handles({"lbs"}, <<Drop("lbs", b)>>)
    BY <1>9 DEF DeleteLoadBalancer
  <2> QED
    BY <2>1, <1>1, DropRequested
<1>10. CASE ApplyLoadBalancer
  <2>1. PICK b \in Ids("lbs") :
          SavesBalancer(b, [Balancer(b) EXCEPT !.applied = BalancerConfig(b), !.status = "active"])
    BY <1>10 DEF ApplyLoadBalancer
  <2> DEFINE old == Balancer(b)
             c == BalancerConfig(b)
             new == [old EXCEPT !.applied = c, !.status = "active"]
  <2>2. BalancerOk(b, old) /\ SavesBalancer(b, new)
    BY <1>1, <2>1
  <2> HIDE DEF old, c
  <2>3. /\ new \in [status : {"build", "active", "down"}, admin : BOOLEAN, applied : {c}]
        /\ new.applied = c /\ new.status = "active"
    BY <2>2 DEF BalancerOk
  <2> HIDE DEF new
  <2>4. BalancerOk(b, new)
    BY <2>2, <2>3 DEF BalancerOk
  <2> QED
    BY <1>1, <1>6, <2>2, <2>4 DEF SavesBalancer
<1>11. CASE SetLbAdminState
  <2>1. PICK b \in Ids("lbs"), up \in BOOLEAN :
          SavesBalancer(b, [Balancer(b) EXCEPT !.admin = up, !.status = IF up THEN "active" ELSE "down"])
    BY <1>11 DEF SetLbAdminState
  <2> DEFINE old == Balancer(b)
             new == [old EXCEPT !.admin = up, !.status = IF up THEN "active" ELSE "down"]
  <2>2. BalancerOk(b, old) /\ SavesBalancer(b, new)
    BY <1>1, <2>1
  <2> HIDE DEF old
  <2>3. /\ new \in [status : {"build", "active", "down"}, admin : BOOLEAN, applied : {old.applied}]
        /\ new.applied = old.applied /\ new.status = IF up THEN "active" ELSE "down"
        /\ new.admin = up
    BY <2>2 DEF BalancerOk
  <2> HIDE DEF new
  <2>4. BalancerOk(b, new)
    BY <2>2, <2>3 DEF BalancerOk
  <2> QED
    BY <1>1, <1>6, <2>2, <2>4 DEF SavesBalancer
<1>12. CASE CreateLbListener
  <2>1. PICK n \in FreshIds("listeners", Listeners), b \in Ids("lbs"), p \in LbPools \cup {None} :
          "listeners" \in DOMAIN db /\ Handles({"lbs"}, <<Put("listeners", n, NewListener(b, p))>>)
    BY <1>12 DEF CreateLbListener
  <2>2. GoodRow("listeners", n, NewListener(b, p), asked + 1)
    BY <1>1 DEF GoodRow, ListenerOk, ListenerRows, NewListener
  <2> QED
    BY <2>1, <2>2, PutRequested
<1>13. CASE UpdateLbListener
  <2>1. PICK n \in Ids("listeners"), p \in LbPools \cup {None} :
          Handles({"listeners"}, <<Put("listeners", n, [Listener(n) EXCEPT !.pool = IF p = None THEN @ ELSE p])>>)
    BY <1>13 DEF UpdateLbListener
  <2>2. GoodRow("listeners", n, [Listener(n) EXCEPT !.pool = IF p = None THEN @ ELSE p], asked + 1)
    BY <1>2 DEF GoodRow, ListenerOk, ListenerRows
  <2> QED
    BY <1>2, <2>1, <2>2, PutRequested
<1>14. CASE DeleteLbListener
  <2>1. PICK n \in Ids("listeners") : Handles({"listeners"}, <<Drop("listeners", n)>>)
    BY <1>14 DEF DeleteLbListener
  <2> QED
    BY <2>1, <1>2, DropRequested
<1>15. CASE CreateLbPool
  <2>1. PICK p \in FreshIds("lbPools", LbPools), b \in Ids("lbs") :
          "lbPools" \in DOMAIN db /\ Handles({"lbs"}, <<Put("lbPools", p, NewLbPool(b))>>)
    BY <1>15 DEF CreateLbPool
  <2>2. p \in LbPools /\ b \in Balancers
    BY <1>1, FreshFact
  <2>3. GoodRow("lbPools", p, NewLbPool(b), asked + 1)
    BY <2>2 DEF GoodRow, LbPoolOk, LbPoolRows, NewLbPool
  <2> QED
    BY <2>1, <2>3, PutRequested
<1>16. CASE UpdateLbPool
  <2>1. PICK p \in Ids("lbPools"), a \in 0 .. 1 :
          Handles({"lbPools"}, <<Put("lbPools", p, [LbPool(p) EXCEPT !.algorithm = a])>>)
    BY <1>16 DEF UpdateLbPool
  <2>2. GoodRow("lbPools", p, [LbPool(p) EXCEPT !.algorithm = a], asked + 1)
    BY <1>3 DEF GoodRow, LbPoolOk, LbPoolRows
  <2> QED
    BY <1>3, <2>1, <2>2, PutRequested
<1>17. CASE DeleteLbPool
  <2>1. PICK p \in Ids("lbPools") : Handles({"lbPools"}, <<Drop("lbPools", p)>>)
    BY <1>17 DEF DeleteLbPool
  <2> QED
    BY <2>1, <1>3, DropRequested
<1>18. CASE AddLbMember
  <2>1. PICK m \in FreshIds("lbMembers", Members), p \in Ids("lbPools"), v \in Weights :
          "lbMembers" \in DOMAIN db /\ Handles({"lbPools"}, <<Put("lbMembers", m, NewLbMember(p, v))>>)
    BY <1>18 DEF AddLbMember
  <2>2. GoodRow("lbMembers", m, NewLbMember(p, v), asked + 1)
    BY <1>3 DEF GoodRow, LbMemberOk, LbMemberRows, NewLbMember
  <2> QED
    BY <2>1, <2>2, PutRequested
<1>19. CASE UpdateLbMember
  <2>1. PICK m \in Ids("lbMembers"), v \in Weights :
          Handles({"lbMembers"}, <<Put("lbMembers", m, [LbMember(m) EXCEPT !.weight = v])>>)
    BY <1>19 DEF UpdateLbMember
  <2>2. GoodRow("lbMembers", m, [LbMember(m) EXCEPT !.weight = v], asked + 1)
    BY <1>4 DEF GoodRow, LbMemberOk, LbMemberRows
  <2> QED
    BY <1>4, <2>1, <2>2, PutRequested
<1>20. CASE RemoveLbMember
  <2>1. PICK m \in Ids("lbMembers") : Handles({"lbMembers"}, <<Drop("lbMembers", m)>>)
    BY <1>20 DEF RemoveLbMember
  <2> QED
    BY <2>1, <1>4, DropRequested
<1>21. CASE CreateHealthMonitor
  <2>1. PICK k \in FreshIds("monitors", Monitors), p \in Ids("lbPools"), t \in Timings :
          "monitors" \in DOMAIN db /\ Handles({"lbPools", "monitors"}, <<Put("monitors", k, NewMonitor(p, t))>>)
    BY <1>21 DEF CreateHealthMonitor
  <2>2. GoodRow("monitors", k, NewMonitor(p, t), asked + 1)
    BY <1>3 DEF GoodRow, MonitorOk, MonitorRows, NewMonitor
  <2> QED
    BY <2>1, <2>2, PutRequested
<1>22. CASE UpdateHealthMonitor
  <2>1. PICK k \in Ids("monitors"), t \in Timings :
          Handles({"monitors"}, <<Put("monitors", k, [Monitor(k) EXCEPT !.timing = t])>>)
    BY <1>22 DEF UpdateHealthMonitor
  <2>2. GoodRow("monitors", k, [Monitor(k) EXCEPT !.timing = t], asked + 1)
    BY <1>5 DEF GoodRow, MonitorOk, MonitorRows
  <2> QED
    BY <1>5, <2>1, <2>2, PutRequested
<1>23. CASE DeleteHealthMonitor
  <2>1. PICK k \in Ids("monitors") : Handles({"monitors"}, <<Drop("monitors", k)>>)
    BY <1>23 DEF DeleteHealthMonitor
  <2> QED
    BY <2>1, <1>5, DropRequested
<1> QED
  BY <1>7, <1>8, <1>9, <1>10, <1>11, <1>12, <1>13, <1>14, <1>15, <1>16, <1>17, <1>18, <1>19, <1>20, <1>21,
     <1>22, <1>23 DEF BalancingNext

(* A write after a list of writes. *)
LEMMA AppendFact ==
    ASSUME NEW n \in Nat, NEW f, DOMAIN f = 1 .. n, f = [i \in DOMAIN f |-> f[i]], NEW w
    PROVE  /\ IsWork(Append(f, w)) /\ DOMAIN Append(f, w) = 1 .. n + 1
           /\ \A i \in 1 .. n : Append(f, w)[i] = f[i]
           /\ Append(f, w)[n + 1] = w
<1>1. IsWork(f) /\ Len(f) = n
  BY ListFact
<1> DEFINE S == {f[i] : i \in DOMAIN f}
           T == S \cup {w}
           g == Append(f, w)
<1>2. f \in Seq(S)
  BY <1>1 DEF IsWork
<1> HIDE DEF S
<1>5. f \in Seq(T) /\ w \in T
  BY <1>2
<1> HIDE DEF T
<1>6. g \in Seq(T) /\ Len(g) = n + 1 /\ (\A i \in 1 .. n : g[i] = f[i]) /\ g[n + 1] = w
  BY <1>1, <1>5
<1> HIDE DEF g
<1>7. g = [i \in 1 .. Len(g) |-> g[i]] /\ DOMAIN g = 1 .. Len(g)
  BY <1>6
<1>3. /\ DOMAIN g = 1 .. n + 1 /\ g = [i \in DOMAIN g |-> g[i]]
      /\ (\A i \in 1 .. n : g[i] = f[i]) /\ g[n + 1] = w
  BY <1>6, <1>7
<1>4. IsWork(g)
  BY <1>3, ListFact
<1> QED
  BY <1>3, <1>4 DEF g

(* The lists of a finite set. *)
LEMMA SetToSeqsFact ==
    ASSUME NEW S, IsFiniteSet(S), NEW order \in SetToSeqs(S)
    PROVE  /\ Cardinality(S) \in Nat /\ order \in [1 .. Cardinality(S) -> S]
           /\ \A i, j \in DOMAIN order : i # j => order[i] # order[j]
<1>1. Cardinality(S) \in Nat
  BY FS_CardinalityType
<1>2. order \in [1 .. Cardinality(S) -> S] /\ \A i, j \in 1 .. Cardinality(S) : i # j => order[i] # order[j]
  BY DEF SetToSeqs
<1> QED
  BY <1>1, <1>2

(* A table has finitely many rows of any kind. *)
LEMMA IdsFinite ==
    ASSUME GoodState, NEW t, NEW S, S \subseteq Ids(t)
    PROVE  IsFiniteSet(S)
<1>1. CASE t \in DOMAIN db
  BY <1>1, FS_Subset DEF GoodState, GoodDb, Finite, Ids, Rows
<1>2. CASE t \notin DOMAIN db
  <2>1. S = {}
    BY <1>2 DEF Ids, Rows
  <2> QED
    BY <2>1, FS_EmptySet
<1> QED
  BY <1>1, <1>2

(* A schedule is saved. *)
LEMMA LawfulSchedule ==
    ASSUME NEW reads, NEW s \in Ids("schedules"), "schedules" \in DOMAIN db, NEW row,
           ScheduleOk(s, row, asked + 1), "schedules" \in reads,
           row.ran > Schedule(s).ran => Schedule(s).status # "paused"
    PROVE  LawfulWrite(reads, Put("schedules", s, row))
<1> DEFINE w == Put("schedules", s, row)
<1>1. w.kind = "save" /\ w.table = "schedules" /\ w.id = s /\ w.row = row
  BY DEF Put, Write
<1> HIDE DEF w
<1>2. GoodWrite(w, DOMAIN db, asked + 1)
  BY <1>1 DEF GoodWrite, GoodRow
<1>3. Rows("schedules") = db.schedules
  BY DEF Rows
<1>4. SeenSchedule(w, db)
  BY <1>1, <1>3 DEF SeenSchedule, Schedule
<1>5. Seen(reads, w, db)
  BY <1>1, <1>4 DEF Seen
<1>6. ~ Creates(reads, w)
  BY <1>1 DEF Creates
<1>7. LawfulWrite(reads, w)
  BY <1>1, <1>2, <1>5, <1>6 DEF LawfulWrite, Guarded
<1> QED
  BY <1>7 DEF w

(* The scheduler saves every schedule that is due, each once, and none   *)
(* of them is paused.                                                    *)
LEMMA TickRequested == ASSUME GoodState, TickScheduler PROVE Requested
<1>1. PICK t \in Times, outcome \in [Schedules -> {"active", "error"}] :
        LET due == {s \in ListedEnabled : IsDue(Schedule(s).expr, t)}
            run(s) == Put("schedules", s, [Schedule(s) EXCEPT !.ran = @ + 1, !.status = outcome[s]])
        IN /\ due # {}
           /\ \E order \in SetToSeqs(due) :
                Handles({"schedules"}, [i \in DOMAIN order |-> run(order[i])])
  BY DEF TickScheduler
<1> DEFINE due == {s \in ListedEnabled : IsDue(Schedule(s).expr, t)}
           row(s) == [Schedule(s) EXCEPT !.ran = @ + 1, !.status = outcome[s]]
           run(s) == Put("schedules", s, row(s))
<1>2. PICK order \in SetToSeqs(due) : Handles({"schedules"}, [i \in DOMAIN order |-> run(order[i])])
  BY <1>1
<1> DEFINE n == Cardinality(due)
           work == [i \in DOMAIN order |-> run(order[i])]
<1>3. due \subseteq Ids("schedules") /\ \A s \in due : Schedule(s).enabled
  BY DEF ListedEnabled
<1>4. IsFiniteSet(due)
  BY <1>3, IdsFinite
<1>5. n \in Nat /\ order \in [1 .. n -> due] /\ \A i, j \in DOMAIN order : i # j => order[i] # order[j]
  BY <1>2, <1>4, SetToSeqsFact
<1> HIDE DEF n, due
<1>6. /\ DOMAIN work = 1 .. n /\ work = [i \in DOMAIN work |-> work[i]]
      /\ \A i \in DOMAIN work : work[i] = run(order[i]) /\ order[i] \in due
      /\ \A i, j \in DOMAIN work : i # j => order[i] # order[j]
  BY <1>5
<1>7. ASSUME NEW s \in due PROVE LawfulWrite({"schedules"}, run(s))
  <2>1. s \in Ids("schedules") /\ Schedule(s).enabled
    BY <1>3
  <2>2. "schedules" \in DOMAIN db /\ ScheduleOk(s, Schedule(s), asked) /\ asked \in Nat
    BY <2>1, RowThere DEF GoodRow, Schedule, GoodState
  <2> DEFINE old == Schedule(s)
             new == [old EXCEPT !.ran = @ + 1, !.status = outcome[s]]
  <2>3. old \in [expr : Exprs, enabled : BOOLEAN, status : {"active", "paused", "error"}, ran : 0 .. asked]
        /\ ExprValid(old.expr) /\ s \in Schedules /\ old.status # "paused"
    BY <2>1, <2>2 DEF ScheduleOk
  <2>4. outcome[s] \in {"active", "error"}
    BY <2>3
  <2> HIDE DEF old
  <2>5. old.ran \in 0 .. asked /\ old.ran + 1 \in 0 .. asked + 1
    BY <2>2, <2>3
  <2>6. new \in [expr : Exprs, enabled : BOOLEAN, status : {"active", "paused", "error"}, ran : 0 .. asked + 1]
        /\ new.expr = old.expr /\ new.status # "paused"
    BY <2>3, <2>4, <2>5
  <2>7. ScheduleOk(s, new, asked + 1)
    BY <2>3, <2>6 DEF ScheduleOk
  <2>8. LawfulWrite({"schedules"}, Put("schedules", s, new))
    BY <2>1, <2>2, <2>3, <2>7, LawfulSchedule DEF old
  <2> QED
    BY <2>8 DEF old
<1> HIDE DEF run, work
<1>8. \A i \in DOMAIN work : LawfulWrite({"schedules"}, work[i])
  BY <1>6, <1>7
<1>9. \A i \in DOMAIN work : work[i].kind = "save" /\ work[i].table = "schedules" /\ work[i].id = order[i]
  <2> HIDE DEF row
  <2>1. \A s : run(s).kind = "save" /\ run(s).table = "schedules" /\ run(s).id = s
    BY DEF run, Put, Write
  <2> QED
    BY <1>6, <2>1
<1>10. IsWork(work)
  BY <1>5, <1>6, ListFact
<1>11. Apart(work) /\ InOrder(work)
  BY <1>6, <1>9 DEF Apart, InOrder, Guarded
<1>12. LawfulWork({"schedules"}, work)
  BY <1>8, <1>10, <1>11 DEF LawfulWork
<1> QED
  BY <1>2, <1>12, WorkRequested DEF work

(* Deleting a tunnel deletes its peers first, one by one. *)
LEMMA DeleteVpnTunnelRequested == ASSUME GoodState, DeleteVpnTunnel PROVE Requested
<1>1. PICK t \in Ids("tunnels") : \E order \in SetToSeqs(PeersIn(t)) :
        Handles({"tunnels", "vpnPeers"},
                Append([i \in DOMAIN order |-> Drop("vpnPeers", order[i])], Drop("tunnels", t)))
  BY DEF DeleteVpnTunnel
<1>2. PICK order \in SetToSeqs(PeersIn(t)) :
        Handles({"tunnels", "vpnPeers"},
                Append([i \in DOMAIN order |-> Drop("vpnPeers", order[i])], Drop("tunnels", t)))
  BY <1>1
<1> DEFINE n == Cardinality(PeersIn(t))
           f == [i \in DOMAIN order |-> Drop("vpnPeers", order[i])]
           work == Append(f, Drop("tunnels", t))
<1>3. n \in Nat /\ order \in [1 .. n -> PeersIn(t)]
  BY IdsFinite, SetToSeqsFact DEF PeersIn
<1>4. DOMAIN f = 1 .. n /\ f = [i \in DOMAIN f |-> f[i]] /\ \A i \in 1 .. n : f[i] = Drop("vpnPeers", order[i])
  BY <1>3
<1> HIDE DEF n, f
<1>5. /\ IsWork(work) /\ DOMAIN work = 1 .. n + 1
      /\ \A i \in 1 .. n : work[i] = f[i]
      /\ work[n + 1] = Drop("tunnels", t)
  BY <1>3, <1>4, AppendFact
<1> HIDE DEF work
<1>6. \A i \in DOMAIN work : work[i].kind = "delete" /\ work[i].table \in {"vpnPeers", "tunnels"}
  <2>1. \A i \in 1 .. n + 1 : i \in 1 .. n \/ i = n + 1
    BY <1>3
  <2> QED
    BY <2>1, <1>4, <1>5 DEF Drop, Write
<1>7. "tunnels" \in DOMAIN db /\ "vpnPeers" \in DOMAIN db
  BY RowThere DEF GoodState, DeploymentOk
<1>8. \A i \in DOMAIN work : LawfulWrite({"tunnels", "vpnPeers"}, work[i])
  BY <1>6, <1>7 DEF LawfulWrite, GoodWrite, Creates, Guarded
<1>9. Apart(work) /\ InOrder(work)
  BY <1>6 DEF Apart, InOrder
<1>10. LawfulWork({"tunnels", "vpnPeers"}, work)
  BY <1>5, <1>8, <1>9 DEF LawfulWork
<1> QED
  BY <1>2, <1>10, WorkRequested DEF work, f

(* The handlers of schedules, mirrors and VPN tunnels (N5) save rows     *)
(* that load and take nothing twice.                                     *)
LEMMA AdvancedRequested == ASSUME GoodState, AdvancedNext PROVE Requested
<1> USE DEF Guarded, Special
<1>1. ASSUME NEW s \in Ids("schedules") PROVE "schedules" \in DOMAIN db /\ ScheduleOk(s, Schedule(s), asked + 1)
  BY <1>1, RowThere DEF GoodRow, Schedule
<1>2. ASSUME NEW m \in Ids("mirrors") PROVE "mirrors" \in DOMAIN db /\ MirrorOk(Mirror(m))
  BY <1>2, RowThere DEF GoodRow, Mirror
<1>3. ASSUME NEW t \in Ids("tunnels") PROVE "tunnels" \in DOMAIN db /\ t \in Tunnels /\ Tunnel(t) \in TunnelRows
  BY <1>3, RowThere DEF GoodRow, Tunnel, TunnelOk
<1>4. ASSUME NEW p \in Ids("vpnPeers") PROVE "vpnPeers" \in DOMAIN db /\ VpnPeer(p) \in VpnPeerRows
  BY <1>4, RowThere DEF GoodRow, VpnPeer, VpnPeerOk
<1>5. asked \in Nat
  BY DEF GoodState
<1>6. ASSUME NEW s \in Ids("schedules"), NEW row, ScheduleOk(s, row, asked + 1), row.ran = Schedule(s).ran,
             SavesSchedule(s, row)
      PROVE  Requested
  <2> DEFINE w == Put("schedules", s, row)
  <2>1. row.ran \in Nat
    BY <1>5, <1>6 DEF ScheduleOk
  <2>2. LawfulWrite({"schedules"}, w)
    BY <1>1, <1>6, <2>1, LawfulSchedule
  <2>3. w.kind # "insert"
    BY DEF Put, Write
  <2> QED
    BY <1>6, <2>2, <2>3, WriteRequested DEF SavesSchedule
<1>7. CASE CreateApplySchedule
  <2>1. PICK s \in FreshIds("schedules", Schedules), e \in Exprs, enabled \in BOOLEAN :
        "schedules" \in DOMAIN db /\ ExprValid(e) /\ Handles({}, <<Put("schedules", s, NewSchedule(e, enabled))>>)
    BY <1>7 DEF CreateApplySchedule
  <2> DEFINE w == Put("schedules", s, NewSchedule(e, enabled))
  <2>2. s \in Schedules /\ s \in FreshIds("schedules", {s})
    BY FreshFact
  <2>3. GoodRow("schedules", s, NewSchedule(e, enabled), asked + 1)
    BY <2>1, <2>2, <1>5 DEF GoodRow, ScheduleOk, NewSchedule
  <2>4. w.kind = "save" /\ w.table = "schedules" /\ w.id = s /\ w.row = NewSchedule(e, enabled)
    BY DEF Put, Write
  <2>5. Drawn(w)
    BY <2>2, <2>4 DEF Drawn
  <2>6. GoodWrite(w, DOMAIN db, asked + 1)
    BY <2>1, <2>3, <2>4 DEF GoodWrite
  <2>7. Seen({}, w, db)
    BY <2>4 DEF Seen
  <2>8. LawfulWrite({}, w)
    BY <2>4, <2>5, <2>6, <2>7 DEF LawfulWrite
  <2> QED
    BY <2>1, <2>4, <2>8, WriteRequested
<1>8. CASE UpdateApplySchedule
  <2>1. PICK s \in Ids("schedules"), e \in Exprs : ExprValid(e) /\ SavesSchedule(s, [Schedule(s) EXCEPT !.expr = e])
    BY <1>8 DEF UpdateApplySchedule
  <2>2. ScheduleOk(s, [Schedule(s) EXCEPT !.expr = e], asked + 1)
        /\ [Schedule(s) EXCEPT !.expr = e].ran = Schedule(s).ran
    BY <1>1, <2>1 DEF ScheduleOk
  <2> QED
    BY <1>6, <2>1, <2>2
<1>9. CASE DeleteApplySchedule
  <2>1. PICK s \in Ids("schedules") : Handles({"schedules"}, <<Drop("schedules", s)>>)
    BY <1>9 DEF DeleteApplySchedule
  <2> QED
    BY <2>1, <1>1, DropRequested
<1>10. CASE ToggleApplySchedule
  <2>1. PICK s \in Ids("schedules"), enabled \in BOOLEAN :
          SavesSchedule(s, [Schedule(s) EXCEPT !.enabled = enabled,
                !.status = IF enabled THEN "active" ELSE "paused"])
    BY <1>10 DEF ToggleApplySchedule
  <2> DEFINE old == Schedule(s)
             new == [old EXCEPT !.enabled = enabled, !.status = IF enabled THEN "active" ELSE "paused"]
  <2>2. ScheduleOk(s, old, asked + 1) /\ SavesSchedule(s, new)
    BY <1>1, <2>1
  <2> HIDE DEF old
  <2>3. new \in [expr : Exprs, enabled : BOOLEAN, status : {"active", "paused", "error"}, ran : 0 .. asked + 1]
        /\ new.ran = old.ran /\ new.expr = old.expr /\ new.enabled = enabled
        /\ new.status = IF enabled THEN "active" ELSE "paused"
    BY <2>2 DEF ScheduleOk
  <2> HIDE DEF new
  <2>4. ScheduleOk(s, new, asked + 1)
    BY <2>2, <2>3 DEF ScheduleOk
  <2> QED
    BY <1>6, <2>2, <2>3, <2>4 DEF old
<1>11. CASE TickScheduler
  BY <1>11, TickRequested
<1>12. CASE CreateMirrorSession
  <2>1. PICK m \in FreshIds("mirrors", Mirrors), port \in BOOLEAN, ip \in BOOLEAN :
          "mirrors" \in DOMAIN db /\ Handles({}, <<Put("mirrors", m, NewMirror(port))>>)
    BY <1>12 DEF CreateMirrorSession
  <2>2. GoodRow("mirrors", m, NewMirror(port), asked + 1)
    BY DEF GoodRow, MirrorOk, MirrorRows, NewMirror
  <2> QED
    BY <2>1, <2>2, PutRequested
<1>13. CASE DeleteMirrorSession
  <2>1. PICK m \in Ids("mirrors") : Handles({"mirrors"}, <<Drop("mirrors", m)>>)
    BY <1>13 DEF DeleteMirrorSession
  <2> QED
    BY <2>1, <1>2, DropRequested
<1>14. CASE ApplyMirrorSession
  <2>1. PICK m \in Ids("mirrors") :
        LET row == Mirror(m)
        IN Handles({"mirrors"},
             <<Put("mirrors", m, [row EXCEPT !.status = "active", !.applied = MirrorConfig(row)])>>)
    BY <1>14 DEF ApplyMirrorSession
  <2> DEFINE row == Mirror(m)
             new == [row EXCEPT !.status = "active", !.applied = MirrorConfig(row)]
  <2>2. row \in MirrorRows
    BY <1>2 DEF MirrorOk
  <2> HIDE DEF row
  <2>3. MirrorOk(new)
    BY <2>2 DEF MirrorOk, MirrorRows, MirrorConfig
  <2>4. GoodRow("mirrors", m, new, asked + 1)
    BY <2>3 DEF GoodRow
  <2> QED
    BY <1>2, <2>1, <2>4, PutRequested DEF row
<1>15. ASSUME NEW t \in Tunnels, "tunnels" \in DOMAIN db, NEW reads, NEW row \in TunnelRows,
              Handles(reads, <<Put("tunnels", t, row)>>)
       PROVE  Requested
  <2>1. GoodRow("tunnels", t, row, asked + 1)
    BY DEF GoodRow, TunnelOk
  <2> QED
    BY <1>15, <2>1, PutRequested
<1>16. CASE CreateVpnTunnel
  <2>1. PICK t \in FreshIds("tunnels", Tunnels), wireguard \in BOOLEAN, k \in Secrets :
          "tunnels" \in DOMAIN db /\ Handles({}, <<Put("tunnels", t, NewTunnel(wireguard, k))>>)
    BY <1>16 DEF CreateVpnTunnel
  <2>2. NewTunnel(wireguard, k) \in TunnelRows
    BY DEF NewTunnel, TunnelRows
  <2> QED
    BY <1>15, <2>1, <2>2, FreshFact
<1>17. CASE UpdateVpnTunnel
  <2>1. PICK t \in Ids("tunnels"), k \in Secrets :
          Handles({"tunnels"}, <<Put("tunnels", t, [Tunnel(t) EXCEPT !.secret = k])>>)
    BY <1>17 DEF UpdateVpnTunnel
  <2>2. [Tunnel(t) EXCEPT !.secret = k] \in TunnelRows
    BY <1>3 DEF TunnelRows
  <2> QED
    BY <1>3, <1>15, <2>1, <2>2
<1>18. CASE DeleteVpnTunnel
  BY <1>18, DeleteVpnTunnelRequested
<1>19. CASE ApplyVpnTunnel
  <2>1. PICK t \in Ids("tunnels") :
        LET peers == {VpnPeer(p).key : p \in PeersIn(t)}
        IN Handles({"tunnels"}, <<Put("tunnels", t, [Tunnel(t) EXCEPT !.applied = TunnelConfig(Tunnel(t), peers)])>>)
    BY <1>19 DEF ApplyVpnTunnel
  <2> DEFINE peers == {VpnPeer(p).key : p \in PeersIn(t)}
             old == Tunnel(t)
             c == TunnelConfig(old, peers)
             new == [old EXCEPT !.applied = c]
  <2>2. peers \in SUBSET Keys
    BY <1>4 DEF PeersIn, VpnPeerRows
  <2>3. old \in TunnelRows
    BY <1>3
  <2>4. Handles({"tunnels"}, <<Put("tunnels", t, new)>>)
    BY <2>1
  <2> HIDE DEF peers, old
  <2>5. c \in [wireguard : BOOLEAN, secret : Secrets, peers : SUBSET Keys]
    BY <2>2, <2>3 DEF TunnelConfig, TunnelRows
  <2> HIDE DEF c
  <2>6. new \in TunnelRows
    BY <2>3, <2>5 DEF TunnelRows
  <2> QED
    BY <1>3, <1>15, <2>4, <2>6
<1>20. CASE AddVpnPeer
  <2>1. PICK p \in FreshIds("vpnPeers", VpnPeers), t \in Ids("tunnels"), k \in Keys :
          IsNewKey(t, k) /\ Handles({"tunnels", "vpnPeers"}, <<Put("vpnPeers", p, NewVpnPeer(t, k))>>)
    BY <1>20 DEF AddVpnPeer
  <2> DEFINE row == NewVpnPeer(t, k)
             w == Put("vpnPeers", p, row)
  <2>2. "vpnPeers" \in DOMAIN db
    BY <1>3 DEF GoodState, DeploymentOk
  <2>3. row.tunnel = t /\ row.key = k /\ row \in VpnPeerRows
    BY <1>3 DEF NewVpnPeer, VpnPeerRows
  <2>4. w.table = "vpnPeers" /\ w.id = p /\ w.row = row
    BY DEF Put, Write
  <2> HIDE DEF row, w
  <2>5. GoodRow("vpnPeers", p, row, asked + 1)
    BY <2>3 DEF GoodRow, VpnPeerOk
  <2>6. Ids("vpnPeers") = DOMAIN db.vpnPeers /\ Rows("vpnPeers") = db.vpnPeers
    BY <2>2 DEF Ids, Rows
  <2>7. p \notin DOMAIN db.vpnPeers
    BY <2>6, FreshFact
  <2>8. \A j \in DOMAIN db.vpnPeers : db.vpnPeers[j].tunnel = t => db.vpnPeers[j].key # k
    BY <2>1, <2>6 DEF IsNewKey, PeersIn, VpnPeer
  <2>9. Seen({"tunnels", "vpnPeers"}, w, db)
    BY <2>3, <2>4, <2>7, <2>8 DEF Seen, SeenKeys
  <2> QED
    BY <2>1, <2>2, <2>5, <2>9, SeenRequested DEF row, w
<1>21. CASE UpdateVpnPeer
  <2>1. PICK p \in Ids("vpnPeers") : Handles({"vpnPeers"}, <<Put("vpnPeers", p, VpnPeer(p))>>)
    BY <1>21 DEF UpdateVpnPeer
  <2> DEFINE w == Put("vpnPeers", p, VpnPeer(p))
  <2>2. "vpnPeers" \in DOMAIN db /\ VpnPeer(p) = db.vpnPeers[p] /\ p \in DOMAIN db.vpnPeers
    BY RowThere DEF VpnPeer
  <2>3. w.table = "vpnPeers" /\ w.id = p /\ w.row = VpnPeer(p)
    BY DEF Put, Write
  <2> HIDE DEF w
  <2>4. GoodRow("vpnPeers", p, VpnPeer(p), asked + 1)
    BY <1>4 DEF GoodRow, VpnPeerOk
  <2>5. Seen({"vpnPeers"}, w, db)
    BY <2>2, <2>3 DEF Seen, SeenKeys
  <2> QED
    BY <2>1, <2>2, <2>4, <2>5, SeenRequested DEF w
<1>22. CASE RemoveVpnPeer
  <2>1. PICK p \in Ids("vpnPeers") : Handles({"vpnPeers"}, <<Drop("vpnPeers", p)>>)
    BY <1>22 DEF RemoveVpnPeer
  <2> QED
    BY <2>1, <1>4, DropRequested
<1> QED
  BY <1>7, <1>8, <1>9, <1>10, <1>11, <1>12, <1>13, <1>14, <1>16, <1>17, <1>18, <1>19, <1>20, <1>21, <1>22
  DEF AdvancedNext

------------------------------------------------------------------------------
(* Networks and addresses. *)

(* What a subnet is made of. *)
LEMMA SubnetFact ==
    ASSUME NEW s \in Subnets
    PROVE  /\ s.cidr \in Cidrs /\ s.gateway \in Gateways /\ s.pools \in Pools /\ s.reserved \in Ranges
           /\ s # None
           /\ s.cidr \in Nat \X Nat /\ s.gateway \in Nat \cup {None} /\ s.pools \in Seq(Nat \X Nat)
           /\ s.reserved \in SUBSET (Nat \X Nat)
<1>1. s.cidr \in Cidrs /\ s.gateway \in Gateways /\ s.pools \in Pools /\ s.reserved \in Ranges
  BY DEF Subnets, Subnet
<1> QED
  BY <1>1, IpamAssumption

(* A network is saved with the hash of the spec it is saved with. *)
LEMMA RehashedOk ==
    ASSUME NEW n \in Networks, NEW s \in Subnets \cup {None}, NEW nat \in NatSpecs, NEW hash,
           NEW row, row = [subnet |-> s, nat |-> nat, hash |-> hash]
    PROVE  /\ NetworkOk(n, Rehashed(row)) /\ Rehashed(row).subnet = s
<1> DEFINE h == SpecHash(row)
<1>1. h = [subnet |-> IF s = None THEN None ELSE <<s.cidr, s.gateway>>, nat |-> nat]
  BY DEF SpecHash
<1>2. s # None => <<s.cidr, s.gateway>> \in Cidrs \X Gateways
  BY SubnetFact
<1>3. h \in [subnet : {None} \cup (Cidrs \X Gateways), nat : NatSpecs]
  BY <1>1, <1>2
<1>4. Rehashed(row) = [subnet |-> s, nat |-> nat, hash |-> h]
  BY DEF Rehashed
<1> DEFINE new == [subnet |-> s, nat |-> nat, hash |-> h]
<1>5. h.subnet = IF new.subnet = None THEN None ELSE <<new.subnet.cidr, new.subnet.gateway>>
  BY <1>1
<1> HIDE DEF h
<1>6. new \in NetworkRows
  BY <1>3 DEF NetworkRows
<1>7. new.hash.subnet = SpecHash(new).subnet
  BY <1>5 DEF SpecHash
<1>8. NetworkOk(n, new)
  BY <1>6, <1>7 DEF NetworkOk
<1> QED
  BY <1>4, <1>8

\* What could still be reserved in a subnet, but for its first and last address.
OpenIn(s, taken) == {a \in Addresses \ taken : Assignable(s, a) /\ a \notin {s.cidr[1], s.cidr[2]}}

(* The allocator finds an address as long as there is one to reserve.      *)
LEMMA NextFact ==
    ASSUME NEW s \in Subnets, NEW taken
    PROVE  \/ NextAvailable(s, taken) \in OpenIn(s, taken)
           \/ NextAvailable(s, taken) = None /\ OpenIn(s, taken) = {}
<1> DEFINE pools == PoolsOf(s)
           free == [i \in DOMAIN PoolsOf(s) |-> Candidates(s, PoolsOf(s)[i]) \ taken]
           open == {i \in DOMAIN free : free[i] # {}}
           lo == s.cidr[1]
           hi == s.cidr[2]
<1>1. /\ s.cidr \in Cidrs /\ lo \in Nat /\ hi \in Nat /\ s.gateway \in Nat \cup {None} /\ None \notin Nat
      /\ s.pools \in Seq(Nat \X Nat) /\ s.reserved \in SUBSET (Nat \X Nat)
  BY SubnetFact, IpamAssumption
<1>2. \A i \in DOMAIN pools : i \in Nat /\ pools[i][1] \in Nat /\ pools[i][2] \in Int
  <2>1. CASE s.pools # <<>>
    BY <1>1, <2>1 DEF PoolsOf
  <2>2. CASE s.pools = <<>>
    <3>1. pools = << <<lo + 1, hi - 1>> >>
      BY <2>2 DEF PoolsOf
    <3>2. DOMAIN pools = {1} /\ pools[1][1] = lo + 1 /\ pools[1][2] = hi - 1
      BY <3>1
    <3> HIDE DEF pools, lo, hi
    <3> QED
      BY <1>1, <3>2
  <2> QED
    BY <2>1, <2>2
<1>3. NextAvailable(s, taken) = IF open = {} THEN None ELSE Min(free[Min(open)])
  BY DEF NextAvailable
<1>4. /\ DOMAIN free = DOMAIN pools
      /\ \A i \in DOMAIN pools : free[i] = Candidates(s, pools[i]) \ taken
  OBVIOUS
<1>5. \A i \in DOMAIN pools : \A a \in Nat :
        a \in Candidates(s, pools[i]) <=>
           /\ pools[i][1] <= a /\ a <= pools[i][2]
           /\ Inside(a, s.cidr) /\ a \notin {lo, hi, s.gateway} /\ \A r \in s.reserved : ~ Inside(a, r)
  BY <1>2 DEF Candidates
<1>6. \A i \in DOMAIN pools : Candidates(s, pools[i]) \subseteq Nat
  BY <1>2 DEF Candidates
<1>7. \A a \in Nat : Inside(a, s.cidr) => a \in Addresses
  <2> SUFFICES ASSUME NEW a \in Nat, Inside(a, s.cidr) PROVE a \in Addresses
    OBVIOUS
  <2>1. a \in s.cidr[1] .. s.cidr[2]
    BY <1>1 DEF Inside
  <2> QED
    BY <1>1, <2>1 DEF Addresses
<1>8. Addresses \subseteq Nat
  <2>1. \A c \in Cidrs : c[1] .. c[2] \subseteq Nat
    <3> SUFFICES ASSUME NEW c \in Cidrs PROVE c[1] .. c[2] \subseteq Nat
      OBVIOUS
    <3>1. c[1] \in Nat /\ c[2] \in Nat
      BY IpamAssumption
    <3> QED
      BY <3>1
  <2> QED
    BY <2>1 DEF Addresses
<1>9. \A a \in Nat : (s.pools = <<>> \/ \E i \in DOMAIN s.pools : Inside(a, s.pools[i])) /\ Inside(a, s.cidr)
                     /\ a \notin {lo, hi}
        <=> (\E i \in DOMAIN pools : pools[i][1] <= a /\ a <= pools[i][2]) /\ Inside(a, s.cidr) /\ a \notin {lo, hi}
  <2> TAKE a \in Nat
  <2>1. CASE s.pools # <<>>
    <3>1. pools = s.pools
      BY <2>1 DEF PoolsOf
    <3> HIDE DEF pools
    <3> QED
      BY <2>1, <3>1 DEF Inside
  <2>2. CASE s.pools = <<>>
    <3>1. pools = << <<lo + 1, hi - 1>> >>
      BY <2>2 DEF PoolsOf
    <3>2. DOMAIN pools = {1} /\ pools[1][1] = lo + 1 /\ pools[1][2] = hi - 1
      BY <3>1
    <3>3. Inside(a, s.cidr) <=> lo <= a /\ a <= hi
      BY DEF Inside
    <3> HIDE DEF pools, lo, hi
    <3>4. Inside(a, s.cidr) /\ a \notin {lo, hi} => lo + 1 <= a /\ a <= hi - 1
      BY <1>1, <3>3
    <3> QED
      BY <2>2, <3>2, <3>4
  <2> QED
    BY <2>1, <2>2
<1> HIDE DEF pools, free, open, lo, hi
<1>10. CASE open # {}
  <2>1. Min(open) \in open
    <3>1. open \subseteq Nat
      BY <1>2, <1>4 DEF open
    <3> QED
      BY <1>10, <3>1, MinFact
  <2> DEFINE i == Min(open)
  <2>2. i \in DOMAIN pools /\ free[i] # {}
    BY <2>1, <1>4 DEF open
  <2> HIDE DEF i
  <2>3. free[i] \subseteq Nat
    BY <2>2, <1>4, <1>6
  <2>4. Min(free[i]) \in free[i]
    BY <2>2, <2>3, MinFact
  <2> DEFINE a == Min(free[i])
  <2>5. NextAvailable(s, taken) = a
    BY <1>3, <1>10 DEF i
  <2>6. a \in Nat /\ a \in Candidates(s, pools[i]) /\ a \notin taken
    BY <2>2, <2>3, <2>4, <1>4
  <2> HIDE DEF a
  <2>7. /\ pools[i][1] <= a /\ a <= pools[i][2]
        /\ Inside(a, s.cidr) /\ a \notin {lo, hi, s.gateway} /\ \A r \in s.reserved : ~ Inside(a, r)
    BY <2>2, <2>6, <1>5
  <2>8. s.pools = <<>> \/ \E k \in DOMAIN s.pools : Inside(a, s.pools[k])
    BY <2>2, <2>6, <2>7, <1>9
  <2>9. Assignable(s, a)
    BY <2>7, <2>8 DEF Assignable
  <2>10. a \in OpenIn(s, taken)
    BY <2>6, <2>7, <2>9, <1>7 DEF OpenIn, lo, hi
  <2> QED
    BY <2>5, <2>10
<1>11. CASE open = {}
  <2>1. NextAvailable(s, taken) = None
    BY <1>3, <1>11
  <2>2. ASSUME NEW a \in OpenIn(s, taken) PROVE FALSE
    <3>1. a \in Nat /\ a \notin taken /\ Assignable(s, a) /\ a \notin {lo, hi}
      BY <1>8 DEF OpenIn, lo, hi
    <3>2. Inside(a, s.cidr) /\ a # s.gateway /\ (\A r \in s.reserved : ~ Inside(a, r))
          /\ (s.pools = <<>> \/ \E k \in DOMAIN s.pools : Inside(a, s.pools[k]))
      BY <3>1 DEF Assignable
    <3>3. PICK i \in DOMAIN pools : pools[i][1] <= a /\ a <= pools[i][2]
      BY <3>1, <3>2, <1>9
    <3>4. a \in Candidates(s, pools[i])
      BY <3>1, <3>2, <3>3, <1>5
    <3>5. free[i] # {} /\ i \in DOMAIN free
      BY <3>1, <3>4, <1>4
    <3> QED
      BY <3>5, <1>11 DEF open
  <2> QED
    BY <2>1, <2>2
<1> QED
  BY <1>10, <1>11

(* A network is saved. *)
LEMMA NetworkRequested ==
    ASSUME GoodState, "networks" \in DOMAIN db, NEW n \in Networks, NEW s \in Subnets \cup {None},
           NEW reads, "networks" \in reads, NEW row, NetworkOk(n, row), row.subnet = s,
           n \in DOMAIN db.networks \/ n \in FreshIds("networks", Networks),
           s = None => ~ HasSubnet(db, n),
           \/ s = None \/ Plain(s)
           \/ n \in DOMAIN db.networks /\ s = db.networks[n].subnet
           \/ "allocs" \in reads /\ Encloses(db, n, s),
           Handles(reads, <<Put("networks", n, row)>>)
    PROVE  Requested
<1> DEFINE w == Put("networks", n, row)
<1>1. w.table = "networks" /\ w.id = n /\ w.row = row
  BY DEF Put, Write
<1> HIDE DEF w
<1>2. SeenNetworks(reads, w, db)
  BY <1>1 DEF SeenNetworks
<1>3. Seen(reads, w, db)
  BY <1>1, <1>2 DEF Seen
<1>4. GoodRow("networks", n, row, asked + 1)
  BY DEF GoodRow
<1>5. KnownOrNew(w, db, Bundle) /\ ~ Clears(w, db)
  BY <1>1 DEF KnownOrNew, Clears, FreshIds, Bundle
<1> QED
  BY <1>3, <1>4, <1>5, SeenRequested DEF w

(* A network that a handler has loaded is there. *)
LEMMA NetworkThere ==
    ASSUME GoodState, NEW n \in Ids("networks")
    PROVE  /\ "networks" \in DOMAIN db /\ n \in DOMAIN db.networks /\ Network(n) = db.networks[n]
           /\ NetworkOk(n, Network(n)) /\ n \in Networks
           /\ Network(n).subnet \in Subnets \cup {None} /\ Network(n).nat \in NatSpecs
           /\ Network(n) = [subnet |-> Network(n).subnet, nat |-> Network(n).nat, hash |-> Network(n).hash]
<1>1. "networks" \in DOMAIN db /\ n \in DOMAIN db.networks /\ Network(n) = db.networks[n] /\ NetworkOk(n, Network(n))
  BY RowThere DEF GoodRow, Network
<1>2. Network(n) \in NetworkRows /\ n \in Networks
  BY <1>1 DEF NetworkOk
<1> HIDE DEF Network
<1> QED
  BY <1>1, <1>2 DEF NetworkRows

(* An address is given to a network. *)
LEMMA AddressRequested ==
    ASSUME GoodState, NEW n \in Ids("networks"), "allocs" \in DOMAIN db, NEW a, NEW ip \in Addresses,
           Network(n).subnet # None, Inside(ip, Network(n).subnet.cidr),
           Handles({"networks", "allocs"}, <<Put("allocs", a, NewAllocation(n, ip))>>)
    PROVE  Requested
<1> DEFINE row == NewAllocation(n, ip)
           w == Put("allocs", a, row)
<1>1. w.table = "allocs" /\ w.row = row /\ row.subnet = n /\ row.ip = ip /\ row \in AllocationRows
  BY NetworkThere DEF Put, Write, NewAllocation, AllocationRows
<1> HIDE DEF w, row
<1>2. SeenSubnet(w, db)
  BY <1>1, NetworkThere DEF SeenSubnet
<1>3. Seen({"networks", "allocs"}, w, db)
  BY <1>1, <1>2 DEF Seen
<1>4. GoodRow("allocs", a, row, asked + 1)
  BY <1>1 DEF GoodRow, AllocationOk
<1> QED
  BY <1>3, <1>4, SeenRequested DEF w, row

(* A subnet that replaces another has room for the addresses given out,  *)
(* or asks for nothing that is checked.                                  *)
LEMMA UpsertRequested == ASSUME GoodState, "allocs" \in DOMAIN db, UpsertSubnet PROVE Requested
<1>1. PICK n \in Ids("networks"), s \in Subnets :
        /\ Network(n).subnet # None => Fits(n, s)
        /\ Handles({"networks", "allocs"}, <<Put("networks", n, Rehashed([Network(n) EXCEPT !.subnet = s]))>>)
  BY DEF UpsertSubnet
<1> DEFINE old == Network(n)
           row == [old EXCEPT !.subnet = s]
<1>2. /\ "networks" \in DOMAIN db /\ n \in DOMAIN db.networks /\ old = db.networks[n] /\ n \in Networks
      /\ old.nat \in NatSpecs /\ old = [subnet |-> old.subnet, nat |-> old.nat, hash |-> old.hash]
  BY NetworkThere
<1>3. old.subnet # None => Fits(n, s)
  BY <1>1
<1>4. Handles({"networks", "allocs"}, <<Put("networks", n, Rehashed(row))>>)
  BY <1>1
<1> HIDE DEF old
<1>5. row = [subnet |-> s, nat |-> old.nat, hash |-> old.hash]
  BY <1>2
<1>6. NetworkOk(n, Rehashed(row)) /\ Rehashed(row).subnet = s
  BY <1>2, <1>5, RehashedOk
<1>7. Encloses(db, n, s)
  <2> SUFFICES ASSUME NEW a \in DOMAIN db.allocs, db.allocs[a].subnet = n PROVE Inside(db.allocs[a].ip, s.cidr)
    BY DEF Encloses
  <2>1. a \in Ids("allocs") /\ Allocation(a) = db.allocs[a]
    BY DEF Ids, Rows, Allocation
  <2>2. old.subnet # None
    <3> DEFINE k == Key("allocs", "subnet", "networks", "cascade")
    <3>1. k \in ForeignKeys /\ k.child = "allocs" /\ k.field = "subnet" /\ k.parent = "networks"
      BY DEF ForeignKeys, Key
    <3> HIDE DEF k
    <3>2. Refers(db, k)
      BY <3>1 DEF GoodState, GoodDb, Refs
    <3>3. n # None
      BY <1>2, IpamAssumption
    <3>4. Exists(db, k, n)
      BY <3>1, <3>2, <3>3 DEF Refers
    <3> QED
      BY <3>1, <3>4, <1>2 DEF Exists
  <2>3. Allocation(a).ip \in InUse(n)
    BY <2>1 DEF InUse
  <2> QED
    BY <1>3, <2>1, <2>2, <2>3 DEF Fits
<1>8. s # None
  BY SubnetFact
<1> HIDE DEF row
<1> QED
  BY <1>2, <1>4, <1>6, <1>7, <1>8, NetworkRequested

(* An address that is reserved is inside the subnet the allocator was    *)
(* given.                                                                *)
LEMMA AllocateRequested == ASSUME GoodState, "allocs" \in DOMAIN db, AllocateIp PROVE Requested
<1>1. PICK n \in Ids("networks"), a \in FreshIds("allocs", Allocations) :
        LET s == Network(n).subnet IN
        /\ s # None
        /\ HasPool(s)
        /\ NextAvailable(s, InUse(n)) # None
        /\ Handles({"networks", "allocs"},
                   <<Put("allocs", a, NewAllocation(n, NextAvailable(s, InUse(n))))>>)
  BY DEF AllocateIp
<1> DEFINE s == Network(n).subnet
           ip == NextAvailable(s, InUse(n))
<1>2. s # None /\ ip # None /\ Handles({"networks", "allocs"}, <<Put("allocs", a, NewAllocation(n, ip))>>)
  BY <1>1
<1>3. s \in Subnets
  BY <1>2, NetworkThere
<1>4. ip \in OpenIn(s, InUse(n))
  BY <1>2, <1>3, NextFact
<1> HIDE DEF ip
<1>5. ip \in Addresses /\ Inside(ip, s.cidr)
  BY <1>4 DEF OpenIn, Assignable
<1> QED
  BY <1>2, <1>5, AddressRequested

(* The handlers of networks, subnets and addresses save rows that load   *)
(* and fit.                                                              *)
LEMMA IpamRequested == ASSUME GoodState, Keeps("allocs"), IpamNext PROVE Requested
<1>0. "allocs" \in DOMAIN db
  BY DEF Keeps
<1>1. CASE CreateNetwork
  <2>1. PICK n \in FreshIds("networks", Networks), s \in Subnets \cup {None} :
        /\ "networks" \in DOMAIN db
        /\ s # None => s.pools = <<>> /\ s.reserved = {}
        /\ Handles({"networks"},
                   <<Put("networks", n, Rehashed([subnet |-> s, nat |-> None, hash |-> None]))>>)
    BY <1>1 DEF CreateNetwork
  <2> DEFINE row == [subnet |-> s, nat |-> None, hash |-> None]
  <2>2. n \in Networks /\ n \notin DOMAIN db.networks
    BY <2>1, FreshFact DEF Ids, Rows
  <2>3. NetworkOk(n, Rehashed(row)) /\ Rehashed(row).subnet = s
    BY <2>2, RehashedOk, IpamAssumption
  <2>4. s = None \/ Plain(s)
    BY <2>1 DEF Plain
  <2> HIDE DEF row
  <2> QED
    BY <2>1, <2>2, <2>3, <2>4, NetworkRequested DEF row, HasSubnet
<1>2. CASE UpdateNetwork
  <2>1. PICK n \in Ids("networks"), s \in Subnets \cup {None}, nat \in NatSpecs :
        LET old == Network(n)
            replaces == s # None /\ (old.subnet = None \/ old.subnet.cidr # s.cidr
                                                        \/ old.subnet.gateway # s.gateway)
            new == [old EXCEPT !.subnet = IF replaces THEN s ELSE @,
                               !.nat = IF nat # None THEN nat ELSE @]
        IN /\ s # None => s.pools = <<>> /\ s.reserved = {}
           /\ Handles({"networks"},
                      <<Put("networks", n, IF new # old THEN Rehashed(new) ELSE old)>>)
    BY <1>2 DEF UpdateNetwork
  <2> DEFINE old == Network(n)
             replaces == s # None /\ (old.subnet = None \/ old.subnet.cidr # s.cidr
                                                        \/ old.subnet.gateway # s.gateway)
             new == [old EXCEPT !.subnet = IF replaces THEN s ELSE @,
                                !.nat = IF nat # None THEN nat ELSE @]
             row == IF new # old THEN Rehashed(new) ELSE old
             t == IF replaces THEN s ELSE old.subnet
             m == IF nat # None THEN nat ELSE old.nat
  <2>2. (s # None => s.pools = <<>> /\ s.reserved = {}) /\ Handles({"networks"}, <<Put("networks", n, row)>>)
    BY <2>1
  <2>3. /\ "networks" \in DOMAIN db /\ n \in DOMAIN db.networks /\ old = db.networks[n] /\ n \in Networks
        /\ old.nat \in NatSpecs /\ old = [subnet |-> old.subnet, nat |-> old.nat, hash |-> old.hash]
        /\ NetworkOk(n, old) /\ old.subnet \in Subnets \cup {None}
    BY NetworkThere
  <2> HIDE DEF old, replaces
  <2>4. new = [subnet |-> t, nat |-> m, hash |-> old.hash] /\ t \in Subnets \cup {None} /\ m \in NatSpecs
    <3>1. t \in Subnets \cup {None} /\ m \in NatSpecs
      BY <2>3
    <3>2. new = [old EXCEPT !.subnet = t, !.nat = m]
      OBVIOUS
    <3> HIDE DEF t, m, new
    <3> QED
      BY <2>3, <3>1, <3>2
  <2>5. (t = None \/ Plain(t) \/ t = old.subnet) /\ (t = None => old.subnet = None)
    BY <2>2 DEF Plain, replaces
  <2> HIDE DEF new, t, m
  <2>6. NetworkOk(n, Rehashed(new)) /\ Rehashed(new).subnet = t
    BY <2>3, <2>4, RehashedOk
  <2>7. NetworkOk(n, row) /\ row.subnet = t
    BY <2>3, <2>4, <2>6
  <2> HIDE DEF row
  <2> QED
    BY <2>2, <2>3, <2>4, <2>5, <2>7, NetworkRequested DEF HasSubnet
<1>3. CASE ReserveIp
  <2>1. PICK n \in Ids("networks"), a \in FreshIds("allocs", Allocations), ip \in Addresses :
        /\ Network(n).subnet # None
        /\ Assignable(Network(n).subnet, ip)
        /\ Handles({"networks", "allocs"}, <<Put("allocs", a, NewAllocation(n, ip))>>)
    BY <1>3 DEF ReserveIp
  <2>2. Inside(ip, Network(n).subnet.cidr)
    BY <2>1 DEF Assignable
  <2> QED
    BY <1>0, <2>1, <2>2, AddressRequested
<1>4. CASE ReleaseIp
  <2>1. PICK a \in Ids("allocs") : Handles({}, <<Drop("allocs", a)>>)
    BY <1>4 DEF ReleaseIp, Handles
  <2> QED
    BY <1>0, <2>1, DropRequested DEF Guarded
<1> QED
  BY <1>0, <1>1, <1>2, <1>3, <1>4, UpsertRequested, AllocateRequested DEF IpamNext

(* A save of an account or of a token is lawful. *)
LEMMA LawfulAccess ==
    ASSUME NEW reads, NEW t \in {"accounts", "tokens"}, NEW id, NEW row, t \in DOMAIN db,
           GoodRow(t, id, row, asked + 1),
           Drawn(Put(t, id, row)) \/ id \in Ids(t), Creates(reads, Put(t, id, row)) => Drawn(Put(t, id, row)),
           t = "tokens" /\ "tokens" \in reads => SeenToken(Put(t, id, row), db)
    PROVE  LawfulWrite(reads, Put(t, id, row))
<1> DEFINE w == Put(t, id, row)
<1>1. w.kind = "save" /\ w.table = t /\ w.id = id /\ w.row = row
  BY DEF Put, Write
<1>2. /\ Drawn(w) \/ id \in Ids(t)
      /\ Creates(reads, w) => Drawn(w)
      /\ t = "tokens" /\ "tokens" \in reads => SeenToken(w, db)
  OBVIOUS
<1> HIDE DEF w
<1>3. GoodWrite(w, DOMAIN db, asked + 1)
  BY <1>1 DEF GoodWrite
<1>4. Seen(reads, w, db)
  BY <1>1, <1>2 DEF Seen
<1>5. LawfulWrite(reads, w)
  BY <1>1, <1>2, <1>3, <1>4 DEF LawfulWrite
<1> QED
  BY <1>5 DEF w

(* The fields of a save. *)
LEMMA PutFact ==
    ASSUME NEW t, NEW id, NEW row
    PROVE  /\ Put(t, id, row).kind = "save" /\ Put(t, id, row).table = t
           /\ Put(t, id, row).id = id /\ Put(t, id, row).row = row
BY DEF Put, Write

(* A row of accounts that is there, and one of tokens. *)
LEMMA AccountThere ==
    ASSUME GoodState, NEW a \in Ids("accounts")
    PROVE  /\ "accounts" \in DOMAIN db /\ "tokens" \in DOMAIN db /\ a \in Accounts
           /\ Account(a) \in AccountRows /\ Account(a) = db.accounts[a]
<1>1. "accounts" \in DOMAIN db /\ AccountOk(a, Account(a)) /\ Account(a) = db.accounts[a]
  BY RowThere DEF GoodRow, Account
<1>2. DeploymentOk(DOMAIN db)
  BY DEF GoodState
<1> QED
  BY <1>1, <1>2 DEF AccountOk, DeploymentOk

(* A token that a handler has loaded is there. *)
LEMMA TokenThere ==
    ASSUME GoodState, NEW tk \in Ids("tokens")
    PROVE  "tokens" \in DOMAIN db /\ Token(tk) \in TokenRows /\ Token(tk) = db.tokens[tk]
BY RowThere DEF GoodRow, Token, TokenOk

(* The bootstrap account and its token are saved where there is no       *)
(* account.                                                              *)
LEMMA BootstrapRequested == ASSUME GoodState, Bootstrap PROVE Requested
<1> DEFINE known == Named(BootName)
           boots == IF known # {} THEN known ELSE FreshIds("accounts", Accounts)
           account(a) == IF known # {} THEN <<>> ELSE <<Put("accounts", a, AccountRow(BootName, "admin"))>>
           reads == {"accounts", "tokens"}
<1>1. "accounts" \in DOMAIN db /\ ~ IsKnownToken(BootToken)
  BY DEF Bootstrap
<1>2. PICK a \in boots, tk \in FreshIds("tokens", Tokens) :
          Handles(reads, Append(account(a), Put("tokens", tk, TokenRow(a, BootToken))))
  BY DEF Bootstrap
<1>3. "tokens" \in DOMAIN db
  BY <1>1 DEF GoodState, DeploymentOk
<1>4. a \in Accounts
  <2>1. CASE known # {}
    BY <2>1, AccountThere DEF Named
  <2>2. CASE known = {}
    BY <2>2, FreshFact
  <2> QED
    BY <2>1, <2>2
<1> DEFINE w == Put("tokens", tk, TokenRow(a, BootToken))
           v == Put("accounts", a, AccountRow(BootName, "admin"))
<1>5. LawfulWrite(reads, w)
  <2>1. TokenRow(a, BootToken) \in TokenRows
    BY <1>4 DEF TokenRow, TokenRows
  <2>2. GoodRow("tokens", tk, TokenRow(a, BootToken), asked + 1)
    BY <2>1 DEF GoodRow, TokenOk
  <2>3. tk \in FreshIds("tokens", {tk}) /\ tk \notin DOMAIN db.tokens
    BY <1>3, FreshFact DEF FreshIds, Ids, Rows
  <2>4. w.table = "tokens" /\ w.id = tk
    BY PutFact
  <2>5. SeenToken(w, db)
    BY <2>3, <2>4 DEF SeenToken
  <2>6. Drawn(w)
    BY <2>3, <2>4 DEF Drawn
  <2> HIDE DEF w
  <2> QED
    BY <1>3, <2>2, <2>5, <2>6, LawfulAccess DEF w
<1>6. ASSUME known = {} PROVE LawfulWrite(reads, v)
  <2>1. AccountRow(BootName, "admin") \in AccountRows
    BY DEF AccountRow, AccountRows, Roles, RolePermissions
  <2>2. GoodRow("accounts", a, AccountRow(BootName, "admin"), asked + 1)
    BY <2>1, <1>4 DEF GoodRow, AccountOk
  <2>3. a \in FreshIds("accounts", {a})
    BY <1>6, FreshFact
  <2>4. v.table = "accounts" /\ v.id = a
    BY PutFact
  <2>5. Drawn(v)
    BY <2>3, <2>4 DEF Drawn
  <2> QED
    BY <1>1, <2>2, <2>5, LawfulAccess
<1>7. w.kind = "save" /\ w.table = "tokens" /\ v.kind = "save" /\ v.table = "accounts"
  BY PutFact
<1> HIDE DEF w, v
<1>8. CASE known # {}
  <2>1. Handles(reads, Append(<<>>, w))
    BY <1>2, <1>8 DEF w
  <2>2. IsWork(Append(<<>>, w)) /\ DOMAIN Append(<<>>, w) = 1 .. 1 /\ Append(<<>>, w)[1] = w
    <3> DEFINE f == <<>>
               n == 0
    <3>1. n \in Nat /\ DOMAIN f = 1 .. n /\ f = [i \in DOMAIN f |-> f[i]]
      OBVIOUS
    <3> HIDE DEF f, n
    <3>2. IsWork(Append(f, w)) /\ DOMAIN Append(f, w) = 1 .. n + 1 /\ Append(f, w)[n + 1] = w
      BY <3>1, AppendFact
    <3> QED
      BY <3>2 DEF f, n
  <2> DEFINE work == Append(<<>>, w)
  <2> HIDE DEF work
  <2>3. \A i \in DOMAIN work : i = 1
    BY <2>2 DEF work
  <2>4. Apart(work) /\ InOrder(work) /\ IsWork(work) /\ \A k \in DOMAIN work : LawfulWrite(reads, work[k])
    BY <2>2, <2>3, <1>5, <1>7 DEF Apart, InOrder, work
  <2> QED
    BY <2>1, <2>4, WorkRequested DEF LawfulWork, work
<1>9. CASE known = {}
  <2> DEFINE f == <<v>>
             work == Append(f, w)
             n == 1
  <2>1. Handles(reads, work)
    BY <1>2, <1>9 DEF w, v
  <2>2. n \in Nat /\ DOMAIN f = 1 .. n /\ f = [i \in DOMAIN f |-> f[i]] /\ f[1] = v
    OBVIOUS
  <2> HIDE DEF f, n
  <2>3. IsWork(work) /\ DOMAIN work = 1 .. n + 1 /\ (\A i \in 1 .. n : work[i] = f[i]) /\ work[n + 1] = w
    BY <2>2, AppendFact
  <2> HIDE DEF work
  <2>4. work[1] = v /\ work[2] = w /\ \A i \in DOMAIN work : i = 1 \/ i = 2
    BY <2>2, <2>3 DEF n
  <2>5. Apart(work) /\ InOrder(work)
    BY <2>4, <1>7 DEF Apart, InOrder, Guarded
  <2>6. \A k \in DOMAIN work : LawfulWrite(reads, work[k])
    BY <2>4, <1>5, <1>6, <1>9
  <2> QED
    BY <2>1, <2>3, <2>5, <2>6, WorkRequested DEF LawfulWork
<1> QED
  BY <1>8, <1>9

(* The handlers of projects, service accounts and tokens save rows that  *)
(* load and revive no token.                                             *)
LEMMA AccessRequested == ASSUME GoodState, AccessNext, ~ Expire PROVE Requested
<1> USE DEF Guarded, Special
<1>1. CASE CreateServiceAccount
  <2>1. PICK a \in FreshIds("accounts", Accounts), name \in Names, role \in Roles :
          "accounts" \in DOMAIN db /\ Handles({"accounts"}, <<Put("accounts", a, AccountRow(name, role))>>)
    BY <1>1 DEF CreateServiceAccount
  <2>2. a \in Accounts /\ a \in FreshIds("accounts", {a})
    BY FreshFact
  <2> DEFINE w == Put("accounts", a, AccountRow(name, role))
  <2>3. w.kind = "save" /\ w.table = "accounts" /\ w.id = a
    BY PutFact
  <2>4. GoodRow("accounts", a, AccountRow(name, role), asked + 1)
    BY <2>2 DEF GoodRow, AccountOk, AccountRows, AccountRow
  <2>5. Drawn(w)
    BY <2>2, <2>3 DEF Drawn
  <2>6. LawfulWrite({"accounts"}, w)
    BY <2>1, <2>4, <2>5, LawfulAccess
  <2> HIDE DEF w
  <2> QED
    BY <2>1, <2>3, <2>6, WriteRequested DEF w
<1>2. CASE DisableServiceAccount
  <2>1. PICK a \in Ids("accounts") :
          Handles({"accounts"}, <<Put("accounts", a, [Account(a) EXCEPT !.disabled = TRUE])>>)
    BY <1>2 DEF DisableServiceAccount
  <2> DEFINE old == Account(a)
             row == [old EXCEPT !.disabled = TRUE]
             w == Put("accounts", a, row)
  <2>2. "accounts" \in DOMAIN db /\ a \in Accounts /\ old \in AccountRows
    BY AccountThere
  <2>3. w.kind = "save" /\ w.table = "accounts" /\ w.id = a /\ w.row = row
    BY PutFact
  <2> HIDE DEF old
  <2>4. row \in AccountRows /\ row.disabled
    BY <2>2 DEF AccountRows
  <2>5. GoodRow("accounts", a, row, asked + 1)
    BY <2>2, <2>4 DEF GoodRow, AccountOk
  <2>6. ~ Creates({"accounts"}, w)
    BY <2>3, <2>4 DEF Creates
  <2>7. LawfulWrite({"accounts"}, w)
    BY <2>2, <2>5, <2>6, LawfulAccess
  <2> HIDE DEF w, row
  <2> QED
    BY <2>1, <2>3, <2>7, WriteRequested DEF w, row, old
<1>3. CASE IssueServiceToken
  <2>1. PICK a \in Ids("accounts"), tk \in FreshIds("tokens", Tokens) :
          Handles({"accounts"}, <<Put("tokens", tk, TokenRow(a, None))>>)
    BY <1>3 DEF IssueServiceToken
  <2>2. tk \in FreshIds("tokens", {tk}) /\ "tokens" \in DOMAIN db /\ a \in Accounts
    BY FreshFact, AccountThere
  <2> DEFINE w == Put("tokens", tk, TokenRow(a, None))
  <2>3. w.kind = "save" /\ w.table = "tokens" /\ w.id = tk
    BY PutFact
  <2>4. GoodRow("tokens", tk, TokenRow(a, None), asked + 1)
    BY <2>2 DEF GoodRow, TokenOk, TokenRows, TokenRow
  <2>5. Drawn(w)
    BY <2>2, <2>3 DEF Drawn
  <2>6. LawfulWrite({"accounts"}, w)
    BY <2>2, <2>4, <2>5, LawfulAccess
  <2> HIDE DEF w
  <2> QED
    BY <2>1, <2>3, <2>6, WriteRequested DEF w
<1>4. ASSUME NEW tk \in Ids("tokens"), NEW row \in TokenRows, row.revoked \/ ~ Token(tk).revoked,
             row.revoked \/ row.used, Handles({"tokens"}, <<Put("tokens", tk, row)>>)
      PROVE  Requested
  <2> DEFINE w == Put("tokens", tk, row)
  <2>1. w.kind = "save" /\ w.table = "tokens" /\ w.id = tk /\ w.row = row
    BY PutFact
  <2>2. "tokens" \in DOMAIN db /\ Token(tk) = db.tokens[tk]
    BY TokenThere
  <2>3. SeenToken(w, db)
    BY <1>4, <2>1, <2>2 DEF SeenToken
  <2>4. ~ Creates({"tokens"}, w)
    BY <1>4, <2>1 DEF Creates
  <2>5. GoodRow("tokens", tk, row, asked + 1)
    BY DEF GoodRow, TokenOk
  <2>6. LawfulWrite({"tokens"}, w)
    BY <2>2, <2>3, <2>4, <2>5, LawfulAccess
  <2> HIDE DEF w
  <2> QED
    BY <1>4, <2>1, <2>6, WriteRequested DEF w
<1>5. CASE RevokeServiceToken
  <2>1. PICK tk \in Ids("tokens") : Handles({"tokens"}, <<Put("tokens", tk, [Token(tk) EXCEPT !.revoked = TRUE])>>)
    BY <1>5 DEF RevokeServiceToken
  <2> DEFINE old == Token(tk)
             row == [old EXCEPT !.revoked = TRUE]
  <2>2. old \in TokenRows
    BY TokenThere
  <2> HIDE DEF old
  <2>3. row \in TokenRows /\ row.revoked
    BY <2>2 DEF TokenRows
  <2> HIDE DEF row
  <2> QED
    BY <2>1, <2>3, <1>4 DEF row, old
<1>6. CASE AuthenticatePrincipal
  <2>1. PICK tk \in Ids("tokens") : Valid(tk) /\ 
                    Handles({"tokens"}, <<Put("tokens", tk, [Token(tk) EXCEPT !.used = TRUE])>>)
    BY <1>6 DEF AuthenticatePrincipal
  <2> DEFINE old == Token(tk)
             row == [old EXCEPT !.used = TRUE]
  <2>2. old \in TokenRows /\ ~ old.revoked
    BY <2>1, TokenThere DEF Valid
  <2> HIDE DEF old
  <2>3. row \in TokenRows /\ row.used
    BY <2>2 DEF TokenRows
  <2> HIDE DEF row
  <2> QED
    BY <2>1, <2>2, <2>3, <1>4 DEF row, old
<1>7. CASE Bootstrap
  BY <1>7, BootstrapRequested
<1>8. ASSUME NEW p \in Ids("projects")
      PROVE  "projects" \in DOMAIN db /\ "members" \in DOMAIN db /\ ProjectOk(p, Project(p))
  <2>1. "projects" \in DOMAIN db /\ ProjectOk(p, Project(p))
    BY <1>8, RowThere DEF GoodRow, Project
  <2> QED
    BY <2>1 DEF GoodState, DeploymentOk
<1>9. CASE CreateProject
  <2>1. PICK p \in FreshIds("projects", Projects), slug \in Names :
          "projects" \in DOMAIN db /\ Handles({"projects"}, <<Put("projects", p, NewProject(slug))>>)
    BY <1>9 DEF CreateProject
  <2>0. p \in Projects
    BY FreshFact
  <2>2. p \in Projects /\ NewProject(slug) \in ProjectRows
    BY <2>0 DEF ProjectRows, NewProject
  <2>3. GoodRow("projects", p, NewProject(slug), asked + 1)
    BY <2>2 DEF GoodRow, ProjectOk
  <2> QED
    BY <2>1, <2>3, PutRequested
<1>10. CASE UpdateProject
  <2>1. PICK p \in Ids("projects"), labels \in 0 .. 1 :
          Handles({"projects"}, <<Put("projects", p, [Project(p) EXCEPT !.labels = labels])>>)
    BY <1>10 DEF UpdateProject
  <2> DEFINE old == Project(p)
             row == [old EXCEPT !.labels = labels]
  <2>2. p \in Projects /\ old \in ProjectRows
    BY <1>8 DEF ProjectOk
  <2> HIDE DEF old
  <2>3. row \in ProjectRows
    BY <2>2 DEF ProjectRows
  <2>4. GoodRow("projects", p, row, asked + 1)
    BY <2>2, <2>3 DEF GoodRow, ProjectOk
  <2> QED
    BY <2>1, <2>4, <1>8, PutRequested DEF old
<1>11. CASE DeleteProject
  <2>1. PICK p \in Ids("projects") : Handles({"projects"}, <<Drop("projects", p)>>)
    BY <1>11 DEF DeleteProject
  <2> QED
    BY <2>1, <1>8, DropRequested
<1>12. CASE AddProjectMember
  <2>1. PICK p \in Ids("projects"), a \in Ids("accounts") :
          Handles({"projects", "accounts"}, <<Put("members", <<p, a>>, NewMember(p, a))>>)
    BY <1>12 DEF AddProjectMember
  <2>2. GoodRow("members", <<p, a>>, NewMember(p, a), asked + 1)
    BY <1>8, AccountThere DEF GoodRow, MemberOk, ProjectMemberRows, NewMember, ProjectOk
  <2> QED
    BY <2>1, <2>2, <1>8, PutRequested
<1>13. CASE RemoveProjectMember
  <2>1. PICK k \in Ids("members") : Handles({"projects", "members"}, <<Drop("members", k)>>)
    BY <1>13 DEF RemoveProjectMember
  <2> QED
    BY <2>1, RowThere, DropRequested
<1> QED
  BY <1>1, <1>2, <1>3, <1>5, <1>6, <1>7, <1>9, <1>10, <1>11, <1>12, <1>13 DEF AccessNext

(* One list of writes after another. *)
LEMMA ConcatFact ==
    ASSUME NEW f, NEW g, IsWork(f), IsWork(g)
    PROVE  /\ IsWork(f \o g) /\ Len(f) \in Nat /\ Len(g) \in Nat /\ Len(f \o g) = Len(f) + Len(g)
           /\ DOMAIN (f \o g) = 1 .. Len(f) + Len(g)
           /\ \A i \in 1 .. Len(f) : (f \o g)[i] = f[i]
           /\ \A i \in 1 .. Len(g) : (f \o g)[Len(f) + i] = g[i]
<1> DEFINE S == {f[i] : i \in DOMAIN f}
           U == {g[i] : i \in DOMAIN g}
           T == S \cup U
           h == f \o g
           m == Len(f)
           n == Len(g)
<1>1. f \in Seq(S) /\ g \in Seq(U)
  BY DEF IsWork
<1> HIDE DEF S, U
<1>2. f \in Seq(T) /\ g \in Seq(T)
  BY <1>1
<1> HIDE DEF T
<1>3. m \in Nat /\ n \in Nat /\ h \in Seq(T) /\ Len(h) = m + n
  BY <1>2
<1>4. \A i \in 1 .. m + n : h[i] = IF i <= m THEN f[i] ELSE g[i - m]
  BY <1>2
<1> HIDE DEF h, m, n
<1>5. h = [i \in 1 .. Len(h) |-> h[i]] /\ DOMAIN h = 1 .. Len(h)
  BY <1>3
<1>6. DOMAIN h = 1 .. m + n /\ h = [i \in DOMAIN h |-> h[i]] /\ m + n \in Nat
  BY <1>3, <1>5
<1>7. IsWork(h)
  BY <1>6, ListFact
<1>8. \A i \in 1 .. m : i \in 1 .. m + n /\ h[i] = f[i]
  BY <1>3, <1>4
<1>9. \A i \in 1 .. n : h[m + i] = g[i]
  <2> SUFFICES ASSUME NEW i \in 1 .. n PROVE h[m + i] = g[i]
    OBVIOUS
  <2>1. m + i \in 1 .. m + n /\ ~ (m + i <= m) /\ (m + i) - m = i
    BY <1>3
  <2> QED
    BY <1>4, <2>1
<1> QED
  BY <1>3, <1>6, <1>7, <1>8, <1>9 DEF h, m, n

(* The inserts of a table: one of every row in the bundle. *)
LEMMA InsertsFact ==
    ASSUME NEW t, IsFiniteSet(DOMAIN Bundle[t])
    PROVE  /\ IsWork(Inserts(t)) /\ Len(Inserts(t)) \in Nat /\ DOMAIN Inserts(t) = 1 .. Len(Inserts(t))
           /\ \A k \in DOMAIN Inserts(t) : \E i \in DOMAIN Bundle[t] : Inserts(t)[k] = New(t, i, Bundle[t][i])
           /\ \A i \in DOMAIN Bundle[t] : \E k \in DOMAIN Inserts(t) : Inserts(t)[k] = New(t, i, Bundle[t][i])
<1> DEFINE S == DOMAIN Bundle[t]
           n == Cardinality(S)
           ids == SetToSeq(S)
           f == [k \in DOMAIN ids |-> New(t, ids[k], Bundle[t][ids[k]])]
<1>1. n \in Nat /\ ExistsBijection(1 .. n, S)
  BY FS_CardinalityType
<1>2. PICK b : b \in [1 .. n -> S] /\ IsInjective(b)
  BY <1>1 DEF ExistsBijection, Bijection, Injection
<1>3. ids \in [1 .. n -> S] /\ IsInjective(ids)
  BY <1>2, Zenon DEF SetToSeq
<1> HIDE DEF ids, n
<1>4. ids \in Injection(1 .. n, S)
  BY <1>3 DEF Injection
<1>5. Cardinality(1 .. n) = n /\ IsFiniteSet(1 .. n)
  BY <1>1, FS_Interval
<1>6. ids \in Surjection(1 .. n, S)
  BY <1>4, <1>5, FS_Injection DEF n
<1>7. \A i \in S : \E k \in 1 .. n : ids[k] = i
  BY <1>6 DEF Surjection
<1>8. DOMAIN f = 1 .. n /\ f = [k \in DOMAIN f |-> f[k]]
  BY <1>3
<1>9. \A k \in 1 .. n : ids[k] \in S /\ f[k] = New(t, ids[k], Bundle[t][ids[k]])
  BY <1>3
<1>10. Inserts(t) = f
  BY DEF Inserts, ids
<1> HIDE DEF f, S
<1>11. IsWork(f) /\ Len(f) = n
  BY <1>1, <1>8, ListFact
<1>12. \A k \in DOMAIN f : \E i \in S : f[k] = New(t, i, Bundle[t][i])
  BY <1>8, <1>9
<1>13. \A i \in S : \E k \in DOMAIN f : f[k] = New(t, i, Bundle[t][i])
  BY <1>7, <1>8, <1>9
<1> QED
  BY <1>1, <1>8, <1>10, <1>11, <1>12, <1>13 DEF S

(* An import inserts the rows of its bundle, networks before addresses. *)
LEMMA ImportRequested == ASSUME GoodState, Keeps("allocs"), Keeps("accounts"), ImportBundle PROVE Requested
<1> DEFINE A == Inserts("accounts")
           B == Inserts("nodes")
           C == Inserts("networks")
           D == Inserts("allocs")
           work == ((A \o B) \o C) \o D
<1>1. DOMAIN Bundle = {"networks", "nodes", "accounts", "allocs"} /\ Handles({}, work)
  <2>1. Range(ExportOrder) = {"networks", "nodes", "accounts", "allocs"}
    <3>1. DOMAIN ExportOrder = {1, 2, 3, 4} /\ ExportOrder[1] = "networks" /\ ExportOrder[2] = "nodes"
          /\ ExportOrder[3] = "accounts" /\ ExportOrder[4] = "allocs"
      BY DEF ExportOrder
    <3> QED
      BY <3>1 DEF Range
  <2>2. /\ ImportOrder[1] = "accounts" /\ ImportOrder[2] = "nodes" /\ ImportOrder[3] = "networks"
        /\ ImportOrder[4] = "allocs"
    BY DEF ImportOrder
  <2> QED
    BY <2>1, <2>2 DEF ImportBundle, IsComplete
<1>2. /\ \A t \in DOMAIN Bundle :
           IsFiniteSet(DOMAIN Bundle[t]) /\ \A i \in DOMAIN Bundle[t] : GoodRow(t, i, Bundle[t][i], asked)
      /\ \A a \in DOMAIN Bundle["allocs"] :
            /\ Bundle["allocs"][a].subnet \in DOMAIN Bundle["networks"]
            /\ Bundle["networks"][Bundle["allocs"][a].subnet].subnet # None
  BY <1>1 DEF GoodState, GoodBundle, Bundle
<1>3. {"networks", "nodes", "accounts", "allocs"} \subseteq DOMAIN db
  <2>1. DeploymentOk(DOMAIN db) /\ Key("allocs", "subnet", "networks", "cascade") \in ForeignKeys
    BY DEF GoodState, ForeignKeys
  <2> QED
    BY <2>1 DEF DeploymentOk, Keeps, Key
<1> DEFINE Ins(w) == \E t \in DOMAIN Bundle : \E i \in DOMAIN Bundle[t] : w = New(t, i, Bundle[t][i])
           Of(f, t) == /\ IsWork(f) /\ Len(f) \in Nat /\ DOMAIN f = 1 .. Len(f)
                       /\ \A k \in DOMAIN f : \E i \in DOMAIN Bundle[t] : f[k] = New(t, i, Bundle[t][i])
                       /\ \A i \in DOMAIN Bundle[t] : \E k \in DOMAIN f : f[k] = New(t, i, Bundle[t][i])
<1>4. Of(A, "accounts") /\ Of(B, "nodes") /\ Of(C, "networks") /\ Of(D, "allocs")
  BY <1>1, <1>2, InsertsFact
<1> HIDE DEF A, B, C, D
<1> DEFINE AB == A \o B
           ABC == AB \o C
           a == Len(A)
           b == Len(B)
           c == Len(C)
           d == Len(D)
<1>5. /\ a \in Nat /\ b \in Nat /\ c \in Nat /\ d \in Nat
      /\ \A w : (\E k \in DOMAIN A : A[k] = w) => Ins(w) /\ w.table = "accounts"
      /\ \A w : (\E k \in DOMAIN B : B[k] = w) => Ins(w) /\ w.table = "nodes"
      /\ \A w : (\E k \in DOMAIN C : C[k] = w) => Ins(w) /\ w.table = "networks"
      /\ \A w : (\E k \in DOMAIN D : D[k] = w) => Ins(w) /\ w.table = "allocs"
  BY <1>1, <1>4 DEF New, Write
<1>6. /\ IsWork(AB) /\ Len(AB) = a + b /\ DOMAIN AB = 1 .. a + b
      /\ \A i \in 1 .. a : AB[i] = A[i]
      /\ \A i \in 1 .. b : AB[a + i] = B[i]
  BY <1>4, ConcatFact
<1> HIDE DEF AB
<1>7. /\ IsWork(ABC) /\ Len(ABC) = (a + b) + c /\ DOMAIN ABC = 1 .. (a + b) + c
      /\ \A i \in 1 .. a + b : ABC[i] = AB[i]
      /\ \A i \in 1 .. c : ABC[(a + b) + i] = C[i]
  <2>1. IsWork(AB) /\ IsWork(C)
    BY <1>4, <1>6
  <2>2. /\ IsWork(ABC) /\ Len(ABC) = Len(AB) + c /\ DOMAIN ABC = 1 .. Len(AB) + c
        /\ \A i \in 1 .. Len(AB) : ABC[i] = AB[i]
        /\ \A i \in 1 .. c : ABC[Len(AB) + i] = C[i]
    BY <2>1, ConcatFact
  <2> QED
    BY <1>6, <2>2
<1> HIDE DEF ABC
<1> DEFINE m == (a + b) + c
<1>8. /\ IsWork(work) /\ DOMAIN work = 1 .. m + d
      /\ \A i \in 1 .. m : work[i] = ABC[i]
      /\ \A i \in 1 .. d : work[m + i] = D[i]
  <2>1. IsWork(ABC) /\ IsWork(D)
    BY <1>4, <1>7
  <2>2. work = ABC \o D
    BY DEF ABC, AB
  <2>3. /\ IsWork(ABC \o D) /\ DOMAIN (ABC \o D) = 1 .. Len(ABC) + d
        /\ \A i \in 1 .. Len(ABC) : (ABC \o D)[i] = ABC[i]
        /\ \A i \in 1 .. d : (ABC \o D)[Len(ABC) + i] = D[i]
    BY <2>1, ConcatFact
  <2> QED
    BY <1>7, <2>2, <2>3
<1> HIDE DEF work
<1>9. DOMAIN A = 1 .. a /\ DOMAIN B = 1 .. b /\ DOMAIN C = 1 .. c /\ DOMAIN D = 1 .. d
  BY <1>4
<1> HIDE DEF a, b, c, d
<1>10. ASSUME NEW k \in DOMAIN work
       PROVE  Ins(work[k]) /\ (work[k].table = "allocs" => k > m)
  <2>1. CASE k > m
    <3>1. k - m \in 1 .. d /\ m + (k - m) = k
      BY <1>5, <1>8, <2>1
    <3>2. work[k] = D[k - m]
      BY <1>8, <3>1
    <3> HIDE DEF Ins, m
    <3> QED
      BY <1>5, <1>9, <3>1, <3>2, <2>1
  <2>2. CASE k \in a + b + 1 .. m
    <3>1. k - (a + b) \in 1 .. c /\ (a + b) + (k - (a + b)) = k /\ k \in 1 .. m
      BY <1>5, <2>2
    <3>2. work[k] = C[k - (a + b)]
      BY <1>7, <1>8, <3>1
    <3> HIDE DEF Ins, m
    <3> QED
      BY <1>5, <1>9, <3>1, <3>2
  <2>3. CASE k \in a + 1 .. a + b
    <3>1. k - a \in 1 .. b /\ a + (k - a) = k /\ k \in 1 .. a + b /\ k \in 1 .. m
      BY <1>5, <2>3
    <3>2. work[k] = B[k - a]
      BY <1>6, <1>7, <1>8, <3>1
    <3> HIDE DEF Ins, m
    <3> QED
      BY <1>5, <1>9, <3>1, <3>2
  <2>4. CASE k \in 1 .. a
    <3>1. k \in 1 .. a + b /\ k \in 1 .. m
      BY <1>5, <2>4
    <3>2. work[k] = A[k]
      BY <1>6, <1>7, <1>8, <3>1, <2>4
    <3> HIDE DEF Ins, m
    <3> QED
      BY <1>5, <1>9, <2>4, <3>2
  <2> QED
    BY <1>5, <1>8, <2>1, <2>2, <2>3, <2>4
<1>11. \A j \in 1 .. c : (a + b) + j \in DOMAIN work /\ (a + b) + j <= m /\ work[(a + b) + j] = C[j]
  <2> SUFFICES ASSUME NEW j \in 1 .. c
               PROVE  (a + b) + j \in DOMAIN work /\ (a + b) + j <= m /\ work[(a + b) + j] = C[j]
    OBVIOUS
  <2>1. (a + b) + j \in 1 .. m /\ (a + b) + j \in 1 .. m + d
    BY <1>5
  <2> QED
    BY <1>7, <1>8, <2>1
<1>12. \A k \in DOMAIN work : k \in Nat /\ m \in Nat
  BY <1>5, <1>8
<1>13. \A w : Ins(w) => /\ w.kind = "insert" /\ w.table \in DOMAIN Bundle /\ w.id \in DOMAIN Bundle[w.table]
                        /\ w.row = Bundle[w.table][w.id]
  BY DEF New, Write
<1> HIDE DEF Ins, m
<1>14. \A k \in DOMAIN work : /\ work[k].kind = "insert" /\ work[k].table \in DOMAIN Bundle
                              /\ work[k].id \in DOMAIN Bundle[work[k].table]
                              /\ work[k].row = Bundle[work[k].table][work[k].id]
  BY <1>10, <1>13
<1>15. InOrder(work)
  <2> SUFFICES ASSUME NEW k \in DOMAIN work, work[k].table = "allocs"
               PROVE  \E j \in DOMAIN work :
                        /\ j < k /\ work[j].kind = "insert" /\ work[j].table = "networks"
                        /\ work[j].id = work[k].row.subnet /\ work[j].row.subnet # None
    BY DEF InOrder
  <2> DEFINE x == work[k].row.subnet
  <2>1. x \in DOMAIN Bundle["networks"] /\ Bundle["networks"][x].subnet # None
    BY <1>2, <1>14
  <2>2. PICK i \in 1 .. c : C[i] = New("networks", x, Bundle["networks"][x])
    BY <1>4, <1>9, <2>1
  <2> DEFINE j == (a + b) + i
  <2>3. j \in DOMAIN work /\ j <= m /\ work[j] = New("networks", x, Bundle["networks"][x])
    BY <1>11, <2>2
  <2>4. k > m
    BY <1>10
  <2> HIDE DEF j, x
  <2>5. j < k
    BY <1>12, <2>3, <2>4
  <2>6. work[j].kind = "insert" /\ work[j].table = "networks" /\ work[j].id = x /\ work[j].row.subnet # None
    BY <2>1, <2>3 DEF New, Write
  <2> QED
    BY <2>3, <2>5, <2>6 DEF x
<1>16. Apart(work)
  BY <1>14 DEF Apart
<1>17. ASSUME NEW k \in DOMAIN work PROVE LawfulWrite({}, work[k])
  <2> DEFINE w == work[k]
  <2>1. /\ w.kind = "insert" /\ w.table \in DOMAIN Bundle /\ w.id \in DOMAIN Bundle[w.table]
        /\ w.row = Bundle[w.table][w.id]
    BY <1>14
  <2> HIDE DEF w
  <2>2. GoodRow(w.table, w.id, w.row, asked)
    BY <1>2, <2>1
  <2>3. asked \in Nat /\ asked + 1 \in Nat /\ asked <= asked + 1
    BY DEF GoodState
  <2>4. GoodRow(w.table, w.id, w.row, asked + 1)
    BY <2>2, <2>3, GoodRowLater
  <2>5. GoodWrite(w, DOMAIN db, asked + 1)
    BY <1>1, <1>3, <2>1, <2>4 DEF GoodWrite
  <2>6. LawfulWrite({}, w)
    BY <1>1, <2>1, <2>5 DEF LawfulWrite, Creates
  <2> QED
    BY <2>6 DEF w
<1> QED
  BY <1>1, <1>8, <1>15, <1>16, <1>17, WorkRequested DEF LawfulWork, work

(* Audit events and operations end up in tables of their own. *)
LEMMA RetentionRequested ==
    ASSUME GoodState, RecordAudit \/ OperationEnds \/ SweepOperations
    PROVE  Requested
<1>1. CASE RecordAudit
  <2>1. PICK e \in FreshIds("audit", AuditIds \ files.archive) : "audit" \in DOMAIN db
              /\ RunsThrough(<<Put("audit", e, [old |-> FALSE])>>)
    BY <1>1 DEF RecordAudit
  <2>2. GoodRow("audit", e, [old |-> FALSE], asked + 1)
    BY DEF GoodRow
  <2> QED
    BY <2>1, <2>2, PutRequested DEF Special, Guarded, Handles
<1>2. CASE OperationEnds
  <2>1. PICK o \in FreshIds("operations", OperationIds) :
          "operations" \in DOMAIN db /\ RunsThrough(<<Put("operations", o, [old |-> FALSE])>>)
    BY <1>2 DEF OperationEnds
  <2>2. GoodRow("operations", o, [old |-> FALSE], asked + 1)
    BY DEF GoodRow
  <2> QED
    BY <2>1, <2>2, PutRequested DEF Special, Guarded, Handles
<1>3. CASE SweepOperations
  <2> DEFINE w == DropAll("operations", OldRows("operations"))
  <2>1. w.kind = "deleteAll" /\ w.table = "operations"
    BY DEF DropAll, Write
  <2>2. Handles({}, <<w>>)
    BY <1>3 DEF SweepOperations, Handles
  <2> HIDE DEF w
  <2>3. LawfulWrite({}, w)
    BY <2>1 DEF LawfulWrite, GoodWrite, Creates
  <2> QED
    BY <2>1, <2>2, <2>3, WriteRequested
<1> QED
  BY <1>1, <1>2, <1>3

------------------------------------------------------------------------------
(* Every step keeps tables, requests and files good.                       *)

(* What a counter bounds it bounds later. *)
LEMMA GoodLater ==
    ASSUME NEW n \in Nat, NEW m \in Nat, n <= m
    PROVE  /\ \A d : GoodDb(d, n) => GoodDb(d, m)
           /\ \A rs, tables : GoodRequests(rs, tables, n) => GoodRequests(rs, tables, m)
           /\ \A b : GoodBundle(b, n) => GoodBundle(b, m)
<1>1. \A t, i, row : GoodRow(t, i, row, n) => GoodRow(t, i, row, m)
  BY GoodRowLater
<1>2. \A w, tables : GoodWrite(w, tables, n) => GoodWrite(w, tables, m)
  BY <1>1 DEF GoodWrite
<1>3. \A work, tables : GoodWork(work, tables, n) => GoodWork(work, tables, m)
  BY <1>2 DEF GoodWork
<1>4. \A r, tables : GoodRequest(r, tables, n) => GoodRequest(r, tables, m)
  BY <1>3 DEF GoodRequest
<1>5. \A d : GoodDb(d, n) => GoodDb(d, m)
  BY <1>1 DEF GoodDb, GoodRows
<1>6. \A rs, tables : GoodRequests(rs, tables, n) => GoodRequests(rs, tables, m)
  BY <1>4 DEF GoodRequests
<1>7. \A b : GoodBundle(b, n) => GoodBundle(b, m)
  BY <1>1 DEF GoodBundle
<1> QED
  BY <1>5, <1>6, <1>7

(* Overtaking changes nothing of a request but its mark. *)
LEMMA OvertakenFact ==
    ASSUME NEW tables, NEW n, GoodRequests(req, tables, n), NEW d
    PROVE  /\ GoodRequests(Overtaken(d), tables, n)
           /\ \A q \in Requests : Overtaken(d)[q] # Idle =>
                /\ req[q] # Idle
                /\ Overtaken(d)[q].work = req[q].work /\ Overtaken(d)[q].reads = req[q].reads
                /\ ~ Overtaken(d)[q].overtaken => ~ req[q].overtaken /\ \A t \in req[q].reads : d[t] = db[t]
<1> DEFINE rs == Overtaken(d)
           over(q) == [req[q] EXCEPT !.overtaken = TRUE]
<1>1. rs = [q \in Requests |-> rs[q]]
      /\ \A q \in Requests : rs[q] = IF req[q] # Idle /\ \E t \in req[q].reads : d[t] # db[t] THEN over(q) ELSE req[q]
  BY DEF Overtaken
<1>2. \A q \in Requests : req[q] # Idle =>
        /\ req[q] = [reads |-> req[q].reads, work |-> req[q].work, overtaken |-> req[q].overtaken]
        /\ req[q].work # <<>> /\ GoodWork(req[q].work, tables, n)
  BY DEF GoodRequests, GoodRequest
<1> HIDE DEF rs, over
<1>3. ASSUME NEW q \in Requests, rs[q] # Idle
      PROVE  /\ req[q] # Idle /\ GoodRequest(rs[q], tables, n)
             /\ rs[q].work = req[q].work /\ rs[q].reads = req[q].reads
             /\ ~ rs[q].overtaken => ~ req[q].overtaken /\ \A t \in req[q].reads : d[t] = db[t]
  <2>1. req[q] # Idle
    BY <1>1, <1>3
  <2>2. GoodRequest(req[q], tables, n)
    BY <2>1 DEF GoodRequests
  <2>3. CASE \E t \in req[q].reads : d[t] # db[t]
    <3>1. rs[q] = over(q)
      BY <1>1, <2>1, <2>3
    <3>2. over(q) = [reads |-> req[q].reads, work |-> req[q].work, overtaken |-> TRUE]
      <4> DEFINE r == req[q]
      <4>1. r = [reads |-> r.reads, work |-> r.work, overtaken |-> r.overtaken]
                  /\ over(q) = [r EXCEPT !.overtaken = TRUE]
        BY <1>2, <2>1 DEF over
      <4> HIDE DEF r
      <4>2. over(q) = [reads |-> r.reads, work |-> r.work, overtaken |-> TRUE]
        BY <4>1
      <4> QED
        BY <4>2 DEF r
    <3> QED
      BY <2>1, <2>2, <3>1, <3>2 DEF GoodRequest
  <2>4. CASE ~ \E t \in req[q].reads : d[t] # db[t]
    BY <1>1, <2>1, <2>2, <2>4
  <2> QED
    BY <2>3, <2>4
<1> QED
  BY <1>1, <1>3 DEF GoodRequests, rs

(* The work a request decides on is good. *)
LEMMA LawfulIsGood ==
    ASSUME NEW reads, NEW work, LawfulWork(reads, work)
    PROVE  GoodWork(work, DOMAIN db, asked + 1)
BY DEF LawfulWork, LawfulWrite, GoodWork

(* Parents are kept with their children. *)
LEMMA ParentsKept ==
    ASSUME NEW d, DOMAIN d = DOMAIN db, GoodState
    PROVE  HasParents(d)
BY DEF GoodState, DeploymentOk, HasParents

(* A request is suspended with what it is about to write. *)
LEMMA SuspendedGood ==
    ASSUME NEW n, GoodRequests(req, DOMAIN db, n), NEW reads, NEW work, work # <<>>, GoodWork(work, DOMAIN db, n),
           NEW q \in Requests, NEW rs,
           rs = [req EXCEPT ![q] = [reads |-> reads, work |-> work, overtaken |-> FALSE]]
    PROVE  GoodRequests(rs, DOMAIN db, n)
<1> DEFINE r == [reads |-> reads, work |-> work, overtaken |-> FALSE]
<1>1. req = [p \in Requests |-> req[p]] /\ \A p \in Requests : req[p] # Idle => GoodRequest(req[p], DOMAIN db, n)
  BY DEF GoodRequests
<1>2. GoodRequest(r, DOMAIN db, n)
  BY DEF GoodRequest
<1>3. rs = [req EXCEPT ![q] = r]
  OBVIOUS
<1> HIDE DEF r
<1>4. rs = [p \in Requests |-> IF p = q THEN r ELSE req[p]]
  BY <1>1, <1>3
<1> QED
  BY <1>1, <1>2, <1>4 DEF GoodRequests

(* One request less. *)
LEMMA IdleGood ==
    ASSUME NEW n, NEW tables, GoodRequests(req, tables, n), NEW q \in Requests, NEW rs, rs = [req EXCEPT ![q] = Idle]
    PROVE  GoodRequests(rs, tables, n)
<1>1. req = [p \in Requests |-> req[p]] /\ \A p \in Requests : req[p] # Idle => GoodRequest(req[p], tables, n)
  BY DEF GoodRequests
<1>2. rs = [p \in Requests |-> IF p = q THEN Idle ELSE req[p]]
  BY <1>1
<1> QED
  BY <1>1, <1>2 DEF GoodRequests

(* A request that is handled, whether it runs through or is suspended,   *)
(* leaves a good state.                                                  *)
LEMMA RequestedGood == ASSUME GoodState, Requested PROVE GoodState'
<1>1. PICK reads, work : Handles(reads, work) /\ LawfulWork(reads, work)
  BY DEF Requested
<1>2. asked < MaxAsked /\ asked' = asked + 1 /\ asked \in Nat /\ asked + 1 \in 0 .. MaxAsked
  BY <1>1, StoreAssumption DEF Handles, RunsThrough, Suspends, Asks, GoodState
<1>3. /\ GoodDb(db, asked + 1) /\ GoodRequests(req, DOMAIN db, asked + 1) /\ GoodBundle(files.bundle, asked + 1)
  <2>1. asked + 1 \in Nat /\ asked <= asked + 1
    BY <1>2
  <2> QED
    BY <1>2, <2>1, GoodLater DEF GoodState
<1>4. GoodWork(work, DOMAIN db, asked + 1) /\ HasParents(db)
  BY <1>1, LawfulIsGood, ParentsKept
<1>5. CASE RunsThrough(work)
  <2>1. db' = AllWritten(db, work) /\ req' = Overtaken(db') /\ files' = files
    BY <1>5 DEF RunsThrough
  <2>2. GoodDb(db', asked + 1) /\ DOMAIN db' = DOMAIN db
    BY <1>3, <1>4, <2>1, AllWrittenGood
  <2>3. GoodRequests(req', DOMAIN db, asked + 1)
    BY <1>3, <2>1, OvertakenFact
  <2> QED
    BY <1>2, <1>3, <2>1, <2>2, <2>3 DEF GoodState
<1>6. CASE Suspends(reads, work)
  <2>1. PICK q \in Requests : req' = [req EXCEPT ![q] = [reads |-> reads, work |-> work, overtaken |-> FALSE]]
    BY <1>6 DEF Suspends
  <2>2. work # <<>> /\ db' = db /\ files' = files
    BY <1>6 DEF Suspends
  <2>3. GoodRequests(req', DOMAIN db, asked + 1)
    BY <1>3, <1>4, <2>1, <2>2, SuspendedGood
  <2> QED
    BY <1>2, <1>3, <2>2, <2>3 DEF GoodState
<1> QED
  BY <1>1, <1>5, <1>6 DEF Handles

(* A request goes on to its next write, or ends. *)
LEMMA WritesGood == ASSUME GoodState, NEW q \in Requests, Writes(q) PROVE GoodState'
<1> DEFINE w == Head(req[q].work)
           left == Tail(req[q].work)
<1>1. /\ req[q] # Idle /\ asked' = asked /\ files' = files
      /\ db' = IF Refused(db, w) THEN db ELSE Written(db, w)
      /\ req' = [Overtaken(db') EXCEPT ![q] =
                   IF ~ Refused(db, w) /\ left # <<>> THEN [req[q] EXCEPT !.work = left] ELSE Idle]
  BY DEF Writes
<1>2. /\ req[q] = [reads |-> req[q].reads, work |-> req[q].work, overtaken |-> req[q].overtaken]
      /\ req[q].work # <<>> /\ GoodWork(req[q].work, DOMAIN db, asked)
  BY <1>1 DEF GoodState, GoodRequests, GoodRequest
<1>3. /\ Head(req[q].work) = req[q].work[1] /\ 1 \in DOMAIN req[q].work
      /\ IsWork(left) /\ \A i \in DOMAIN left : i + 1 \in DOMAIN req[q].work /\ left[i] = req[q].work[i + 1]
  BY <1>2, TailFact DEF GoodWork
<1>4. GoodWrite(w, DOMAIN db, asked) /\ GoodWork(left, DOMAIN db, asked)
  BY <1>2, <1>3 DEF GoodWork
<1> HIDE DEF w, left
<1>5. GoodDb(db', asked) /\ DOMAIN db' = DOMAIN db
  <2>1. HasParents(db)
    BY ParentsKept
  <2> QED
    BY <1>1, <1>4, <2>1, WrittenGood DEF GoodState
<1>6. GoodRequests(req', DOMAIN db, asked)
  <2> DEFINE rs == Overtaken(db')
             r == IF ~ Refused(db, w) /\ left # <<>> THEN [req[q] EXCEPT !.work = left] ELSE Idle
  <2>1. GoodRequests(rs, DOMAIN db, asked)
    BY OvertakenFact DEF GoodState
  <2>2. r # Idle => GoodRequest(r, DOMAIN db, asked)
    <3>1. r # Idle => r = [reads |-> req[q].reads, work |-> left, overtaken |-> req[q].overtaken] /\ left # <<>>
      BY <1>2
    <3> QED
      BY <1>4, <3>1 DEF GoodRequest
  <2>3. req' = [rs EXCEPT ![q] = r]
    BY <1>1
  <2> HIDE DEF rs, r
  <2>4. req' = [p \in Requests |-> IF p = q THEN r ELSE rs[p]]
    BY <2>1, <2>3 DEF GoodRequests
  <2> QED
    BY <2>1, <2>2, <2>4 DEF GoodRequests
<1> QED
  BY <1>1, <1>5, <1>6 DEF GoodState

\* The tokens keep what the keys are about.
KeysKept(d, e) ==
    "tokens" \in DOMAIN d =>
        \A i \in DOMAIN d["tokens"] : \A c \in {"account", "hash"} : e["tokens"][i][c] = d["tokens"][i][c]

(* Rows change in columns no key is about. *)
LEMMA TouchedGood ==
    ASSUME NEW d, NEW e, NEW n, GoodDb(d, n), HasParents(d), GoodRows(e, n), NEW T,
           T \subseteq {"tokens", "audit", "operations"},
           DOMAIN e = DOMAIN d,
           \A t \in DOMAIN d : DOMAIN e[t] = DOMAIN d[t] /\ (t \notin T => e[t] = d[t]),
           KeysKept(d, e)
    PROVE  GoodDb(e, n)
<1>1. Finite(e)
  BY DEF GoodDb, Finite
<1>2. Uniques(e)
  <2>1. \A u \in UniqueKeys : u[1] \notin T \/ (u[1] = "tokens" /\ u[2] = {"hash"})
    BY DEF UniqueKeys
  <2>2. ASSUME NEW u \in UniqueKeys, u[1] \in DOMAIN d, NEW i \in DOMAIN d[u[1]], NEW c \in u[2]
        PROVE  e[u[1]][i][c] = d[u[1]][i][c]
    BY <2>1, <2>2 DEF KeysKept
  <2>3. ASSUME NEW u \in UniqueKeys, u[1] \in DOMAIN e, NEW i \in DOMAIN e[u[1]], NEW j \in DOMAIN e[u[1]], i # j
        PROVE  Differ(e, u, i, j)
    <3>1. u[1] \in DOMAIN d /\ i \in DOMAIN d[u[1]] /\ j \in DOMAIN d[u[1]]
      BY <2>3
    <3>2. PICK c \in u[2] : d[u[1]][i][c] # d[u[1]][j][c] \/ d[u[1]][j][c] = None
      BY <2>3, <3>1 DEF GoodDb, Uniques, Differ
    <3> QED
      BY <2>2, <3>1, <3>2 DEF Differ
  <2> QED
    BY <2>3 DEF Uniques
<1>3. Refs(e)
  <2> SUFFICES ASSUME NEW k \in ForeignKeys, k.child \in DOMAIN d, NEW i \in DOMAIN d[k.child],
                      e[k.child][i][k.field] # None
               PROVE  Exists(e, k, e[k.child][i][k.field])
    BY DEF Refs, Refers
  <2>1. k.parent \notin T /\ k.parent \in DOMAIN d
    BY KeyFacts DEF KeyFact, HasParents, Roots
  <2>2. e[k.child][i][k.field] = d[k.child][i][k.field]
    <3>1. CASE k.child = "tokens"
      <4>1. k.field = "account"
        BY <3>1, KeyFacts DEF KeyFact
      <4> QED
        BY <3>1, <4>1 DEF KeysKept
    <3>2. CASE k.child # "tokens"
      <4>1. k.child \notin T
        BY <3>2, KeyFacts DEF KeyFact
      <4> QED
        BY <4>1
    <3> QED
      BY <3>1, <3>2
  <2>3. Exists(d, k, d[k.child][i][k.field])
    BY <2>2 DEF GoodDb, Refs, Refers
  <2>4. e[k.parent] = d[k.parent] /\ (k.child = "allocs" => e["networks"] = d["networks"])
    BY <2>1, KeyFacts DEF KeyFact
  <2> QED
    BY <2>2, <2>3, <2>4 DEF Exists
<1> QED
  BY <1>1, <1>2, <1>3 DEF GoodDb

(* A token that has run out leaves a good state. *)
LEMMA ExpireGood == ASSUME GoodState, Expire PROVE GoodState'
<1>1. PICK tk \in Ids("tokens") : db' = [db EXCEPT !.tokens[tk].expired = TRUE]
  BY DEF Expire
<1>2. UNCHANGED <<req, asked, late, files>>
  BY DEF Expire
<1> DEFINE old == db["tokens"][tk]
           new == [old EXCEPT !.expired = TRUE]
<1>3. "tokens" \in DOMAIN db /\ tk \in DOMAIN db["tokens"] /\ old \in TokenRows
  BY RowThere, TokenThere DEF Token
<1>4. db' = [db EXCEPT !["tokens"] = [@ EXCEPT ![tk] = new]]
  BY <1>1
<1> HIDE DEF old
<1>5. new \in TokenRows /\ \A c \in {"account", "hash"} : new[c] = old[c]
  BY <1>3 DEF TokenRows
<1> HIDE DEF new
<1>6. /\ DOMAIN db' = DOMAIN db
      /\ \A t \in DOMAIN db : DOMAIN db'[t] = DOMAIN db[t] /\ (t # "tokens" => db'[t] = db[t])
      /\ \A i \in DOMAIN db["tokens"] : db'["tokens"][i] = IF i = tk THEN new ELSE db["tokens"][i]
  BY <1>3, <1>4
<1>7. GoodRows(db', asked)
  <2>1. GoodRow("tokens", tk, new, asked)
    BY <1>5 DEF GoodRow, TokenOk
  <2> QED
    BY <1>6, <2>1 DEF GoodState, GoodDb, GoodRows
<1>8. \A i \in DOMAIN db["tokens"] : \A c \in {"account", "hash"} : db'["tokens"][i][c] = db["tokens"][i][c]
  BY <1>5, <1>6 DEF old
<1> DEFINE T == {"tokens"}
           e == db'
<1>9. GoodDb(e, asked)
  <2>1. HasParents(db) /\ GoodDb(db, asked)
    BY ParentsKept DEF GoodState
  <2>2. DOMAIN e = DOMAIN db /\ \A t \in DOMAIN db : DOMAIN e[t] = DOMAIN db[t] /\ (t \notin T => e[t] = db[t])
    BY <1>6
  <2>3. GoodRows(e, asked)
        /\ \A i \in DOMAIN db["tokens"] : \A c \in {"account", "hash"} : e["tokens"][i][c] = db["tokens"][i][c]
    BY <1>7, <1>8
  <2>4. T \subseteq {"tokens", "audit", "operations"}
    OBVIOUS
  <2> HIDE DEF T, e
  <2>5. KeysKept(db, e)
    BY <2>3 DEF KeysKept
  <2> QED
    BY <2>1, <2>2, <2>3, <2>4, <2>5, TouchedGood
<1> QED
  BY <1>2, <1>6, <1>9 DEF GoodState

(* Events and operations that have become old leave a good state. *)
LEMMA TimePassesGood == ASSUME GoodState, TimePasses PROVE GoodState'
<1> DEFINE T == {"audit", "operations"}
<1>1. /\ db' = [t \in DOMAIN db |-> IF t \in T THEN [i \in Ids(t) |-> [old |-> TRUE]] ELSE db[t]]
      /\ UNCHANGED <<req, asked, late, files>>
  BY DEF TimePasses
<1>2. /\ DOMAIN db' = DOMAIN db
      /\ \A t \in DOMAIN db : DOMAIN db'[t] = DOMAIN db[t] /\ (t \notin T => db'[t] = db[t])
  BY <1>1 DEF Ids, Rows
<1>3. GoodRows(db', asked)
  <2>1. \A t \in T : \A i, row : GoodRow(t, i, row, asked)
    BY DEF GoodRow
  <2> QED
    BY <1>2, <2>1 DEF GoodState, GoodDb, GoodRows
<1> DEFINE e == db'
<1>4. GoodDb(e, asked)
  <2>1. HasParents(db) /\ GoodDb(db, asked)
    BY ParentsKept DEF GoodState
  <2>2. DOMAIN e = DOMAIN db /\ \A t \in DOMAIN db : DOMAIN e[t] = DOMAIN db[t] /\ (t \notin T => e[t] = db[t])
    BY <1>2
  <2>3. T \subseteq {"tokens", "audit", "operations"} /\ "tokens" \notin T /\ GoodRows(e, asked)
    BY <1>3
  <2> HIDE DEF T, e
  <2>4. KeysKept(db, e)
    BY <2>2, <2>3 DEF KeysKept
  <2> QED
    BY <2>1, <2>2, <2>3, <2>4, TouchedGood
<1> QED
  BY <1>1, <1>2, <1>4 DEF GoodState

(* The archive is no concern of the tables. *)
LEMMA ArchiveBatchGood == ASSUME GoodState, ArchiveBatch PROVE GoodState'
<1>1. PICK batch \in Batches : \E q \in Requests :
        /\ asked < MaxAsked /\ asked' = asked + 1
        /\ files' = [files EXCEPT !.archive = Archived(batch)]
        /\ req[q] = Idle
        /\ req' = [req EXCEPT ![q] = [reads |-> {}, work |-> <<DeletesMany(batch)>>, overtaken |-> FALSE]]
  BY DEF ArchiveBatch
<1>2. PICK q \in Requests :
        req' = [req EXCEPT ![q] = [reads |-> {}, work |-> <<DeletesMany(batch)>>, overtaken |-> FALSE]]
  BY <1>1
<1>3. db' = db
  BY DEF ArchiveBatch
<1>4. asked \in Nat /\ asked + 1 \in 0 .. MaxAsked /\ asked + 1 \in Nat /\ asked <= asked + 1
  BY <1>1, StoreAssumption DEF GoodState
<1>5. /\ GoodDb(db, asked + 1) /\ GoodRequests(req, DOMAIN db, asked + 1) /\ GoodBundle(files.bundle, asked + 1)
  BY <1>4, GoodLater DEF GoodState
<1> DEFINE w == DeletesMany(batch)
           work == <<w>>
<1>6. w.kind = "deleteAll" /\ w.table = "audit"
  BY DEF DeletesMany, DropAll, Write
<1> HIDE DEF w
<1>7. IsWork(work) /\ DOMAIN work = {1} /\ work[1] = w /\ work # <<>>
  BY OneFact
<1>8. GoodWork(work, DOMAIN db, asked + 1)
  BY <1>6, <1>7 DEF GoodWork, GoodWrite
<1> HIDE DEF work
<1>9. GoodRequests(req', DOMAIN db, asked + 1)
  BY <1>2, <1>5, <1>7, <1>8, SuspendedGood DEF work, w
<1>10. files' = [bundle |-> files.bundle, archive |-> Archived(batch), backend |-> files.backend]
  BY <1>1 DEF GoodState
<1> QED
  BY <1>1, <1>3, <1>4, <1>5, <1>9, <1>10 DEF GoodState

(* An archive that could not be written leaves a good state. *)
LEMMA ArchiveFailsGood == ASSUME GoodState, ArchiveFails PROVE GoodState'
<1>1. PICK batch : \E done \in SUBSET batch : files' = [files EXCEPT !.archive = @ \cup done]
  BY DEF ArchiveFails
<1>2. PICK done : files' = [files EXCEPT !.archive = @ \cup done]
  BY <1>1
<1>3. files' = [bundle |-> files.bundle, archive |-> files.archive \cup done, backend |-> files.backend]
  BY <1>2 DEF GoodState
<1>4. UNCHANGED <<db, req, asked, late>>
  BY DEF ArchiveFails
<1> QED
  BY <1>3, <1>4 DEF GoodState

(* An export reads the next table. *)
LEMMA ExportStep ==
    ASSUME GoodState, ExportBundle
    PROVE  \E t \in {"networks", "nodes", "accounts", "allocs"} :
             /\ t \notin DOMAIN Bundle
             /\ DOMAIN Bundle' = DOMAIN Bundle \cup {t} /\ DOMAIN Bundle' \in Exported
             /\ Bundle'[t] = ReadOf(t) /\ \A x \in DOMAIN Bundle : Bundle'[x] = Bundle[x]
             /\ t = "allocs" => "networks" \in DOMAIN Bundle
             /\ files' = [bundle |-> Bundle', archive |-> files.archive, backend |-> files.backend]
<1> DEFINE S == DOMAIN Bundle
           t == ExportOrder[Cardinality(S) + 1]
<1>1. S \in Exported
  BY DEF GoodState, GoodBundle, Bundle
<1>2. DOMAIN ExportOrder = {1, 2, 3, 4} /\ ExportOrder[1] = "networks" /\ ExportOrder[2] = "nodes"
      /\ ExportOrder[3] = "accounts" /\ ExportOrder[4] = "allocs"
  BY DEF ExportOrder
<1>3. S # {"networks", "nodes", "accounts", "allocs"}
  <2>1. Range(ExportOrder) = {"networks", "nodes", "accounts", "allocs"}
    BY <1>2 DEF Range
  <2> QED
    BY <2>1 DEF ExportBundle, IsComplete
<1>4. /\ S \in Exported \ {{"networks", "nodes", "accounts", "allocs"}}
      /\ t = IF S = {} THEN "networks" ELSE IF S = {"networks"} THEN "nodes"
             ELSE IF S = {"networks", "nodes"} THEN "accounts" ELSE "allocs"
  <2>1. Cardinality({}) = 0 /\ Cardinality({"networks"}) = 1 /\ IsFiniteSet({"networks"})
    BY FS_EmptySet, FS_Singleton
  <2>2. Cardinality({"networks"} \cup {"nodes"}) = 2 /\ IsFiniteSet({"networks"} \cup {"nodes"})
    BY <2>1, FS_AddElement
  <2>3. Cardinality({"networks"} \cup {"nodes"} \cup {"accounts"}) = 3
    BY <2>2, FS_AddElement
  <2>4. {"networks"} \cup {"nodes"} = {"networks", "nodes"}
        /\ {"networks"} \cup {"nodes"} \cup {"accounts"} = {"networks", "nodes", "accounts"}
    OBVIOUS
  <2>5. CASE S = {}
    BY <2>1, <2>5, <1>2 DEF Exported
  <2>6. CASE S = {"networks"}
    BY <2>1, <2>6, <1>2 DEF Exported
  <2>7. CASE S = {"networks", "nodes"}
    BY <2>2, <2>4, <2>7, <1>2 DEF Exported
  <2>8. CASE S = {"networks", "nodes", "accounts"}
    BY <2>3, <2>4, <2>8, <1>2 DEF Exported
  <2> QED
    BY <1>1, <1>3, <2>5, <2>6, <2>7, <2>8 DEF Exported
<1>5. files' = [files EXCEPT !.bundle = [x \in S \cup {t} |-> IF x = t THEN ReadOf(t) ELSE Bundle[x]]]
  BY DEF ExportBundle
<1>6. files' = [bundle |-> [x \in S \cup {t} |-> IF x = t THEN ReadOf(t) ELSE Bundle[x]],
                archive |-> files.archive, backend |-> files.backend]
  BY <1>5 DEF GoodState
<1> HIDE DEF S, t
<1>7. Bundle' = [x \in S \cup {t} |-> IF x = t THEN ReadOf(t) ELSE Bundle[x]]
  BY <1>6 DEF Bundle
<1>8. t \in {"networks", "nodes", "accounts", "allocs"} /\ t \notin S /\ S \cup {t} \in Exported
      /\ (t = "allocs" => "networks" \in S)
  <2>1. CASE S = {}
    BY <2>1, <1>4 DEF Exported
  <2>2. CASE S = {"networks"}
    BY <2>2, <1>4 DEF Exported
  <2>3. CASE S = {"networks", "nodes"}
    BY <2>3, <1>4 DEF Exported
  <2>4. CASE S = {"networks", "nodes", "accounts"}
    BY <2>4, <1>4 DEF Exported
  <2> QED
    BY <1>4, <2>1, <2>2, <2>3, <2>4 DEF Exported
<1>9. Bundle'[t] = ReadOf(t) /\ DOMAIN Bundle' = S \cup {t} /\ \A x \in S : Bundle'[x] = Bundle[x]
  BY <1>7, <1>8
<1>10. files' = [bundle |-> Bundle', archive |-> files.archive, backend |-> files.backend]
  BY <1>6, <1>7
<1> QED
  BY <1>8, <1>9, <1>10 DEF S

(* An export leaves a bundle that can be put back. *)
LEMMA ExportGood == ASSUME GoodState, Keeps("allocs"), Keeps("accounts"), ExportBundle PROVE GoodState'
<1>1. PICK t \in {"networks", "nodes", "accounts", "allocs"} :
             /\ t \notin DOMAIN Bundle
             /\ DOMAIN Bundle' = DOMAIN Bundle \cup {t} /\ DOMAIN Bundle' \in Exported
             /\ Bundle'[t] = ReadOf(t) /\ \A x \in DOMAIN Bundle : Bundle'[x] = Bundle[x]
             /\ t = "allocs" => "networks" \in DOMAIN Bundle
             /\ files' = [bundle |-> Bundle', archive |-> files.archive, backend |-> files.backend]
  BY ExportStep
<1>2. UNCHANGED <<db, req, asked, late>>
  BY DEF ExportBundle
<1>3. GoodBundle(Bundle, asked)
  BY DEF GoodState, Bundle
<1>4. {"networks", "nodes", "accounts", "allocs"} \subseteq DOMAIN db
  <2>1. DeploymentOk(DOMAIN db) /\ Key("allocs", "subnet", "networks", "cascade") \in ForeignKeys
    BY DEF GoodState, ForeignKeys
  <2> QED
    BY <2>1 DEF DeploymentOk, Keeps, Key
<1>5. DOMAIN ReadOf(t) \subseteq DOMAIN db[t] /\ \A i \in DOMAIN ReadOf(t) : ReadOf(t)[i] = db[t][i]
  BY <1>4 DEF ReadOf, Keep
<1>6. IsFiniteSet(DOMAIN ReadOf(t)) /\ \A i \in DOMAIN ReadOf(t) : GoodRow(t, i, ReadOf(t)[i], asked)
  BY <1>4, <1>5, FS_Subset DEF GoodState, GoodDb, GoodRows, Finite
<1>7. t = "allocs" => \A a \in DOMAIN ReadOf("allocs") :
        /\ ReadOf("allocs")[a].subnet \in DOMAIN Bundle.networks
        /\ Bundle.networks[ReadOf("allocs")[a].subnet].subnet # None
  BY DEF ReadOf, Keep
<1> DEFINE b == Bundle'
<1>8. GoodBundle(b, asked)
  <2>1. /\ DOMAIN b = DOMAIN Bundle \cup {t} /\ DOMAIN b \in Exported /\ b[t] = ReadOf(t)
              /\ \A x \in DOMAIN Bundle : b[x] = Bundle[x]
    BY <1>1
  <2> HIDE DEF b
  <2>2. \A x \in DOMAIN b : IsFiniteSet(DOMAIN b[x]) /\ \A i \in DOMAIN b[x] : GoodRow(x, i, b[x][i], asked)
    BY <1>3, <1>6, <2>1 DEF GoodBundle
  <2>3. "allocs" \in DOMAIN b => \A a \in DOMAIN b["allocs"] :
            /\ b["allocs"][a].subnet \in DOMAIN b["networks"] /\ b["networks"][b["allocs"][a].subnet].subnet # None
    <3>1. CASE t = "allocs"
      BY <1>1, <1>7, <2>1, <3>1
    <3>2. CASE t # "allocs"
      <4> SUFFICES ASSUME "allocs" \in DOMAIN b
                   PROVE  \A a \in DOMAIN b["allocs"] :
                             /\ b["allocs"][a].subnet \in DOMAIN b["networks"]
                             /\ b["networks"][b["allocs"][a].subnet].subnet # None
        OBVIOUS
      <4>1. "allocs" \in DOMAIN Bundle
        BY <2>1, <3>2
      <4>2. "networks" \in DOMAIN Bundle
        BY <1>3, <4>1 DEF GoodBundle, Exported
      <4> QED
        BY <1>3, <2>1, <4>1, <4>2 DEF GoodBundle
    <3> QED
      BY <3>1, <3>2
  <2> QED
    BY <2>1, <2>2, <2>3 DEF GoodBundle
<1> QED
  BY <1>1, <1>2, <1>8 DEF GoodState, Bundle

(* The tables are lost. *)
LEMMA LostGood == ASSUME GoodState, DatabaseLost PROVE GoodState'
<1>1. /\ db' = [t \in DOMAIN db |-> <<>>] /\ req' = [q \in Requests |-> Idle]
      /\ UNCHANGED <<asked, late, files>>
  BY DEF DatabaseLost
<1>2. DOMAIN db' = DOMAIN db /\ \A t \in DOMAIN db : DOMAIN db'[t] = {}
  BY <1>1
<1>3. GoodDb(db', asked)
  BY <1>2, FS_EmptySet DEF GoodDb, GoodRows, Refs, Refers, Uniques, Finite
<1>4. GoodRequests(req', DOMAIN db, asked)
  BY <1>1 DEF GoodRequests
<1> QED
  BY <1>1, <1>2, <1>3, <1>4 DEF GoodState

------------------------------------------------------------------------------
(* The invariant, and what follows of it.                                  *)

(* What a step of the services is. *)
LEMMA StepKinds ==
    ASSUME GoodState, ServicesNext
    PROVE  \/ Requested \/ Expire \/ TimePasses \/ ArchiveBatch \/ ArchiveFails
           \/ Keeps("allocs") /\ Keeps("accounts") /\ (ExportBundle \/ DatabaseLost)
           \/ \E q \in Requests : Writes(q) \/ Stops(q)
<1>1. CASE Keeps("allocs") /\ ~ Keeps("accounts") /\ IpamNext
  BY <1>1, IpamRequested
<1>2. CASE Keeps("allocs") /\ Keeps("accounts") /\ (BackupNext \/ Bootstrap \/ AtOnce(IpamNext))
  BY <1>2, IpamRequested, ImportRequested, BootstrapRequested DEF BackupNext, AtOnce
<1>3. CASE AccessNext
  BY <1>3, AccessRequested
<1>4. CASE RetentionNext
  BY <1>4, RetentionRequested DEF RetentionNext
<1>5. CASE RoutingNext
  BY <1>5, RoutingRequested
<1>6. CASE PortsNext
  BY <1>6, PortsRequested
<1>7. CASE PoliciesNext
  BY <1>7, PoliciesRequested
<1>8. CASE GovernanceNext
  BY <1>8, GovernanceRequested
<1>9. CASE BalancingNext
  BY <1>9, BalancingRequested
<1>10. CASE AdvancedNext
  BY <1>10, AdvancedRequested
<1>11. CASE StoreNext
  BY <1>11 DEF StoreNext
<1> QED
  BY <1>1, <1>2, <1>3, <1>4, <1>5, <1>6, <1>7, <1>8, <1>9, <1>10, <1>11 DEF ServicesNext

(* Every step keeps tables, requests and bundle good. *)
LEMMA GoodStep == ASSUME GoodState, [Next]_<<storeVars, limiterVars>> PROVE GoodState'
<1>1. CASE ServicesNext
  <2>1. ASSUME NEW q \in Requests, Stops(q) PROVE GoodState'
    <3>1. req' = [req EXCEPT ![q] = Idle] /\ UNCHANGED <<db, asked, late, files>>
      BY <2>1 DEF Stops
    <3>2. GoodRequests(req', DOMAIN db, asked)
      BY <3>1, IdleGood DEF GoodState
    <3> QED
      BY <3>1, <3>2 DEF GoodState
  <2>2. ASSUME Keeps("allocs") /\ Keeps("accounts") /\ (ExportBundle \/ DatabaseLost) PROVE GoodState'
    BY <2>2, ExportGood, LostGood
  <2>3. ASSUME NEW q \in Requests, Writes(q) PROVE GoodState'
    BY <2>3, WritesGood
  <2> QED
    BY <1>1, <2>1, <2>2, <2>3, StepKinds, RequestedGood, ExpireGood, TimePassesGood,
       ArchiveBatchGood, ArchiveFailsGood
<1>2. CASE UNCHANGED storeVars
  BY <1>2 DEF storeVars, GoodState
<1> QED
  BY <1>1, <1>2 DEF Next

(* The tables a controller starts with are good. *)
LEMMA StartsGood ==
    ASSUME NEW d \in Deployments
    PROVE  GoodDb(d, 0) /\ DeploymentOk(DOMAIN d)
<1> DEFINE Seeded == {"nodes", "networks", "accounts", "policies", "services"}
<1>1. DeploymentOk(DOMAIN d) /\ Starts(d) /\ \A t \in DOMAIN d : IsFiniteSet(DOMAIN d[t])
  BY DeploymentAssumption
<1>2. \A t \in DOMAIN d : t \notin Seeded => DOMAIN d[t] = {}
  BY <1>1 DEF Starts
<1>3. ASSUME NEW t \in DOMAIN d, NEW i \in DOMAIN d[t] PROVE GoodRow(t, i, d[t][i], 0)
  <2>0. t \in Seeded
    BY <1>2, <1>3
  <2>1. CASE t = "nodes"
    BY <1>1, <1>3, <2>1 DEF GoodRow, Starts
  <2>2. CASE t = "networks"
    <3>1. NetworkOk(i, d[t][i])
      BY <1>1, <1>3, <2>2 DEF NetworkOk, Starts
    <3> QED
      BY <2>2, <3>1 DEF GoodRow
  <2>3. CASE t = "accounts"
    <3>1. i \in Accounts /\ d[t][i] = AccountRow(BootName, "admin")
      BY <1>1, <1>3, <2>3 DEF Starts
    <3>2. AccountRow(BootName, "admin") \in AccountRows
      BY DEF AccountRow, AccountRows, Roles, RolePermissions
    <3> QED
      BY <2>3, <3>1, <3>2 DEF GoodRow, AccountOk
  <2>4. CASE t = "policies"
    <3>1. d[t][i] = PolicyRow
      BY <1>1, <1>3, <2>4 DEF Starts
    <3>2. PolicyOk(PolicyRow)
      <4>1. PolicyRow = [rules |-> {}, status |-> "draft", compiled |-> None] /\ IsFiniteSet({})
        BY FS_EmptySet DEF PolicyRow
      <4> QED
        BY <4>1 DEF PolicyOk
    <3> QED
      BY <2>4, <3>1, <3>2 DEF GoodRow
  <2>5. CASE t = "services"
    <3>1. ServiceOk(i, d[t][i])
      BY <1>1, <1>3, <2>5 DEF ServiceOk, Starts
    <3> QED
      BY <2>5, <3>1 DEF GoodRow
  <2> QED
    BY <2>0, <2>1, <2>2, <2>3, <2>4, <2>5
<1>4. Refs(d)
  <2>1. \A k \in ForeignKeys : k.child \notin Seeded
    BY KeyFacts DEF KeyFact, Roots
  <2> QED
    BY <1>2, <2>1 DEF Refs, Refers
<1>5. Uniques(d)
  <2>1. \A u \in UniqueKeys : u[1] \in Seeded => u[1] = "accounts"
    BY DEF UniqueKeys
  <2>2. "accounts" \in DOMAIN d => \A i, j \in DOMAIN d["accounts"] : i = j
    BY <1>1 DEF Starts
  <2> QED
    BY <1>2, <2>1, <2>2 DEF Uniques
<1> QED
  BY <1>1, <1>3, <1>4, <1>5 DEF GoodDb, GoodRows, Finite

(* A controller starts in a good state. *)
LEMMA GoodInit == ASSUME Init PROVE GoodState
<1>1. /\ db \in Deployments /\ req = [q \in Requests |-> Idle] /\ asked = 0
      /\ \E backend : files = [bundle |-> <<>>, archive |-> {}, backend |-> backend]
  BY DEF Init
<1>2. GoodDb(db, 0) /\ DeploymentOk(DOMAIN db)
  BY <1>1, StartsGood
<1>3. GoodRequests(req, DOMAIN db, 0)
  BY <1>1 DEF GoodRequests
<1>4. /\ GoodBundle(files.bundle, 0)
      /\ files = [bundle |-> files.bundle, archive |-> files.archive, backend |-> files.backend]
  <2>1. /\ files.bundle = <<>>
        /\ files = [bundle |-> files.bundle, archive |-> files.archive, backend |-> files.backend]
    BY <1>1
  <2>2. DOMAIN files.bundle = {}
    BY <2>1
  <2> QED
    BY <2>1, <2>2 DEF GoodBundle, Exported
<1> QED
  BY <1>1, <1>2, <1>3, <1>4, StoreAssumption DEF GoodState

(* Tables, suspended requests and the exported bundle are good in every  *)
(* state: whatever two handlers interleave between a look-up and a       *)
(* flush, no save puts a row into a table that its mapper could not      *)
(* load.                                                                 *)
THEOREM StateIsGood == Spec => []GoodState
<1>1. GoodState /\ [Next]_<<storeVars, limiterVars>> => GoodState'
  BY GoodStep
<1> QED
  BY GoodInit, <1>1, PTL DEF Spec

------------------------------------------------------------------------------
(* What a reference leads to. *)
LEMMA Leads ==
    ASSUME GoodState, NEW child, NEW field, NEW parent, NEW onDelete,
           Key(child, field, parent, onDelete) \in ForeignKeys,
           NEW i \in Ids(child), Rows(child)[i][field] # None
    PROVE  /\ Rows(child)[i][field] \in Ids(parent)
           /\ child = "allocs" => Network(Rows(child)[i][field]).subnet # None
<1> DEFINE k == Key(child, field, parent, onDelete)
<1>1. k.child = child /\ k.field = field /\ k.parent = parent /\ k \in ForeignKeys
  BY DEF Key
<1> HIDE DEF k
<1>2. child \in DOMAIN db /\ Rows(child) = db[child] /\ i \in DOMAIN db[child]
  BY RowThere
<1>3. Exists(db, k, db[child][i][field])
  BY <1>1, <1>2 DEF GoodState, GoodDb, Refs, Refers
<1>4. parent \in DOMAIN db /\ Rows(parent) = db[parent]
  <2>1. HasParents(db)
    BY ParentsKept
  <2> QED
    BY <1>1, <1>2, <2>1 DEF HasParents, Rows
<1>5. child = "allocs" => parent = "networks"
  BY <1>1, KeyFacts DEF KeyFact
<1> QED
  BY <1>1, <1>2, <1>3, <1>4, <1>5 DEF Exists, Ids, Network

(* The keys by name. *)
LEMMA TheKeys ==
    /\ Key("allocs", "subnet", "networks", "cascade") \in ForeignKeys
    /\ Key("tokens", "account", "accounts", "cascade") \in ForeignKeys
    /\ Key("members", "project", "projects", "cascade") \in ForeignKeys
    /\ Key("fips", "router", "routers", "set null") \in ForeignKeys
    /\ Key("peers", "router", "routers", "cascade") \in ForeignKeys
    /\ Key("ports", "node", "nodes", "cascade") \in ForeignKeys
    /\ Key("ports", "network", "networks", "cascade") \in ForeignKeys
    /\ Key("groupMembers", "group", "groups", "cascade") \in ForeignKeys
    /\ Key("trunks", "node", "nodes", "cascade") \in ForeignKeys
    /\ Key("listeners", "lb", "lbs", "cascade") \in ForeignKeys
    /\ Key("lbPools", "lb", "lbs", "cascade") \in ForeignKeys
    /\ Key("lbMembers", "pool", "lbPools", "cascade") \in ForeignKeys
    /\ Key("monitors", "pool", "lbPools", "cascade") \in ForeignKeys
    /\ Key("vpnPeers", "tunnel", "tunnels", "cascade") \in ForeignKeys
BY DEF ForeignKeys

(* Two rows that agree on a unique key are one. *)
LEMMA Alone ==
    ASSUME GoodState, NEW t, NEW columns, <<t, columns>> \in UniqueKeys, NEW i \in Ids(t), NEW j \in Ids(t),
           \A c \in columns : Rows(t)[i][c] = Rows(t)[j][c] /\ Rows(t)[j][c] # None
    PROVE  i = j
<1>1. t \in DOMAIN db /\ Rows(t) = db[t] /\ i \in DOMAIN db[t] /\ j \in DOMAIN db[t]
  BY RowThere
<1> DEFINE u == <<t, columns>>
<1>2. u[1] = t /\ u[2] = columns /\ u \in UniqueKeys
  OBVIOUS
<1> HIDE DEF u
<1> SUFFICES ASSUME i # j PROVE FALSE
  OBVIOUS
<1>3. Differ(db, u, i, j)
  BY <1>1, <1>2 DEF GoodState, GoodDb, Uniques
<1> QED
  BY <1>1, <1>2, <1>3 DEF Differ

(* A set of one element at most. *)
LEMMA AtMostOne ==
    ASSUME NEW S, \A i, j \in S : i = j
    PROVE  IsFiniteSet(S) /\ Cardinality(S) <= 1
<1>1. CASE S = {}
  BY <1>1, FS_EmptySet
<1>2. CASE S # {}
  <2>1. PICK x \in S : TRUE
    BY <1>2
  <2>2. S = {x}
    BY <2>1
  <2>3. IsFiniteSet({x}) /\ Cardinality({x}) = 1
    BY FS_Singleton
  <2> QED
    BY <2>2, <2>3
<1> QED
  BY <1>1, <1>2

==============================================================================
