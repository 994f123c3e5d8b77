------------------------------ MODULE Services ------------------------------
(***************************************************************************)
(* The resource services over one store, and what they promise together.   *)
(* A deployment keeps the tables of one component and takes the requests   *)
(* of that component: services that share no table do not meet.            *)
(***************************************************************************)
EXTENDS HttpApi, Ipam, Backup, Retention, RateLimit, Routing, Ports, Policies, Governance, Balancing,
        Advanced

CONSTANTS
    Deployments,    \* tables, and the rows a controller starts with
    BackupAlone     \* bound: beside a backup the requests of networks run through

\* The tables that are there from the start on have sound rows; nobody's account
\* but the administrator's.
Starts(d) ==
    /\ \A t \in DOMAIN d \ {"nodes", "networks", "accounts", "policies", "services"} : DOMAIN d[t] = {}
    /\ "nodes" \in DOMAIN d => None \notin DOMAIN d.nodes
    /\ "networks" \in DOMAIN d =>
         \A n \in DOMAIN d.networks :
            n \in Networks /\ d.networks[n] \in NetworkRows /\ d.networks[n].hash = SpecHash(d.networks[n])
    /\ "accounts" \in DOMAIN d =>
         \E u \in Accounts : \A a \in DOMAIN d.accounts : a = u /\ d.accounts[a] = AccountRow(BootName, "admin")
    /\ "policies" \in DOMAIN d => \A k \in DOMAIN d.policies : d.policies[k] = PolicyRow
    /\ "services" \in DOMAIN d => \A v \in DOMAIN d.services : v \in Services /\ d.services[v] \in ServiceObjectRows

\* With a table the one its rows refer to is kept, with a component's tables all
\* that it writes, with what a backup reads all of it; the audit trail, which a
\* lost database takes along, is kept elsewhere.
DeploymentOk(tables) ==
    /\ \A k \in ForeignKeys : k.child \in tables => k.parent \in tables
    /\ \A k \in {<<"accounts", "tokens">>, <<"projects", "members">>, <<"groups", "groupMembers">>,
                  <<"tunnels", "vpnPeers">>} : k[1] \in tables => k[2] \in tables
    /\ {"allocs", "accounts"} \subseteq tables => "nodes" \in tables /\ "audit" \notin tables

ASSUME DeploymentAssumption ==
    \A d \in Deployments :
        DeploymentOk(DOMAIN d) /\ Starts(d) /\ \A t \in DOMAIN d : IsFiniteSet(DOMAIN d[t])

Keeps(t) == t \in DOMAIN db

\* Requests of networks overlap each other and an import, but for the bound.
AtOnce(action) == action /\ (BackupAlone => db' # db)

Init ==
    /\ db \in Deployments
    /\ req = [q \in Requests |-> Idle] /\ asked = 0 /\ late = FALSE
    /\ \E backend \in IF Keeps("audit") THEN {"noop", "file"} ELSE {"noop"} :
         files = [bundle |-> <<>>, archive |-> {}, backend |-> backend]
    /\ LimiterInit

ServicesNext ==
    \/ Keeps("allocs") /\ ~ Keeps("accounts") /\ IpamNext
    \/ Keeps("allocs") /\ Keeps("accounts") /\ (BackupNext \/ Bootstrap \/ AtOnce(IpamNext))
    \/ ((Keeps("tokens") /\ ~ Keeps("allocs")) \/ Keeps("projects")) /\ AccessNext
    \/ Keeps("audit") /\ RetentionNext
    \/ Keeps("routers") /\ RoutingNext
    \/ (Keeps("ports") \/ Keeps("groups") \/ Keeps("qos")) /\ PortsNext
    \/ Keeps("policies") /\ PoliciesNext
    \/ (Keeps("quotas") \/ Keeps("snapshots") \/ Keeps("bonds") \/ Keeps("retention")) /\ GovernanceNext
    \/ Keeps("lbs") /\ BalancingNext
    \/ (Keeps("schedules") \/ Keeps("mirrors") \/ Keeps("tunnels")) /\ AdvancedNext
    \/ StoreNext

\* The deployment without tables has the limiter.
Next ==
    \/ ServicesNext /\ UNCHANGED limiterVars
    \/ DOMAIN db = {} /\ LimiterNext /\ UNCHANGED storeVars

Spec == Init /\ [][Next]_<<storeVars, limiterVars>>

-----------------------------------------------------------------------------
(* Properties, by what endangers them. *)

\* Rows load and refer to rows that are there, in every table: what a request
\* looked up before an await may be gone or edited when it saves.
RowsAreSound ==
    /\ IpamTypeOK /\ AccessTypeOK /\ RoutingTypeOK /\ PortsTypeOK /\ PoliciesTypeOK
    /\ GovernanceTypeOK /\ BalancingTypeOK /\ AdvancedTypeOK

\* What two requests both found free is not taken twice: an address and a project's
\* quota and retention policy, whose columns are unique, and a router's
\* destination; a snapshot's version, the global retention policy and a peer's
\* key only until a save lands late (ipam.py:178, n4.py:174, n3.py, n5.py:719).
TakenOnce == AddressesUnique /\ OnePerKey /\ NoDuplicateRoute /\ PeerKeysDiffer

\* What is computed from a row and stored with it is that of the row, whichever
\* saves overtook one another: the configuration applied to a router, a policy's
\* compiled ruleset, the subnet part of a network's hash, the status of a floating
\* IP and of a balancer.  Nothing is said of the NAT part of that hash, which
\* is not always the row's, nor of bonds, BGP peers and VPN keys.
DerivedIsOwn ==
    /\ AppliedIsOwn /\ RulesetDecidesAsRules /\ NoUnwantedAccept /\ HashCoversSubnet
    /\ FipBound /\ DownWasAskedFor

\* The allocator misses no address, and an address leaves its subnet only on the
\* ways nobody checks (ip_allocator.py, ipam.py:139).
AddressesFit == AllocatorIsExact /\ StrandedOnlyUnchecked

\* Roles get what is documented at the endpoints; a disabled account is out for
\* good, a revoked token when no request is left that it had let in.
AccessHolds == RolesAsDocumented /\ RevocationHolds /\ DisabledIsFinal

\* A schedule is due when its expression says so, and no run of it is recorded
\* while it is paused, but by a tick that read it before.  Nothing says that a
\* schedule runs: the scheduler has no caller.
SchedulesRunAsAsked == []DueWhenListed /\ PausedDoesNotRun

=============================================================================
