------------------------------ MODULE Routing ------------------------------
(***************************************************************************)
(* Routers with their static routes, internal networks and VRRP            *)
(* parameters, floating IPs and BGP peers (core/use_cases/n3.py, entities  *)
(* router, floating_ip, bgp_peer), the generated configuration             *)
(* (services/router_configurator.py) and the preflight check               *)
(* (services/preflight_checker.py).                                        *)
(*                                                                         *)
(* A route stands for its destination.  ext stands for the part of the     *)
(* topology an update replaces unchecked (external network, IPv6), vrrp    *)
(* for priority and vrid: None, in range, or out of range.  The event      *)
(* published after each save is the Outbox's concern.                      *)
(***************************************************************************)
EXTENDS Repositories

CONSTANTS
    Routers, Fips, Peers,
    Dests, Nets, ExtNets, Ports

ASSUME RoutingAssumption == None \notin Routers \cup Ports

VrrpValues == {None, "good", "bad"}

RouterRow(ext, ha, vrrp) ==
    [routes |-> <<>>, nets |-> {}, ext |-> ext, ha |-> ha, vrrp |-> vrrp,
     admin |-> TRUE, status |-> "build", applied |-> None]

\* Router._validate_vrrp, run by the constructor - at every load - and by update.
RouterValid(r) == r.ha = "vrrp" => r.vrrp # "bad"

\* What of a router its configuration renders: the internal networks have no part in it.
Rendered(r) ==
    [routes |-> r.routes, ext |-> r.ext, vrrp |-> IF r.ha = "vrrp" THEN <<r.vrrp>> ELSE <<>>]

RouterConfig(r, peers) == [of |-> Rendered(r), peers |-> peers]

RouterConfigs ==
    [of : [routes : Seq(Dests), ext : ExtNets \cup {None}, vrrp : {<<>>} \cup {<<v>> : v \in VrrpValues}],
     peers : SUBSET Peers]

RouterRows ==
    [routes : Seq(Dests), nets : SUBSET Nets, ext : ExtNets \cup {None}, ha : {"none", "vrrp"},
     vrrp : VrrpValues, admin : BOOLEAN, status : {"build", "active", "down"},
     applied : RouterConfigs \cup {None}]

\* Codes of PreflightChecker.check_router.
Preflight(r) ==
    (IF r.ext = None /\ r.routes # <<>> THEN {"NO_EXTERNAL_NETWORK"} ELSE {})
    \cup (IF \E i, j \in DOMAIN r.routes : i # j /\ r.routes[i] = r.routes[j] THEN {"DUPLICATE_ROUTE"} ELSE {})
    \cup (IF r.ha = "vrrp" /\ r.vrrp = None THEN {"VRRP_NO_PRIORITY", "VRRP_NO_VRID"} ELSE {})
    \cup (IF ~ r.admin THEN {"ADMIN_DOWN"} ELSE {})

-----------------------------------------------------------------------------
(* Routers. *)

Router(id) == Rows("routers")[id]
BgpPeer(p) == Rows("peers")[p]
PeersOf(id) == {p \in Ids("peers") : BgpPeer(p).router = id}

SavesRouter(id, row) == RouterValid(row) /\ Handles({"routers"}, <<Put("routers", id, row)>>)

CreateRouter ==
    \E id \in FreshIds("routers", Routers), ext \in ExtNets \cup {None}, ha \in {"none", "vrrp"},
       vrrp \in VrrpValues :
        "routers" \in DOMAIN db /\ SavesRouter(id, RouterRow(ext, ha, vrrp))

\* A change of the topology invalidates the applied configuration.
UpdateRouter ==
    \E id \in Ids("routers") :
        \/ \E ext \in ExtNets \cup {None} :
             SavesRouter(id, [Router(id) EXCEPT !.ext = ext, !.applied = None])
        \/ \E ha \in {"none", "vrrp"} :
             SavesRouter(id, [Router(id) EXCEPT !.ha = ha, !.applied = None])
        \/ \E vrrp \in VrrpValues :
             SavesRouter(id, [Router(id) EXCEPT !.vrrp = vrrp, !.applied = None])

DeleteRouter == \E id \in Ids("routers") : Handles({"routers"}, <<Drop("routers", id)>>)

IsNewRoute(id, d) == d \notin Range(Router(id).routes)
Routed(id, d) == [Router(id) EXCEPT !.routes = Append(@, d), !.applied = None]

AddStaticRoute ==
    \E id \in Ids("routers"), d \in Dests : IsNewRoute(id, d) /\ SavesRouter(id, Routed(id, d))

\* Every route but those to d.
Without(routes, d) ==
    LET kept[n \in 0 .. Len(routes)] ==
          IF n = 0 THEN <<>>
          ELSE IF routes[n] = d THEN kept[n - 1] ELSE Append(kept[n - 1], routes[n])
    IN kept[Len(routes)]

RemoveStaticRoute ==
    \E id \in Ids("routers"), d \in Dests :
        /\ d \in Range(Router(id).routes)
        /\ SavesRouter(id, [Router(id) EXCEPT !.routes = Without(@, d), !.applied = None])

AddInternalNetwork ==
    \E id \in Ids("routers"), n \in Nets :
        SavesRouter(id, [Router(id) EXCEPT !.nets = @ \cup {n}, !.applied = None])

RemoveInternalNetwork ==
    \E id \in Ids("routers"), n \in Nets :
        /\ n \in Router(id).nets
        /\ SavesRouter(id, [Router(id) EXCEPT !.nets = @ \ {n}, !.applied = None])

\* The peers are listed after the router is read.
ApplyRouter ==
    \E id \in Ids("routers") :
        SavesRouter(id, [Router(id) EXCEPT !.applied = RouterConfig(Router(id), PeersOf(id)),
                                           !.status = "active"])

SetRouterAdminState ==
    \E id \in Ids("routers"), up \in BOOLEAN :
        SavesRouter(id, [Router(id) EXCEPT !.admin = up, !.status = IF up THEN "active" ELSE "down"])

-----------------------------------------------------------------------------
(* Floating IPs. *)

FloatingIp(f) == Rows("fips")[f]

FloatingIpRows ==
    [port : Ports \cup {None}, router : Routers \cup {None}, status : {"active", "down"}]

FreeFip == [port |-> None, router |-> None, status |-> "down"]

AllocateFloatingIp ==
    \E f \in FreshIds("fips", Fips) :
        "fips" \in DOMAIN db /\ Handles({}, <<Put("fips", f, FreeFip)>>)

AssociateFloatingIp ==
    \E f \in Ids("fips"), id \in Ids("routers"), port \in Ports :
        Handles({"fips", "routers"}, <<Put("fips", f, [port |-> port, router |-> id, status |-> "active"])>>)

DisassociateFloatingIp ==
    \E f \in Ids("fips") :
        /\ FloatingIp(f).status = "active"
        /\ Handles({"fips"}, <<Put("fips", f, FreeFip)>>)

ReleaseFloatingIp == \E f \in Ids("fips") : Handles({"fips"}, <<Drop("fips", f)>>)

-----------------------------------------------------------------------------
(* BGP peers. *)

BgpPeerRows == [router : Routers, state : {"idle", "established"}]

NewPeer(id) == [router |-> id, state |-> "idle"]

CreateBgpPeer ==
    \E p \in FreshIds("peers", Peers), id \in Ids("routers") :
        /\ "peers" \in DOMAIN db
        /\ Handles({"routers"}, <<Put("peers", p, NewPeer(id))>>)

DeleteBgpPeer == \E p \in Ids("peers") : Handles({"peers"}, <<Drop("peers", p)>>)

UpdateBgpPeerState ==
    \E p \in Ids("peers"), state \in {"idle", "established"} :
        Handles({"peers"}, <<Put("peers", p, [BgpPeer(p) EXCEPT !.state = state])>>)

RoutingNext ==
    \/ CreateRouter \/ UpdateRouter \/ DeleteRouter \/ AddStaticRoute \/ RemoveStaticRoute
    \/ AddInternalNetwork \/ RemoveInternalNetwork \/ ApplyRouter \/ SetRouterAdminState
    \/ AllocateFloatingIp \/ AssociateFloatingIp \/ DisassociateFloatingIp \/ ReleaseFloatingIp
    \/ CreateBgpPeer \/ DeleteBgpPeer \/ UpdateBgpPeerState

-----------------------------------------------------------------------------
(* Properties. *)

\* Rows are of their types, and every router that is stored can be loaded: the
\* VRRP parameters may be out of range only while nothing reads them as VRRP.
RoutingTypeOK ==
    /\ \A id \in Ids("routers") : Router(id) \in RouterRows /\ RouterValid(Router(id))
    /\ \A f \in Ids("fips") : FloatingIp(f) \in FloatingIpRows
    /\ \A p \in Ids("peers") : BgpPeer(p) \in BgpPeerRows /\ BgpPeer(p).router \in Ids("routers")

\* The configuration kept with a router is the one its own topology renders,
\* whatever edits and applies have overtaken one another: a change clears it
\* (router.py:122, 187) and an apply saves the copy it was generated from.
AppliedIsOwn ==
    \A id \in Ids("routers") :
        Router(id).applied # None => Router(id).applied.of = Rendered(Router(id))

\* Two requests that add the same destination at once do not both: no preflight
\* ever finds a duplicate route.
NoDuplicateRoute == \A id \in Ids("routers") : "DUPLICATE_ROUTE" \notin Preflight(Router(id))

\* An active floating IP has its port; it lacks a router only because that was
\* deleted, and a released binding leaves nothing behind.
FipBound ==
    \A f \in Ids("fips") :
        LET fip == FloatingIp(f) IN
        /\ fip.status = "active" <=> fip.port # None
        /\ fip.router \in Ids("routers") \cup {None}
        /\ fip.status = "down" => fip.router = None

=============================================================================
