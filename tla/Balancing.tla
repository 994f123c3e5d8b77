----------------------------- MODULE Balancing ------------------------------
(***************************************************************************)
(* Load balancers with their listeners, pools, members and health monitors *)
(* (core/use_cases/n4.py, entities load_balancer and health_monitor) and   *)
(* the configuration generated from them (services/lb_configurator.py).    *)
(*                                                                         *)
(* weight stands for what an update of a member may change, timing for     *)
(* that of a monitor.  The five reads of an apply are one step here.       *)
(***************************************************************************)
EXTENDS Repositories

CONSTANTS Balancers, Listeners, LbPools, Members, Monitors, Weights, Timings

ASSUME BalancingAssumption == None \notin Balancers \cup LbPools

Balancer(b) == Rows("lbs")[b]
Listener(n) == Rows("listeners")[n]
LbPool(p) == Rows("lbPools")[p]
LbMember(m) == Rows("lbMembers")[m]
Monitor(k) == Rows("monitors")[k]

ListenerRows == [lb : Balancers, pool : LbPools \cup {None}]
LbPoolRows == [lb : Balancers, algorithm : 0 .. 1]
LbMemberRows == [pool : LbPools, weight : Weights]
MonitorRows == [pool : LbPools, timing : Timings]

PoolsIn(b) == {p \in Ids("lbPools") : LbPool(p).lb = b}
ListenersOf(b) == {n \in Ids("listeners") : Listener(n).lb = b}
MembersOf(p) == {m \in Ids("lbMembers") : LbMember(m).pool = p}
MonitorsOf(p) == {k \in Ids("monitors") : Monitor(k).pool = p}

SavesBalancer(b, row) == Handles({"lbs"}, <<Put("lbs", b, row)>>)

-----------------------------------------------------------------------------
(* Balancers. *)

NewBalancer == [status |-> "build", admin |-> TRUE, applied |-> None]

CreateLoadBalancer ==
    \E b \in FreshIds("lbs", Balancers) :
        "lbs" \in DOMAIN db /\ Handles({}, <<Put("lbs", b, NewBalancer)>>)

\* Name, description, labels: the configuration is not touched.
UpdateLoadBalancer == \E b \in Ids("lbs") : SavesBalancer(b, Balancer(b))

DeleteLoadBalancer == \E b \in Ids("lbs") : Handles({"lbs"}, <<Drop("lbs", b)>>)

\* Frontends name a default pool, backends list the members of each pool.
BalancerConfig(b) ==
    [frontends |-> {Listener(n).pool : n \in ListenersOf(b)},
     backends |-> [p \in PoolsIn(b) |->
         [members |-> {LbMember(m) : m \in MembersOf(p)}, checked |-> MonitorsOf(p) # {}]]]

\* Active, whatever the administrative state is.
ApplyLoadBalancer ==
    \E b \in Ids("lbs") :
        SavesBalancer(b, [Balancer(b) EXCEPT !.applied = BalancerConfig(b), !.status = "active"])

SetLbAdminState ==
    \E b \in Ids("lbs"), up \in BOOLEAN :
        SavesBalancer(b, [Balancer(b) EXCEPT !.admin = up, !.status = IF up THEN "active" ELSE "down"])

-----------------------------------------------------------------------------
(* Listeners and pools. *)

NewListener(b, p) == [lb |-> b, pool |-> p]
NewLbPool(b) == [lb |-> b, algorithm |-> 0]

\* The pool a listener sends to is not looked up.
CreateLbListener ==
    \E n \in FreshIds("listeners", Listeners), b \in Ids("lbs"), p \in LbPools \cup {None} :
        "listeners" \in DOMAIN db /\ Handles({"lbs"}, <<Put("listeners", n, NewListener(b, p))>>)

UpdateLbListener ==
    \E n \in Ids("listeners"), p \in LbPools \cup {None} :
        Handles({"listeners"},
          <<Put("listeners", n, [Listener(n) EXCEPT !.pool = IF p = None THEN @ ELSE p])>>)

DeleteLbListener == \E n \in Ids("listeners") : Handles({"listeners"}, <<Drop("listeners", n)>>)

CreateLbPool ==
    \E p \in FreshIds("lbPools", LbPools), b \in Ids("lbs") :
        "lbPools" \in DOMAIN db /\ Handles({"lbs"}, <<Put("lbPools", p, NewLbPool(b))>>)

UpdateLbPool ==
    \E p \in Ids("lbPools"), a \in 0 .. 1 :
        Handles({"lbPools"}, <<Put("lbPools", p, [LbPool(p) EXCEPT !.algorithm = a])>>)

\* Listeners that send to it keep its id.
DeleteLbPool == \E p \in Ids("lbPools") : Handles({"lbPools"}, <<Drop("lbPools", p)>>)

-----------------------------------------------------------------------------
(* Members and monitors. *)

NewLbMember(p, w) == [pool |-> p, weight |-> w]
NewMonitor(p, t) == [pool |-> p, timing |-> t]

AddLbMember ==
    \E m \in FreshIds("lbMembers", Members), p \in Ids("lbPools"), w \in Weights :
        "lbMembers" \in DOMAIN db /\ Handles({"lbPools"}, <<Put("lbMembers", m, NewLbMember(p, w))>>)

UpdateLbMember ==
    \E m \in Ids("lbMembers"), w \in Weights :
        Handles({"lbMembers"}, <<Put("lbMembers", m, [LbMember(m) EXCEPT !.weight = w])>>)

RemoveLbMember == \E m \in Ids("lbMembers") : Handles({"lbMembers"}, <<Drop("lbMembers", m)>>)

CreateHealthMonitor ==
    \E k \in FreshIds("monitors", Monitors), p \in Ids("lbPools"), t \in Timings :
        /\ "monitors" \in DOMAIN db
        /\ MonitorsOf(p) = {}
        /\ Handles({"lbPools", "monitors"}, <<Put("monitors", k, NewMonitor(p, t))>>)

UpdateHealthMonitor ==
    \E k \in Ids("monitors"), t \in Timings :
        Handles({"monitors"}, <<Put("monitors", k, [Monitor(k) EXCEPT !.timing = t])>>)

DeleteHealthMonitor == \E k \in Ids("monitors") : Handles({"monitors"}, <<Drop("monitors", k)>>)

BalancingNext ==
    \/ CreateLoadBalancer \/ UpdateLoadBalancer \/ DeleteLoadBalancer \/ ApplyLoadBalancer
    \/ SetLbAdminState
    \/ CreateLbListener \/ UpdateLbListener \/ DeleteLbListener
    \/ CreateLbPool \/ UpdateLbPool \/ DeleteLbPool
    \/ AddLbMember \/ UpdateLbMember \/ RemoveLbMember
    \/ CreateHealthMonitor \/ UpdateHealthMonitor \/ DeleteHealthMonitor

-----------------------------------------------------------------------------
(* Properties. *)

\* Whatever a balancer or a pool owned goes with it, two levels deep, also what
\* a request adds that had found the owner before the deletion (n4.py:958, 1076,
\* 1188, 1325); and a pool never has two monitors, though two requests may both
\* have found none (n4.py:1327).
BalancingTypeOK ==
    /\ \A n \in Ids("listeners") : Listener(n) \in ListenerRows /\ Listener(n).lb \in Ids("lbs")
    /\ \A p \in Ids("lbPools") : LbPool(p) \in LbPoolRows /\ LbPool(p).lb \in Ids("lbs")
    /\ \A m \in Ids("lbMembers") : LbMember(m) \in LbMemberRows /\ LbMember(m).pool \in Ids("lbPools")
    /\ \A k \in Ids("monitors") : Monitor(k) \in MonitorRows /\ Monitor(k).pool \in Ids("lbPools")
    /\ \A p \in Ids("lbPools") : Cardinality(MonitorsOf(p)) <= 1

\* A balancer that is down was taken down; one nobody applied has no
\* configuration - also when a delete was overtaken by a save, which brings
\* the row back as it was read.
DownWasAskedFor ==
    \A b \in Ids("lbs") :
        /\ Balancer(b).status = "down" => ~ Balancer(b).admin
        /\ Balancer(b).status = "build" => Balancer(b).applied = None /\ Balancer(b).admin

=============================================================================
