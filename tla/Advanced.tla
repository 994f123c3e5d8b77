------------------------------ MODULE Advanced ------------------------------
(***************************************************************************)
(* Scheduled applies, mirror sessions, VPN tunnels and their peers         *)
(* (core/use_cases/n5.py) and the cron expressions of schedules            *)
(* (services/cron_scheduler.py).                                           *)
(*                                                                         *)
(* An expression has two fields here instead of five - a minute, from 0,   *)
(* and a day, from 1 - of the four forms the parser knows.                 *)
(***************************************************************************)
EXTENDS Repositories

CONSTANTS
    Schedules, Exprs,   \* expressions requests come with
    LastMinute, LastDay,
    Mirrors,
    Tunnels, VpnPeers, Keys, Secrets

-----------------------------------------------------------------------------
(* Cron fields. *)

Every == [form |-> "every"]
Step(n) == [form |-> "step", by |-> n]
At(a) == [form |-> "at", value |-> a]
From(a, b) == [form |-> "range", first |-> a, last |-> b]

\* Numbers are digits: there is no sign.
Fields ==
    {Every} \cup [form : {"step"}, by : Nat] \cup [form : {"at"}, value : Nat]
    \cup [form : {"range"}, first : Nat, last : Nat]

ASSUME AdvancedAssumption ==
    /\ LastMinute \in Nat /\ LastDay \in Nat /\ None \notin Tunnels
    /\ Exprs \subseteq [minute : Fields, day : Fields]

\* What the parser refuses does not depend on the time it is asked for.
WellFormed(f, lo, hi) ==
    \/ f.form = "every"
    \/ f.form = "step" /\ f.by > 0
    \/ f.form = "at" /\ f.value \in lo .. hi
    \/ f.form = "range" /\ f.first \in lo .. hi /\ f.last \in lo .. hi

FieldMatches(f, v, lo) ==
    CASE f.form = "every" -> TRUE
      [] f.form = "step" -> (v - lo) % f.by = 0
      [] f.form = "at" -> v = f.value
      [] f.form = "range" -> f.first <= v /\ v <= f.last

ExprValid(e) == WellFormed(e.minute, 0, LastMinute) /\ WellFormed(e.day, 1, LastDay)

IsDue(e, t) == FieldMatches(e.minute, t.minute, 0) /\ FieldMatches(e.day, t.day, 1)

Times == [minute : 0 .. LastMinute, day : 1 .. LastDay]

-----------------------------------------------------------------------------
(* Schedules.  ran counts the runs on record. *)

Schedule(s) == Rows("schedules")[s]

ScheduleRows ==
    [expr : Exprs, enabled : BOOLEAN, status : {"active", "paused", "error"}, ran : 0 .. MaxAsked]

SavesSchedule(s, row) == Handles({"schedules"}, <<Put("schedules", s, row)>>)

NewSchedule(e, enabled) == [expr |-> e, enabled |-> enabled, status |-> "active", ran |-> 0]

CreateApplySchedule ==
    \E s \in FreshIds("schedules", Schedules), e \in Exprs, enabled \in BOOLEAN :
        /\ "schedules" \in DOMAIN db
        /\ ExprValid(e)
        /\ Handles({}, <<Put("schedules", s, NewSchedule(e, enabled))>>)

UpdateApplySchedule ==
    \E s \in Ids("schedules"), e \in Exprs :
        ExprValid(e) /\ SavesSchedule(s, [Schedule(s) EXCEPT !.expr = e])

DeleteApplySchedule == \E s \in Ids("schedules") : Handles({"schedules"}, <<Drop("schedules", s)>>)

ToggleApplySchedule ==
    \E s \in Ids("schedules"), enabled \in BOOLEAN :
        SavesSchedule(s, [Schedule(s) EXCEPT !.enabled = enabled,
                                             !.status = IF enabled THEN "active" ELSE "paused"])

\* Mutant: paused schedules are listed too.
ListedAll == Ids("schedules")

\* list_enabled.
ListedEnabled == {s \in Ids("schedules") : Schedule(s).enabled}

\* The enabled schedules are listed once; each that is due runs its callback and
\* is saved as it was listed, whatever has been done to it while the others ran.
\* Nothing in the controller calls it (n5.py:300, container.py:622-667): it is a
\* step for whoever will.
TickScheduler ==
    \E t \in Times, outcome \in [Schedules -> {"active", "error"}] :
        LET due == {s \in ListedEnabled : IsDue(Schedule(s).expr, t)}
            run(s) == Put("schedules", s, [Schedule(s) EXCEPT !.ran = @ + 1, !.status = outcome[s]])
        IN /\ due # {}
           /\ \E order \in SetToSeqs(due) :
                Handles({"schedules"}, [i \in DOMAIN order |-> run(order[i])])

-----------------------------------------------------------------------------
(* Mirror sessions: never updated. *)

NewMirror(port) == [toPort |-> port, status |-> "inactive", applied |-> None]

CreateMirrorSession ==
    \E m \in FreshIds("mirrors", Mirrors), port, ip \in BOOLEAN :
        /\ "mirrors" \in DOMAIN db
        /\ port # ip
        /\ Handles({}, <<Put("mirrors", m, NewMirror(port))>>)

DeleteMirrorSession == \E m \in Ids("mirrors") : Handles({"mirrors"}, <<Drop("mirrors", m)>>)

Mirror(m) == Rows("mirrors")[m]

MirrorRows ==
    [toPort : BOOLEAN, status : {"inactive", "active"}, applied : {"span", "erspan", None}]

MirrorConfig(row) == IF row.toPort THEN "span" ELSE "erspan"

ApplyMirrorSession ==
    \E m \in Ids("mirrors") :
        LET row == Mirror(m)
        IN Handles({"mirrors"},
             <<Put("mirrors", m, [row EXCEPT !.status = "active", !.applied = MirrorConfig(row)])>>)

-----------------------------------------------------------------------------
(* VPN tunnels and peers. *)

Tunnel(t) == Rows("tunnels")[t]
VpnPeer(p) == Rows("vpnPeers")[p]

PeersIn(t) == {p \in Ids("vpnPeers") : VpnPeer(p).tunnel = t}

TunnelConfig(row, peers) ==
    [wireguard |-> row.wireguard, secret |-> row.secret, peers |-> IF row.wireguard THEN peers ELSE {}]

TunnelRows ==
    [wireguard : BOOLEAN, secret : Secrets,
     applied : {None} \cup [wireguard : BOOLEAN, secret : Secrets, peers : SUBSET Keys]]

VpnPeerRows == [tunnel : Tunnels, key : Keys]

NewTunnel(wireguard, k) == [wireguard |-> wireguard, secret |-> k, applied |-> None]
NewVpnPeer(t, k) == [tunnel |-> t, key |-> k]

CreateVpnTunnel ==
    \E t \in FreshIds("tunnels", Tunnels), wireguard \in BOOLEAN, k \in Secrets :
        /\ "tunnels" \in DOMAIN db
        /\ Handles({}, <<Put("tunnels", t, NewTunnel(wireguard, k))>>)

\* Keys may be replaced; the applied configuration stays.
UpdateVpnTunnel ==
    \E t \in Ids("tunnels"), k \in Secrets :
        Handles({"tunnels"}, <<Put("tunnels", t, [Tunnel(t) EXCEPT !.secret = k])>>)

\* The peers it lists, one commit each, then the tunnel.
DeleteVpnTunnel ==
    \E t \in Ids("tunnels") : \E order \in SetToSeqs(PeersIn(t)) :
        Handles({"tunnels", "vpnPeers"},
                Append([i \in DOMAIN order |-> Drop("vpnPeers", order[i])], Drop("tunnels", t)))

ApplyVpnTunnel ==
    \E t \in Ids("tunnels") :
        LET peers == {VpnPeer(p).key : p \in PeersIn(t)}
        IN Handles({"tunnels"}, <<Put("tunnels", t, [Tunnel(t) EXCEPT !.applied = TunnelConfig(Tunnel(t), peers)])>>)

IsNewKey(t, k) == \A o \in PeersIn(t) : VpnPeer(o).key # k

AddVpnPeer ==
    \E p \in FreshIds("vpnPeers", VpnPeers), t \in Ids("tunnels"), k \in Keys :
        /\ IsNewKey(t, k)
        /\ Handles({"tunnels", "vpnPeers"}, <<Put("vpnPeers", p, NewVpnPeer(t, k))>>)

UpdateVpnPeer == \E p \in Ids("vpnPeers") : Handles({"vpnPeers"}, <<Put("vpnPeers", p, VpnPeer(p))>>)

RemoveVpnPeer == \E p \in Ids("vpnPeers") : Handles({"vpnPeers"}, <<Drop("vpnPeers", p)>>)

AdvancedNext ==
    \/ CreateApplySchedule \/ UpdateApplySchedule \/ DeleteApplySchedule \/ ToggleApplySchedule
    \/ TickScheduler
    \/ CreateMirrorSession \/ DeleteMirrorSession \/ ApplyMirrorSession
    \/ CreateVpnTunnel \/ UpdateVpnTunnel \/ DeleteVpnTunnel \/ ApplyVpnTunnel
    \/ AddVpnPeer \/ UpdateVpnPeer \/ RemoveVpnPeer

-----------------------------------------------------------------------------
(* Properties. *)

\* Every schedule kept is one whose expression never makes a tick raise - which
\* would end it for all schedules after it - a paused one is off, an active
\* mirror has its configuration, and a peer is never left without its tunnel.
AdvancedTypeOK ==
    /\ \A s \in Ids("schedules") :
         /\ Schedule(s) \in ScheduleRows /\ ExprValid(Schedule(s).expr)
         /\ Schedule(s).status = "paused" => ~ Schedule(s).enabled
    /\ \A m \in Ids("mirrors") :
         LET row == Mirror(m)
         IN row \in MirrorRows /\ row.applied = IF row.status = "active" THEN MirrorConfig(row) ELSE None
    /\ \A t \in Ids("tunnels") : Tunnel(t) \in TunnelRows
    /\ \A p \in Ids("vpnPeers") : VpnPeer(p) \in VpnPeerRows /\ VpnPeer(p).tunnel \in Ids("tunnels")

\* The times a valid field stands for, listed: from the first on in steps.
Listed(f, lo, hi) ==
    CASE f.form = "every" -> lo .. hi
      [] f.form = "step" -> {lo + k * f.by : k \in 0 .. hi} \cap (lo .. hi)
      [] f.form = "at" -> {f.value}
      [] f.form = "range" -> {v \in lo .. hi : f.first <= v /\ v <= f.last}

\* A schedule is due exactly at the times its expression lists, at the first and
\* the last minute of the hour too (cron_scheduler.py:71).
DueWhenListed ==
    \A s \in Ids("schedules"), t \in Times :
        IsDue(Schedule(s).expr, t) <=>
            /\ t.minute \in Listed(Schedule(s).expr.minute, 0, LastMinute)
            /\ t.day \in Listed(Schedule(s).expr.day, 1, LastDay)

\* A schedule that is paused gets no run on record, unless the tick had listed it
\* before (n5.py:321, 346).
PausedDoesNotRun ==
    [][\A s \in Ids("schedules") :
         Schedule(s).status = "paused" /\ s \in Ids("schedules")' /\ Schedule(s)'.ran > Schedule(s).ran
           => late']_storeVars

\* No two peers of a tunnel have one key, unless both were looked for at once
\* (n5.py:719).
PeerKeysDiffer ==
    late \/ \A t \in Ids("tunnels") : \A p, o \in PeersIn(t) :
               VpnPeer(p).key = VpnPeer(o).key => p = o

=============================================================================
