---------------------------- MODULE Repositories ----------------------------
(***************************************************************************)
(* The tables of the controller (adapters/sql/repositories.py, models.py)  *)
(* and the shape every resource use case has: read rows, await, decide on  *)
(* a copy, and save the whole row back - an upsert, not a compare-and-set. *)
(*                                                                         *)
(* A table is a function from the ids it holds to rows; a deployment of    *)
(* the model keeps the tables of the component under study, the others     *)
(* read as empty.  A save of a row that exists writes the columns the      *)
(* repository lists, one that does not exist is inserted whole; foreign    *)
(* keys cascade, constraints refuse the write and the request fails.       *)
(*                                                                         *)
(* A save is one step: that of SQLite, which serialises writers.  On       *)
(* Postgres the SELECT and the UPDATE of two saves may interleave.         *)
(* The reads of a request are one step, except where a module says so.     *)
(***************************************************************************)
EXTENDS Naturals, FiniteSets, Sequences, SequencesExt

CONSTANTS
    Requests,   \* requests that can be suspended between read and write
    Idle,       \* none in this slot
    None,       \* NULL; as a row: delete it
    MaxAsked    \* bound: requests that are handled

ASSUME StoreAssumption == MaxAsked \in Nat

VARIABLES
    db,         \* the tables
    req,        \* what each suspended request has still to write
    asked,      \* requests so far
    late,       \* some save has overwritten a change its request had not seen
    files       \* outside the database: a backup's bundle and the audit archive

storeVars == <<db, req, asked, late, files>>

Rows(t) == IF t \in DOMAIN db THEN db[t] ELSE <<>>
Ids(t) == DOMAIN Rows(t)

-----------------------------------------------------------------------------
(* What a save writes into a row that is already there. *)

NetworkColumns == {"subnet", "hash"}
IpAllocationColumns == {"subnet", "ip"}
ServiceAccountColumns == {"name", "role", "disabled"}
ServiceTokenColumns == {"account", "hash", "used", "revoked"}
ProjectColumns == {"slug", "labels"}
ProjectMemberColumns == {"project", "account"}
RouterColumns == {"routes", "nets", "ext", "ha", "vrrp", "admin", "status", "applied"}
FloatingIpColumns == {"port", "router", "status"}
BgpPeerColumns == {"state"}
LogicalPortColumns == {"node", "network", "vif", "status"}
SecurityGroupColumns == {"name"}
SecurityGroupMemberColumns == {"group", "value"}
AddressPoolColumns == {"cidrs"}
ServiceObjectColumns == {"ports"}
QosPolicyColumns == {"rate"}
SecurityPolicyColumns == {"rules", "status", "compiled"}
TrunkPortColumns == {"node", "vlans", "native"}
ProjectQuotaColumns == {"limits"}
ResourceSnapshotColumns == {}
RetentionPolicyColumns == {"days"}
GatewayBondColumns == {"mtu", "applied"}
LoadBalancerColumns == {"status", "admin", "applied"}
LbListenerColumns == {"pool"}
LbPoolColumns == {"algorithm"}
LbMemberColumns == {"weight"}
HealthMonitorColumns == {"timing"}
ApplyScheduleColumns == {"expr", "enabled", "status", "ran"}
MirrorSessionColumns == {"toPort", "status", "applied"}
VpnTunnelColumns == {"wireguard", "secret", "applied"}
VpnPeerColumns == {"key"}

Columns ==
    [networks |-> NetworkColumns, allocs |-> IpAllocationColumns,
     accounts |-> ServiceAccountColumns, tokens |-> ServiceTokenColumns,
     projects |-> ProjectColumns, members |-> ProjectMemberColumns,
     routers |-> RouterColumns, fips |-> FloatingIpColumns, peers |-> BgpPeerColumns,
     ports |-> LogicalPortColumns, groups |-> SecurityGroupColumns,
     groupMembers |-> SecurityGroupMemberColumns, addressPools |-> AddressPoolColumns,
     services |-> ServiceObjectColumns, qos |-> QosPolicyColumns,
     policies |-> SecurityPolicyColumns, trunks |-> TrunkPortColumns,
     quotas |-> ProjectQuotaColumns, snapshots |-> ResourceSnapshotColumns,
     retention |-> RetentionPolicyColumns, bonds |-> GatewayBondColumns,
     lbs |-> LoadBalancerColumns, listeners |-> LbListenerColumns, lbPools |-> LbPoolColumns,
     lbMembers |-> LbMemberColumns, monitors |-> HealthMonitorColumns,
     schedules |-> ApplyScheduleColumns, mirrors |-> MirrorSessionColumns,
     tunnels |-> VpnTunnelColumns, vpnPeers |-> VpnPeerColumns]

\* child.field refers to a row of parent; a delete of the parent deletes the
\* child or clears the field.
Key(child, field, parent, onDelete) ==
    [child |-> child, field |-> field, parent |-> parent, onDelete |-> onDelete]

\* Mutants: the owner goes and the row stays; checks made before the save suffice.
NoForeignKeys == {}
NoUniqueKeys == {}

ForeignKeys ==
    { Key("allocs", "subnet", "networks", "cascade"),
      Key("tokens", "account", "accounts", "cascade"),
      Key("members", "project", "projects", "cascade"),
      Key("fips", "router", "routers", "set null"),
      Key("peers", "router", "routers", "cascade"),
      Key("ports", "node", "nodes", "cascade"), Key("ports", "network", "networks", "cascade"),
      Key("groupMembers", "group", "groups", "cascade"),
      Key("trunks", "node", "nodes", "cascade"),
      Key("listeners", "lb", "lbs", "cascade"), Key("lbPools", "lb", "lbs", "cascade"),
      Key("lbMembers", "pool", "lbPools", "cascade"), Key("monitors", "pool", "lbPools", "cascade"),
      Key("vpnPeers", "tunnel", "tunnels", "cascade") }

\* No two rows agree on these columns; a NULL agrees with nothing.
UniqueKeys ==
    { <<"allocs", {"subnet", "ip"}>>, <<"accounts", {"name"}>>, <<"tokens", {"hash"}>>, <<"projects", {"slug"}>>,
      <<"quotas", {"project"}>>, <<"retention", {"project"}>>, <<"monitors", {"pool"}>> }

-----------------------------------------------------------------------------
Stored(d, t, id, row) ==
    LET old == d[t]
        new == IF id \notin DOMAIN old THEN row
               ELSE [c \in DOMAIN row |-> IF c \in Columns[t] THEN row[c] ELSE old[id][c]]
    IN [d EXCEPT ![t] = [i \in DOMAIN old \cup {id} |-> IF i = id THEN new ELSE old[i]]]

Keep(f, S) == [i \in DOMAIN f \cap S |-> f[i]]

\* The row k refers to exists; an allocation refers to the subnet of a network.
Exists(d, k, id) ==
    /\ id \in DOMAIN d[k.parent]
    /\ k.child = "allocs" => d.networks[id].subnet # None

\* Rows of t whose reference leads nowhere.
Orphans(d, t, onDelete) ==
    {i \in DOMAIN d[t] : \E k \in ForeignKeys :
        /\ k.child = t /\ k.onDelete = onDelete
        /\ d[t][i][k.field] # None /\ ~ Exists(d, k, d[t][i][k.field])}

Sweep(d) ==
    [t \in DOMAIN d |->
        LET left == Keep(d[t], DOMAIN d[t] \ Orphans(d, t, "cascade"))
            cleared == Orphans(d, t, "set null")
        IN [i \in DOMAIN left |->
              IF i \notin cleared THEN left[i]
              ELSE [c \in DOMAIN left[i] |->
                      IF \E k \in ForeignKeys : k.child = t /\ k.field = c THEN None ELSE left[i][c]]]]

\* The longest chain of cascades has two links.
Deleted(d, t, id) == Sweep(Sweep([d EXCEPT ![t] = Keep(@, DOMAIN @ \ {id})]))

Accepted(d, t, id) ==
    LET row == d[t][id] IN
    /\ \A k \in ForeignKeys : k.child = t => row[k.field] = None \/ Exists(d, k, row[k.field])
    /\ \A u \in UniqueKeys : u[1] = t =>
         ~ \E i \in DOMAIN d[t] \ {id} : \A c \in u[2] : d[t][i][c] = row[c] /\ row[c] # None

-----------------------------------------------------------------------------
(* The writes of a request. *)

Write(kind, t, id, row) == [kind |-> kind, table |-> t, id |-> id, row |-> row]

Put(t, id, row) == Write("save", t, id, row)
Drop(t, id) == Write("delete", t, id, None)

\* A save that is made only when the id is not there.
New(t, id, row) == Write("insert", t, id, row)

\* Delete the rows whose field names id.
Empty(t, field, id) == Write("empty", t, id, field)

\* Delete the rows of ids, in one statement.
DropAll(t, ids) == Write("deleteAll", t, ids, None)

\* A network saved without its subnet deletes the subnet's row.
Written(d, w) ==
    CASE w.kind = "delete" -> Deleted(d, w.table, w.id)
      [] w.kind = "empty" -> [d EXCEPT ![w.table] = Keep(@, {i \in DOMAIN @ : @[i][w.row] # w.id})]
      [] w.kind = "deleteAll" -> [d EXCEPT ![w.table] = Keep(@, DOMAIN @ \ w.id)]
      [] w.kind \in {"save", "insert"} ->
            LET stored == Stored(d, w.table, w.id, w.row)
            IN IF w.table = "networks" THEN Sweep(stored) ELSE stored

IsKnown(d, w) == w.kind = "insert" /\ w.id \in DOMAIN d[w.table]

Refused(d, w) ==
    \/ IsKnown(d, w)
    \/ w.kind \in {"save", "insert"} /\ ~ Accepted(Written(d, w), w.table, w.id)

\* A refused write ends the request.
OneWritten(at, w) ==
    IF at.over \/ Refused(at.db, w) THEN [at EXCEPT !.over = TRUE] ELSE [at EXCEPT !.db = Written(at.db, w)]

\* The tables after each write of work, in order.
Progress(d, work) ==
    LET after[n \in 0 .. Len(work)] ==
          IF n = 0 THEN [db |-> d, over |-> FALSE] ELSE OneWritten(after[n - 1], work[n])
    IN after

AllWritten(d, work) == Progress(d, work)[Len(work)].db

\* Requests that had read a table which now changes.
Overtaken(d) ==
    [q \in Requests |->
        IF req[q] # Idle /\ \E t \in req[q].reads : d[t] # db[t]
        THEN [req[q] EXCEPT !.overtaken = TRUE] ELSE req[q]]

Asks == asked < MaxAsked /\ asked' = asked + 1

RunsThrough(work) ==
    /\ Asks
    /\ db' = AllWritten(db, work)
    /\ req' = Overtaken(db')
    /\ UNCHANGED <<late, files>>

Suspends(reads, work) ==
    /\ Asks /\ work # <<>>
    /\ \E q \in Requests :
         /\ req[q] = Idle
         /\ req' = [req EXCEPT ![q] =
                      [reads |-> reads, work |-> work, overtaken |-> FALSE]]
    /\ UNCHANGED <<db, late, files>>

\* A use case that has read the tables reads and decided on work.
Handles(reads, work) == RunsThrough(work) \/ Suspends(reads, work)

Writes(q) ==
    /\ req[q] # Idle
    /\ LET w == Head(req[q].work)
           left == Tail(req[q].work)
           goesOn == ~ Refused(db, w) /\ left # <<>>
       IN /\ db' = IF Refused(db, w) THEN db ELSE Written(db, w)
          /\ req' = [Overtaken(db') EXCEPT ![q] =
                       IF goesOn THEN [req[q] EXCEPT !.work = left] ELSE Idle]
          /\ late' = (late \/ (req[q].overtaken /\ ~ Refused(db, w)))
          /\ UNCHANGED <<asked, files>>

\* The process stops, or the client is gone: what is left is not written.
Stops(q) ==
    /\ req[q] # Idle
    /\ req' = [req EXCEPT ![q] = Idle]
    /\ UNCHANGED <<db, asked, late, files>>

StoreNext == \E q \in Requests : Writes(q) \/ Stops(q)

\* Ids a new row may get: drawn at random they are not in the table nor in the
\* bundle, nor about to be written.
FreshIds(t, all) ==
    {i \in all \ (Ids(t) \cup IF t \in DOMAIN files.bundle THEN DOMAIN files.bundle[t] ELSE {}) :
       \A q \in Requests :
        req[q] # Idle => \A k \in DOMAIN req[q].work :
            ~ (req[q].work[k].table = t /\ req[q].work[k].id = i)}

=============================================================================
