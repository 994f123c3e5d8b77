---------------------------- MODULE NodeLifecycle ----------------------------
(***************************************************************************)
(* Nodes and their enrollment tokens: registration and removal             *)
(* (core/use_cases/nodes.py), issue and redemption of one-shot tokens and  *)
(* heartbeats (enrollment.py), maintenance mode (n1.py) and the heartbeat  *)
(* reaper (background.py).  All of them read a node row, await, and save   *)
(* the whole row back; a job is one HTTP request between those awaits.     *)
(*                                                                         *)
(* Of a row is kept what these writers decide on: status, last_seen_at,    *)
(* the agent let in (by its tls_thumbprint) and the maintenance flag.      *)
(* DRAINING is left out: no use case calls mark_drain.  Ids are fresh,     *)
(* names unique.  The operation row a registration or removal saves before *)
(* it publishes is nobody's concern here and has no state.                 *)
(***************************************************************************)
EXTENDS Naturals, FiniteSets

CONSTANTS
    Nodes, Tokens, Agents,
    NoAgent,        \* no agent pinned
    NoRow,          \* no such row
    Jobs,           \* HTTP requests in flight at once
    Reapers,        \* heartbeat_reaper loops: one per replica
    Idle,           \* a job or a reaper with nothing to do
    Requests,       \* kinds of request that arrive
    TokenTTL, StaleAfter, OfflineAfter,
    \* bounds
    MaxTime,        \* of the clock
    LastRequest,    \* clock reading after which no request arrives
    MaxFaults       \* requests that die halfway

RequestKinds == {"register", "issue", "enroll", "heartbeat", "maintenance", "remove"}

ASSUME NodeAssumption ==
    /\ NoAgent \notin Agents
    /\ Requests \subseteq RequestKinds
    /\ TokenTTL \in Nat \ {0} /\ StaleAfter \in Nat \ {0} /\ OfflineAfter \in Nat
    /\ StaleAfter <= OfflineAfter
    /\ MaxTime \in Nat /\ LastRequest \in Nat /\ MaxFaults \in Nat

Statuses == {"pending", "online", "stale", "offline"}

NodeRows == [status : Statuses, seen : Nat, agent : Agents \cup {NoAgent},
             maintenance : BOOLEAN]
TokenRows == [node : Nodes, expires : Nat, used : BOOLEAN]

\* What a request carries over an await.
JobStates ==
    {Idle}
        \cup [at : {"issuing"}, token : Tokens, cred : TokenRows]
        \cup [at : {"checking", "redeeming"}, token : Tokens, cred : TokenRows, row : NodeRows]
        \cup [at : {"admitting"}, token : Tokens, node : Nodes, row : NodeRows]
        \cup [at : {"orphaned", "removing"}, node : Nodes]
        \cup [at : {"saving"}, node : Nodes, row : NodeRows, tells : BOOLEAN]
        \cup [at : {"publishing"}]

\* What a sweep of the reaper carries over an await.
SweepStates ==
    {Idle}
        \cup [at : {"listing"}, now : Nat]
        \cup [at : {"saving"}, rows : [Nodes -> NodeRows \cup {NoRow}]]

VARIABLES
    now,
    node, token,    \* nodes and enrollment_tokens tables
    unused,         \* node and token ids not generated yet
    job, sweep,
    faults,         \* bound
    redeemed,       \* history: enrollments that were completed
    overlapped      \* history: a request came in while another was in flight

nodeVars == <<now, node, token, unused, job, sweep, faults, redeemed, overlapped>>

TypeOK ==
    /\ now \in Nat
    /\ node \in [Nodes -> NodeRows \cup {NoRow}]
    /\ token \in [Tokens -> TokenRows \cup {NoRow}]
    /\ unused \in [nodes : SUBSET Nodes, tokens : SUBSET Tokens]
    /\ job \in [Jobs -> JobStates] /\ sweep \in [Reapers -> SweepStates]
    /\ faults \in Nat
    /\ redeemed \subseteq [token : Tokens, node : Nodes, agent : Agents]
    /\ overlapped \in BOOLEAN

Init ==
    /\ now = 0
    /\ node = [n \in Nodes |-> NoRow] /\ token = [t \in Tokens |-> NoRow]
    /\ unused = [nodes |-> Nodes, tokens |-> Tokens]
    /\ job = [j \in Jobs |-> Idle] /\ sweep = [r \in Reapers |-> Idle]
    /\ faults = 0 /\ redeemed = {} /\ overlapped = FALSE

-----------------------------------------------------------------------------
(* Helpers *)

At(j, step) == job[j] # Idle /\ job[j].at = step
Carry(j, state) == job' = [job EXCEPT ![j] = state]
Arrives(j, kind) ==
    /\ job[j] = Idle /\ kind \in Requests /\ now <= LastRequest
    /\ overlapped' = (overlapped \/ \E k \in Jobs : job[k] # Idle)

\* tells: the request publishes an event after the save.
Saving(n, row, tells) == [at |-> "saving", node |-> n, row |-> row, tells |-> tells]
Publishing == [at |-> "publishing"]

PendingRow == [status |-> "pending", seen |-> 0, agent |-> NoAgent, maintenance |-> FALSE]

\* The row of a node whose agent is heard of at t.
Heard(row, t) ==
    [status |-> "online", seen |-> t, agent |-> row.agent, maintenance |-> row.maintenance]

\* Mutant: a stale node stays stale.
DerivedNeverOffline(row, t) ==
    CASE row.status = "pending" -> row.status
      [] row.status # "pending" /\ t >= row.seen + StaleAfter -> "stale"
      [] row.status # "pending" /\ t < row.seen + StaleAfter -> "online"

\* derived_status: the age of the last heartbeat decides, except for pending.
DerivedStatus(row, t) ==
    CASE row.status = "pending" -> row.status
      [] row.status # "pending" /\ t >= row.seen + OfflineAfter -> "offline"
      [] row.status # "pending" /\ t < row.seen + OfflineAfter
            /\ t >= row.seen + StaleAfter -> "stale"
      [] row.status # "pending" /\ t < row.seen + StaleAfter -> "online"

\* ON DELETE CASCADE of enrollment_tokens.node_id, and delete_for_node.
WithoutTokensOf(n) ==
    [t \in Tokens |-> IF token[t] # NoRow /\ token[t].node = n THEN NoRow ELSE token[t]]

-----------------------------------------------------------------------------
(* Requests: the first read *)

Register(j, n) ==
    /\ Arrives(j, "register")
    /\ n \in unused.nodes
    /\ unused' = [unused EXCEPT !.nodes = @ \ {n}]
    /\ Carry(j, Saving(n, PendingRow, TRUE))
    /\ UNCHANGED <<now, node, token, sweep, faults, redeemed>>

\* IssueEnrollmentToken: tokens are for pending nodes only.
Issue(j, n, t) ==
    /\ Arrives(j, "issue")
    /\ node[n] # NoRow /\ node[n].status = "pending"
    /\ t \in unused.tokens
    /\ unused' = [unused EXCEPT !.tokens = @ \ {t}]
    /\ Carry(j, [at |-> "issuing", token |-> t,
                 cred |-> [node |-> n, expires |-> now + TokenTTL, used |-> FALSE]])
    /\ UNCHANGED <<now, node, token, sweep, faults, redeemed>>

\* EnrollAgent: get_by_hash, then consume on the copy read.
Enroll(j, t, a) ==
    /\ Arrives(j, "enroll")
    /\ token[t] # NoRow /\ ~token[t].used /\ now < token[t].expires
    /\ Carry(j, [at |-> "checking", token |-> t,
                 cred |-> [token[t] EXCEPT !.used = TRUE],
                 row  |-> Heard([PendingRow EXCEPT !.agent = a], now)])
    /\ UNCHANGED <<now, node, token, unused, sweep, faults, redeemed>>

\* Mutant: a heartbeat also brings a pending node online.
HeartbeatEnrolls(j, n) ==
    /\ Arrives(j, "heartbeat")
    /\ node[n] # NoRow
    /\ Carry(j, Saving(n, Heard(node[n], now), FALSE))
    /\ UNCHANGED <<now, node, token, unused, sweep, faults, redeemed>>

\* RecordHeartbeat: refused for pending; any other status becomes online.
Heartbeat(j, n) ==
    /\ Arrives(j, "heartbeat")
    /\ node[n] # NoRow /\ node[n].status # "pending"
    /\ Carry(j, Saving(n, Heard(node[n], now), FALSE))
    /\ UNCHANGED <<now, node, token, unused, sweep, faults, redeemed>>

\* Mutant: maintenance mode has a status of its own.
MaintenanceDrains(j, n, flag) ==
    /\ Arrives(j, "maintenance")
    /\ node[n] # NoRow
    /\ Carry(j, Saving(n, [node[n] EXCEPT !.status = "draining"], TRUE))
    /\ UNCHANGED <<now, node, token, unused, sweep, faults, redeemed>>

\* Mutant: a node that leaves maintenance has to enroll again.
MaintenanceReenrolls(j, n, flag) ==
    /\ Arrives(j, "maintenance")
    /\ node[n] # NoRow
    /\ Carry(j, Saving(n, IF flag THEN [node[n] EXCEPT !.maintenance = TRUE]
                          ELSE [node[n] EXCEPT !.maintenance = FALSE, !.status = "pending"],
                       TRUE))
    /\ UNCHANGED <<now, node, token, unused, sweep, faults, redeemed>>

\* EnterMaintenanceMode, ExitMaintenanceMode.
Maintenance(j, n, flag) ==
    /\ Arrives(j, "maintenance")
    /\ node[n] # NoRow
    /\ Carry(j, Saving(n, [node[n] EXCEPT !.maintenance = flag], TRUE))
    /\ UNCHANGED <<now, node, token, unused, sweep, faults, redeemed>>

Remove(j, n) ==
    /\ Arrives(j, "remove")
    /\ node[n] # NoRow
    /\ Carry(j, [at |-> "removing", node |-> n])
    /\ UNCHANGED <<now, node, token, unused, sweep, faults, redeemed>>

-----------------------------------------------------------------------------
(* Requests: the calls after it *)

\* tokens.save of a new token; the foreign key refuses a node deleted meanwhile.
SaveNewToken(j) ==
    /\ At(j, "issuing")
    /\ token' = IF node[job[j].cred.node] # NoRow
                THEN [token EXCEPT ![job[j].token] = job[j].cred] ELSE token
    /\ Carry(j, Idle)
    /\ UNCHANGED <<now, node, unused, sweep, faults, redeemed, overlapped>>

\* nodes.get, then node.enroll on the copy read: pending nodes only.
CheckNode(j) ==
    /\ At(j, "checking")
    /\ LET n == job[j].cred.node IN
       Carry(j, CASE node[n] = NoRow -> [at |-> "orphaned", node |-> n]
                  [] node[n] # NoRow /\ node[n].status = "pending" ->
                        [at |-> "redeeming", token |-> job[j].token, cred |-> job[j].cred,
                         row |-> [job[j].row EXCEPT !.maintenance = node[n].maintenance]]
                  [] node[n] # NoRow /\ node[n].status # "pending" -> Idle)
    /\ UNCHANGED <<now, node, token, unused, sweep, faults, redeemed, overlapped>>

\* The token outlived its node: delete_for_node.
DropOrphans(j) ==
    /\ At(j, "orphaned")
    /\ token' = WithoutTokensOf(job[j].node)
    /\ Carry(j, Idle)
    /\ UNCHANGED <<now, node, unused, sweep, faults, redeemed, overlapped>>

\* Mutant: the consumed copy is saved as it was read.
RedeemForgets(j) ==
    /\ At(j, "redeeming")
    /\ LET n == job[j].cred.node IN
       IF node[n] # NoRow
       THEN /\ token' = [token EXCEPT ![job[j].token] = [job[j].cred EXCEPT !.used = FALSE]]
            /\ Carry(j, [at |-> "admitting", token |-> job[j].token, node |-> n,
                         row |-> job[j].row])
       ELSE UNCHANGED token /\ Carry(j, Idle)
    /\ UNCHANGED <<now, node, unused, sweep, faults, redeemed, overlapped>>

\* tokens.save: an upsert, refused by the foreign key without the node.
Redeem(j) ==
    /\ At(j, "redeeming")
    /\ LET n == job[j].cred.node IN
       IF node[n] # NoRow
       THEN /\ token' = [token EXCEPT ![job[j].token] = job[j].cred]
            /\ Carry(j, [at |-> "admitting", token |-> job[j].token, node |-> n,
                         row |-> job[j].row])
       ELSE UNCHANGED token /\ Carry(j, Idle)
    /\ UNCHANGED <<now, node, unused, sweep, faults, redeemed, overlapped>>

\* nodes.save of the enrolled node: an upsert.
Admit(j) ==
    /\ At(j, "admitting")
    /\ LET n == job[j].node IN
       /\ node' = [node EXCEPT ![n] = job[j].row]
       /\ redeemed' = redeemed \cup
            {[token |-> job[j].token, node |-> n, agent |-> job[j].row.agent]}
       /\ Carry(j, Publishing)
    /\ UNCHANGED <<now, token, unused, sweep, faults, overlapped>>

\* nodes.save of every other request: an upsert.
SaveNode(j) ==
    /\ At(j, "saving")
    /\ node' = [node EXCEPT ![job[j].node] = job[j].row]
    /\ Carry(j, IF job[j].tells THEN Publishing ELSE Idle)
    /\ UNCHANGED <<now, token, unused, sweep, faults, redeemed, overlapped>>

\* nodes.delete; the tokens cascade.
DeleteNode(j) ==
    /\ At(j, "removing")
    /\ node' = [node EXCEPT ![job[j].node] = NoRow]
    /\ token' = WithoutTokensOf(job[j].node)
    /\ Carry(j, Publishing)
    /\ UNCHANGED <<now, unused, sweep, faults, redeemed, overlapped>>

\* The event goes to the outbox, whose state is module Webhooks'.
Publish(j) ==
    /\ At(j, "publishing")
    /\ Carry(j, Idle)
    /\ UNCHANGED <<now, node, token, unused, sweep, faults, redeemed, overlapped>>

\* The next call raises, the client goes away, or the replica dies.
RequestDies(j) ==
    /\ job[j] # Idle
    /\ faults < MaxFaults /\ faults' = faults + 1
    /\ Carry(j, Idle)
    /\ UNCHANGED <<now, node, token, unused, sweep, redeemed, overlapped>>

-----------------------------------------------------------------------------
(* HeartbeatReaper.execute *)

\* The clock is read before the list is awaited.
ReaperWakes(r) ==
    /\ sweep[r] = Idle
    /\ sweep' = [sweep EXCEPT ![r] = [at |-> "listing", now |-> now]]
    /\ UNCHANGED <<now, node, token, unused, job, faults, redeemed, overlapped>>

\* nodes.list: from here on the sweep works on copies, and saves those whose
\* status no longer fits the age of their heartbeat.
ReaperLists(r) ==
    /\ sweep[r] # Idle /\ sweep[r].at = "listing"
    /\ LET rows == [n \in Nodes |->
               IF node[n] # NoRow /\ node[n].status # DerivedStatus(node[n], sweep[r].now)
               THEN [node[n] EXCEPT !.status = DerivedStatus(node[n], sweep[r].now)]
               ELSE NoRow]
       IN sweep' = [sweep EXCEPT ![r] = IF \A n \in Nodes : rows[n] = NoRow THEN Idle
                                        ELSE [at |-> "saving", rows |-> rows]]
    /\ UNCHANGED <<now, node, token, unused, job, faults, redeemed, overlapped>>

\* The list is sorted by name; the names may stand in any order here.
ReaperSaves(r) ==
    /\ sweep[r] # Idle /\ sweep[r].at = "saving"
    /\ \E n \in Nodes :
         /\ sweep[r].rows[n] # NoRow
         /\ node' = [node EXCEPT ![n] = sweep[r].rows[n]]
         /\ LET rows == [sweep[r].rows EXCEPT ![n] = NoRow] IN
            sweep' = [sweep EXCEPT ![r] = IF \A m \in Nodes : rows[m] = NoRow THEN Idle
                                          ELSE [at |-> "saving", rows |-> rows]]
    /\ UNCHANGED <<now, token, unused, job, faults, redeemed, overlapped>>

Tick ==
    /\ now < MaxTime
    /\ now' = now + 1
    /\ UNCHANGED <<node, token, unused, job, sweep, faults, redeemed, overlapped>>

Arrival(j) ==
    \/ \E n \in Nodes : Register(j, n) \/ Heartbeat(j, n) \/ Remove(j, n)
    \/ \E n \in Nodes, t \in Tokens : Issue(j, n, t)
    \/ \E t \in Tokens, a \in Agents : Enroll(j, t, a)
    \/ \E n \in Nodes, flag \in BOOLEAN : Maintenance(j, n, flag)

Proceed(j) ==
    \/ SaveNewToken(j) \/ CheckNode(j) \/ DropOrphans(j) \/ Redeem(j) \/ Admit(j)
    \/ SaveNode(j) \/ DeleteNode(j) \/ Publish(j)

Reap(r) == ReaperWakes(r) \/ ReaperLists(r) \/ ReaperSaves(r)

Next ==
    \/ \E j \in Jobs : Arrival(j) \/ Proceed(j) \/ RequestDies(j)
    \/ \E r \in Reapers : Reap(r)
    \/ Tick

Spec == Init /\ [][Next]_nodeVars

\* A request that is in goes on, the loop sleeps and sweeps for ever, and time
\* passes.
FairSpec ==
    /\ Spec
    /\ WF_nodeVars(Tick)
    /\ \A j \in Jobs : WF_nodeVars(Proceed(j))
    /\ \A r \in Reapers : WF_nodeVars(Reap(r))

-----------------------------------------------------------------------------
(* Properties *)

\* Nobody but an agent that redeemed a token of this node is ever on record as
\* its agent, and without one the node never leaves pending, whatever stale
\* rows are saved over each other (node.py:124: a heartbeat does not enroll).
OnlyRedeemersOnline ==
    \A n \in Nodes : node[n] # NoRow =>
        /\ node[n].status # "pending" => node[n].agent # NoAgent
        /\ node[n].agent # NoAgent =>
              \E e \in redeemed : e.node = n /\ e.agent = node[n].agent

\* An agent that was let in has spent its token: the token is saved first, so
\* a crash between the two saves costs the token and not the single use
\* (enrollment.py:159-160).
RedeemedTokenIsSpent ==
    \A e \in redeemed : token[e.token] = NoRow \/ token[e.token].used

\* "One-shot bearer credential ... marks it consumed inside the same
\* transaction" (enrollment_token.py:1, 9): a token lets one agent in.
TokenRedeemedOnce ==
    \A d, e \in redeemed : d.token = e.token => d = e

\* "Transition from pending to online after agent connects" (node.py:85) is
\* final: as long as requests do not overlap an enrolled node keeps the agent
\* it let in and never returns to pending, whatever rows the reaper saves late
\* and wherever a request dies.
EnrolledStaysEnrolled ==
    [][~overlapped' => \A n \in Nodes :
          node[n] # NoRow /\ node'[n] # NoRow /\ node[n].status # "pending"
          => node'[n].status # "pending" /\ node'[n].agent = node[n].agent]_nodeVars

\* When the agents fall silent every enrolled node ends up offline in the
\* table, and stays so (background.py:122).
SilentNodeGoesOffline ==
    <>[](\A n \in Nodes : node[n] # NoRow /\ node[n].status # "pending"
            => node[n].status = "offline")

=============================================================================
