# nervum in TLA+

TLA+ models, TLC runs and TLAPS proofs for nervum, a software-defined-network
controller (`src/src/sdn_controller`) with an agent on every node
(`src/src/netos_agent`).  Paths below are relative to `src/src/` and, without a
first component, to `src/src/sdn_controller/`.

Contents: 1 the system, 2 the plan, 3 the modules, 4 the runs, 5 the findings,
6 the proofs, 7 what is not modelled.

## 1. The system

The controller is an asyncio/FastAPI program.  One or more replicas share a SQL
database (or each keeps everything in memory).  An HTTP handler authenticates,
calls one use case of `core/use_cases`, and the use case

    reads rows -> awaits -> decides -> saves whole rows -> publishes to the outbox

where **every repository call is a transaction of its own**.  Nothing encloses a
use case: between two of its awaits any other handler, background loop or
replica may run.  `save` is an upsert of the whole row, so the row it writes is
the one the use case read, changed, some awaits ago.  An event is appended to
the outbox in a second commit after the save (`core/services/event_publisher.py`).
That shape is the source of most of what is hard here, and the unit of
atomicity of every module: a step is one repository, lock-store or agent call
with the synchronous code that follows it.

Agents are separate processes; the controller calls them over HTTP
(`adapters/netos_agent/client.py`).  A call can be lost before or after it had
its effect, and an agent keeps executing a plan whose caller has timed out.

Four background loops run in each replica (`app/container.py:622-675`):
reconciler sweep, heartbeat reaper, retention sweep, webhook dispatch.

| component | state | operations | hard behaviour | what makes it correct |
|---|---|---|---|---|
| Apply lock store (`adapters/locks.py`) | a row per network: owner, expiry | try_lock, release, current_owner | expiry under a live holder, late clock readings, late releases, crashes | one live lease at a time; only its owner ends it; a dead owner's ends by itself |
| ApplyNetwork (`core/use_cases/reconcile.py`) | operation, plans, observations in memory; lock row; `observed_states`, `operations`, outbox | observe, plan, push, verify, record, publish, release | overlapping applies, lost calls, agents running on, edits and node removal meanwhile, failing saves | success means converged; recorded outcome and event agree; every path releases |
| Diff engine and planner (`core/services/diff_engine.py`, `planner.py`) | none | diff_for_node, is_in_compliance | order of steps, partial application, retries | a plan that succeeded leaves nothing to do; no step undoes another |
| Agent plan execution (`netos_agent/core/use_cases/apply_plan.py`, adapters) | OVS, dnsmasq, CoreDNS, nftables configuration | the plan's steps | a step fails with or without effect, the rest still runs | idempotence; retry reaches the goal |
| Nodes, enrollment, heartbeats (`core/use_cases/nodes.py`, `enrollment.py`, `background.py`, `n1.py`) | node rows, token rows | register, issue token, enroll, heartbeat, maintenance, remove, reap | stale whole-row saves of five writers | online only by redeeming a token; silent nodes end up offline |
| Webhooks and outbox (`core/use_cases/webhooks.py`, `core/services/event_publisher.py`) | outbox rows, subscriptions with cursors, secrets in memory | append, create, delete, dispatch | event ids visible out of order, several dispatchers, retries, disabling | at least once, in order of ids; a cursor never passes what was not delivered |
| Networks (`core/use_cases/networks.py`) | network rows: intent, members, version, hash | create, update, assign | two editors of one row | the hash is that of what is stored |
| IPAM (`core/use_cases/ipam.py`, `core/services/ip_allocator.py`) | subnets, allocations | upsert subnet, allocate, reserve, release | two allocators pick one address, pool exhaustion, a subnet replaced under its addresses | an address has one holder and lies in its subnet |
| Edge adapters (`netos_agent/adapters/dhcp_dnsmasq`, `dns_coredns`, `firewall_nftables`) | config files, the daemon's loaded state, in-memory intents | apply, delete | written but not reloaded; restart of agent, daemon, host | "ok" means it is loaded; a step for one network reaches the others only through the chain that decides |
| Topology and drift (`core/use_cases/topology.py`) | cached observations | scan drift, topology, auto-apply sweep | caches older than the intent | drift is what a plan would repair |
| Operations, audit, retention (`core/entities/operation.py`, `core/use_cases/audit.py`, `background.py`, `adapters/audit_archive.py`) | operation rows and events, audit rows, archive files | save, record, archive, delete | crash or second replica between archive and delete | with a file archive, nothing is deleted that was not archived |
| Ports, groups, pools, services, QoS (`n1.py`), trunk ports (`n2.py`) | one table each | create, update, attach, detach, delete, members | the owner is deleted between look-up and insert | no orphans, rows that load |
| Security policies (`n2.py`, `core/services/policy_compiler.py`) | policies with rules and compiled ruleset | edit rules, compile, apply | compiled from a copy while the rules are edited | the ruleset decides as the rules do |
| Routers, floating IPs, BGP (`n3.py`) | rows with generated configuration | create, routes, networks, apply, admin state, allocate, associate | configuration saved from a stale copy; a router deleted under its addresses | the configuration is that of the stored topology |
| Governance and load balancers (`n4.py`) | quotas, snapshots, bonds, retention policies; balancers with listeners, pools, members, monitors | set, take, apply, CRUD | look up, await, insert; cascades of two levels | one per key, no orphans |
| Schedules, mirrors, VPN (`n5.py`, `core/services/cron_scheduler.py`) | schedules, sessions, tunnels, peers | CRUD, toggle, tick, apply | a tick, which nothing calls yet, saves what it listed before its callbacks | due when listed, no run on record while paused |
| Backup, import (`core/use_cases/backup.py`) | a bundle | export, import | tables read at different times, one commit per row | what a row refers to is there |
| Service accounts, projects, authentication (`service_accounts.py`, `projects.py`, `adapters/http_api/auth.py`) | accounts, tokens, projects, members | create, disable, issue, revoke, authenticate, bootstrap | every request saves its token's row | a disabled account stays out; a revoked token, once the requests it had let in have ended |
| HTTP surface (`adapters/http_api/routers`, `audit_middleware.py`) | none | a permission and an audit rule per endpoint | picked by hand at each of them | roles get what is documented |
| Rate limiter (`adapters/http_api/rate_limit.py`) | a bucket per principal | try_acquire | a wall clock that is set back | the bound on grants |
| Agent snapshots, ovs-vsctl adapter, gRPC/CLI, schemas, migrations, tracing, advisory locks | files; none | | | not modelled, section 7 |

## 2. The plan

In order of importance, one module or family at a time:

1. `LockRow`, `ApplyLease`, `OvsDiff`, `AgentPlan`, `ApplyNetwork`: the apply, its
   lock and its algorithm, with the lease as abstract specification; proofs of the
   lease, of its refinement and of what success and events mean.  *Done.*
2. `NodeLifecycle`: nodes, tokens, heartbeats, the reaper; proofs.  *Done.*
3. `Outbox`, `Webhooks`, `EventFeed`: the journal and its two readers; proofs.  *Done.*
4. `Repositories`: the tables and the shape all resource services share; on it
   `Ipam`, `Access`, `Backup`, `Retention`.  *Done.*
5. `EdgeServices`: the agent's edge adapters; drift and topology in `OvsDiff`; proofs.  *Done.*
6. The services of N1 to N5: `Ports`, `Policies`, `Routing`, `Governance`,
   `Balancing`, `Advanced`; `RateLimit` with its proof; `HttpApi`.  *Done.*
7. Proofs that need an argument across modules or over copies of rows: `AgentPlan`,
   `UndisturbedSuccessConverged`, `EnrolledStaysEnrolled`, `DisabledIsEarned`,
   `CaughtUpIsCurrent`.  *Done.*
8. Proofs about the services of 4 and 6: `Store_proofs`, `Services_proofs`.  *Done.*
9. Open: the agent's node snapshots; the sessions of two saves on Postgres, statement
   by statement.

## 3. The modules

Common conventions.  A step is what the program does between two awaits that
matter: one transaction, one lock-store call or one agent call, and the code up to
the next.  What a use case has read and still carries is local state of its actor
(`job`, `pass`, `snap`, ...), so a stale copy is visible as such.  Ids, names and
payloads are model values.  `NoX` and `Idle` are what the code has as `None` or as a
coroutine that has not started.  Variables marked *bound* count the troubles TLC may
cause; variables marked *history* are written and never read by actions.

### LockRow, ApplyLease: the lock store

`LockRow` has the decisions of `adapters/locks.py` on one key as operators:
`Acquires(row, owner, t)`, `AfterTryLock`, `AfterRelease`, `CurrentOwner`.  The
in-memory and the SQL store decide alike; `now` is read before the mutex or the
transaction is entered, so `t` may be older than the store's content.

`ApplyLease` is the abstract specification of how an apply uses the lock: an owner
asks with a clock reading (`Ask`), is granted or refused (`Take`, `Refuse`),
releases or dies.  TTL and clock are explicit; nothing obliges a holder to release.

### OvsDiff, AgentPlan: the algorithm

`OvsDiff` models `diff_for_node` and `is_in_compliance`
(`core/services/diff_engine.py`) and the effect of a step on a node.  A plan is a set
of steps and an order (`MayRunFirst`): the bridge first; the other steps touch
disjoint state.  An observed bridge is absent, as asked, claimed for the network but
not as asked, or not claimed; a tunnel port has the options of an MTU or is altered;
`stray` is another bridge that claims the network.  `AgentPlan` runs such a plan at one node from every observable
state, with failing steps and with a second delivery.

### ApplyNetwork: the apply

`core/use_cases/reconcile.py` step by step: `ReadNetwork`, `AskLock`, `TakeLock` or
`RefuseLock` and `ReportConflict`, `Observe`/`SaveObserved` for each member,
`SendPlan`/`AgentReply` or `CallLost`, `StartVerify`, `VerifyRead`/`VerifySave`,
`SaveSuccess` or `SaveFailure`, `Publish`, `ReleaseLock`.  Beside it: the agent
(`AgentStep`, `AgentDies`), which goes on when its caller has given up;
`StepRaises` for what the inner `try` catches; `Crash`; edits of the intent, a
change of members, removed nodes, nodes changed from outside; the clock.
`EditIntent` may also leave the network without edge services, as a new CIDR or gateway
does (`networks.py:269-280`).  `StartVerify` reads the members' nodes in one step where
`reconcile.py:313-319` reads them one after the other; the views themselves, on which the
verdict rests, are read one by one (`VerifyRead`).

It composes `OvsDiff` and `LockRow` and **refines** `ApplyLease`:
`Lease == INSTANCE ApplyLease WITH phase <- LeasePhase`, where the phase of an owner
is read off its program counter.  `UsesLease == Lease!LeaseSpec` is checked by TLC and
proved.

### NodeLifecycle: nodes, enrollment, heartbeats

Two tables (`node`, `token`), requests in flight (`job`) and sweeps of the reaper
(`sweep`).  An arrival reads (`Register`, `Issue`, `Enroll`, `Heartbeat`,
`Maintenance`, `Remove`) and leaves a row in `job`; a later step saves it as it is
(`SaveNode`, `Redeem`, `Admit`, `SaveNewToken`).  The reaper reads the clock, then
the list, then saves one row after the other.  Foreign keys cascade as in
`adapters/sql/models.py`.

### Outbox, Webhooks, EventFeed: the journal

`Outbox` has the writers: `Save` of a resource, `DrawId` (the insert takes the next
event id), `CommitEvent`, and `LoseEvent` for a process that dies in between.
`SerialInserts` says whether inserts exclude each other (one connection or one
mutex) or not (Postgres).  `Heads` and `IsPage` are the two queries readers use.

`Webhooks` EXTENDS it with subscriptions: `CreateWebhookSubscription` and
`DeleteWebhookSubscription` call by call, the dispatcher's pass
(`StartPass`, `GetSecret`, `ReadPage`, `Skip`/`Deliver`/`Fail`, `SaveCopy`),
`BreakPass` (an exception that `_periodic` logs) and `Restart`, after which an
in-memory secret store is empty.  `EventFeed` EXTENDS it with one subscriber of
`GET /events/snapshot` and `GET /events`, reads in the order the handlers make them.

### EdgeServices: the edge adapters

What is on disk (`file`, `corefile`), what the daemons have loaded (`running`), the
agent's maps (`intent`) and the nftables table (`kernel`).  `ApplyScope`, `ApplyZone`
and `ApplyRule` are an apply or, with `NoSpec`, a delete; each may end where a call of
the code can fail (`dnsmasq --test` and `nft --check` in `Refuse`, the reload or swap
inside the others).  `Noop` is the early return of every adapter.  `AgentRestarts`
empties the maps, which are in memory only.  `adrift` is history: the backends with a
failed load, or forgotten maps, and no load since.

All networks of a node share one nftables table (`firewall_nftables/adapter.py:188-203`):
each policy is a chain that ends in its default action, and `dispatch` sends every
forwarded packet to the chains in the order of the agent's dict.  So `kernel` has NAT
rules, each of its own, and the chains as a sequence; `OrderAfter` is the dict's order,
in which a policy that is changed keeps its place.  The first chain ends in accept or
drop, so it decides every forwarded packet of every network (`Deciding`), and the later
chains never see one: their policies have no effect and their counters stay at zero,
although the comment there says "all-policies-active".  `OthersKept` therefore speaks of
what is *loaded* for a service, and `FirstPolicyDecides` of what is decided: it changes
only with a step for the first policy, or with the first policy a node gets.
`ReachOfAStep` is both.

`OvsDiff` also has `IsDrift` and `TunnelEdges` for `ScanDrift` and the topology.

### Repositories: the shape of a resource service

Tables are functions from ids to rows.  A use case's reads and its decision are one
step, the writes it decided on are kept in `req[q].work` and made one by one
(`Writes`), with other requests in between; or nothing comes in between
(`RunsThrough`); or the process stops first (`Stops`).  A request that is suspended
has something to write (`Suspends`).  `Handles(reads, work)` is the
choice between the two and all a service's action has to say besides its guard.  A
save of a row that exists writes the columns in `Columns`, which are what the
repository's update lists - `NetworkColumns` lacks what `_update_network_row` lacks -
and inserts it when it is gone.  `ForeignKeys` cascade or clear, `UniqueKeys` refuse.  `AllWritten` is the end of
`Progress`, which goes through the writes one by one until one is refused.
`late` is history: some save has overwritten a change its request had not seen.  It
stands in properties that the code keeps only as long as that has not happened.

A save is one step, which is what SQLite does and what two short transactions of
Postgres nearly always do.  Events are left out here: they are appended after the
save, and `Outbox` has what can go wrong with that.

### The services

Each EXTENDS `Repositories`, has one action for each use case that changes something,
a constructor for each new row and an accessor for each table (`Router(id)`,
`Token(tk)`): the accessors stand for the mappers, which turn rows into entities, and
the type invariants say that the entity's own validation, which runs again at every
load, accepts what is stored.

| module | code | abstractions |
|---|---|---|
| `Ipam` | `networks.py`, `ipam.py`, `ip_allocator.py` | addresses are naturals; VLAN, VNI, MTU, labels left out; the subnet's id is the network's |
| `Access` | `service_accounts.py`, `projects.py`, bootstrap in `app/container.py`, roles in `security.py` | of hashes only the bootstrap token's is told apart, since two controllers may store it twice; expiry is a flag time sets |
| `HttpApi` | the routers, `auth.py` | an endpoint is its handler with the permission it asks for; constant-level |
| `Backup` | `backup.py` | audit events of the bundle left out |
| `Retention` | `audit.py`, sweep in `background.py`, `audit_archive.py` | an event's age is a flag; the archive is the one that keeps nothing or the file archive |
| `Ports` | `n1.py`, trunks of `n2.py` | names, labels and address formats left out |
| `Policies` | `n2.py`, service objects of `n1.py`, `policy_compiler.py` | a ruleset by what it decides about a packet: chain, source inside or outside, port; destinations, which are matched as sources are, left out |
| `Routing` | `n3.py`, `router_configurator.py`, `preflight_checker.py` | a route is its destination; a configuration is the parts it is rendered from |
| `Governance` | quotas, snapshots, bonds, retention policies of `n4.py` | payloads left out |
| `Balancing` | load balancers of `n4.py`, `lb_configurator.py` | one value per settings record |
| `Advanced` | `n5.py`, `cron_scheduler.py` and the configurators of mirror and VPN | two cron fields of five, all forms the parser knows |
| `RateLimit` | `rate_limit.py` | one principal, units instead of floats |

`Services` composes them: a deployment keeps the tables of one component and takes
its requests, so one run explores all of them without multiplying them.  `Backup`'s
deployment has networks, addresses and accounts together.  `Services` also gathers
the modules' properties under what they are about; `MCServices` gives the deployments
and the values of the constants.  What a deployment may be is `DeploymentAssumption`: a
table comes with those its rows refer to and with those its own use cases write, and a
controller starts with sound nodes, networks, policies and services, with no account but
the administrator's, and with all other tables empty.

## 4. The runs

| run | asks | instance |
|---|---|---|
| `lease` | mutual exclusion, backing by the row, end of a dead owner's lease | 3 owners, TTL 2, 5 ticks |
| `agent_plan` | a successful plan converges, steps only shrink the difference, redelivery and retry are safe, drift is what a plan repairs; what an edge adapter's "ok" means, and how far a step reaches | a node of networks over 3, 2, 1 and no nodes, every observable state, one failing step; 1 scope, 2 zones, 1 NAT rule, 2 policies, 2 specifications of each, 2 failures, any number of restarts |
| `apply` | types; success was verified; undisturbed success converged; events agree with rows; lease refinement | 2 applies, 2 nodes, member lists of 0, 1 and 2 nodes in either order, 2 ticks with TTL 1, one trouble of any kind |
| `apply_ends` | every apply ends | the same, from networks with both nodes or none |
| `apply_double_push` | *violation*: section 5 | 2 applies, both nodes, TTL 1 |
| `nodes` | who is on record; spent tokens; enrollment is final; silent nodes go offline | 1 node, 1 token, 2 agents, 2 requests at once, 1 reaper, 3 ticks, one dying request |
| `nodes_token` | *violation*: section 5 | the same, enrollment only |
| `webhooks` | honest cursors, safe deduplication, disabling has a cause, at least once | 1 subscription, 1 writer, 3 changes of 2 kinds, pages of 2, 2 failures, one broken pass or restart |
| `feed` | nothing missed, caught up is current, what is published becomes known | 2 writers, 3 changes, pages of 1, one resync |
| `feed_gap` | *violation*: section 5 | 2 writers with overlapping inserts |
| `services` | the rules of each service, listed below | 4 requests, 2 of them suspended between read and write at once, 1 or 2 rows per table |
| `network_patch` | *violation*: section 5 | the same, 2 requests |

What `services` checks is stated in `Services` as conjunctions of the modules' own
properties, each of which stands, with its comment, in the module it is about:

| checked | made of |
|---|---|
| `RowsAreSound` | the type invariants of the eight services with tables of entities |
| `TakenOnce` | `AddressesUnique`, `OnePerKey`, `NoDuplicateRoute`, `PeerKeysDiffer` |
| `DerivedIsOwn` | `AppliedIsOwn`, `RulesetDecidesAsRules`, `NoUnwantedAccept`, `HashCoversSubnet`, `FipBound`, `DownWasAskedFor` |
| `AddressesFit` | `AllocatorIsExact`, `StrandedOnlyUnchecked` |
| `AccessHolds` | `RolesAsDocumented`, `RevocationHolds`, `DisabledIsFinal` |
| `SchedulesRunAsAsked` | `DueWhenListed`, `PausedDoesNotRun` |
| `RefusedIsThere`, `NothingForgotten`, `GrantedIsBounded` | single properties of `Backup`, `Retention` and `RateLimit` |

In the same way `agent_plan` checks `ShownIsPlanned` (`DriftIsNonCompliance` and
`DrawnIsPlanned`), `EdgeIsServed` (`OkIsServed` and `LoadHealsAll`) and `ReachOfAStep`
(`OthersKept` and `FirstPolicyDecides`).

What these do not say.  `TakenOnce`: a snapshot's version, the global retention policy
and a VPN peer's key are unique only until a save lands late (`late`), since only a check
before the await guards them.  `DerivedIsOwn`: it covers a router's applied configuration,
a policy's ruleset, the subnet part of a network's hash and the status of a floating IP
and of a balancer; the NAT part of that hash is not the row's (`network_patch`), and
bonds, BGP peers and VPN keys change without a reset of what was generated from them
(section 5).  `AccessHolds`: a revoked token is in force again when a request that it had
let in before saves the whole row to note the time (`service_accounts.py:294`); the
property says that this is the only way, that requests which begin later cannot do it,
and that a disabled account has no such way.  `NothingForgotten`: it is about the file
archive.  `SchedulesRunAsAsked`: nothing says that a schedule runs, because nothing calls
`TickScheduler` (`n5.py:300`, `app/container.py:622-667`); its action is what a call
would do.

What `services` shows, by hazard:

- *Check, await, insert.*  `AddressesUnique`, `AccessTypeOK`, `BalancingTypeOK`: the
  checks of two requests pass, the table's constraint decides.  `OnePerKey`,
  `NoDuplicateRoute`, `PeerKeysDiffer`: where there is no constraint, what still holds.
- *A copy computed from, and saved, while the row is edited.*  `AppliedIsOwn`,
  `RulesetDecidesAsRules`, `HashCoversSubnet` hold although saves overwrite each other:
  the derived value is in the same row as what it is derived from, so a lost edit is
  lost whole.  `RevocationHolds`, `PausedDoesNotRun`, `StrandedOnlyUnchecked` hold up
  to such a save, and say so (`late`).  `DisabledIsFinal` holds even then.
- *Deletes under a request.*  `BalancingTypeOK`, `PortsTypeOK`, `FipBound`,
  `DownWasAskedFor`: cascades, and rows that come back by an upsert.
- *Backup.*  `RefusedIsThere`: a bundle read table by table beside requests never has
  a row whose owner is missing - because networks are read before the addresses and
  addresses only for those networks.  It may have an address outside its subnet:
  `StrandedOnlyUnchecked` has that exception because TLC found it.
- *Algorithms against a reference.*  `AllocatorIsExact` (the allocator against the
  check of reservations), `RulesetDecidesAsRules` and `NoUnwantedAccept` (the compiler
  against the meaning of rules), `DueWhenListed` (cron).
- *Others.*  `NothingForgotten`: archive, then delete, with two replicas;
  `GrantedIsBounded`; `RolesAsDocumented` over the whole surface that `create_app`
  includes.  The user guide (`docs/user-guide.md:313-316`) speaks of networks, nodes,
  IPAM, operations, topology, accounts, audit and backup; N1 to N5, which ask for the
  permissions of networks, are counted with networks.  Two things it does not say and
  the property allows by name: an operator registers nodes (`node:write`) and opens
  projects.  It is silent on who sees projects, webhooks, events and node snapshots.

Why the bounds are enough:

- *Two applies, two requests.*  The hazards are of pairs: a holder and a late comer,
  a reader and a writer of one row.  `lease` has three owners because there a refused
  third can matter.  The theorems hold for any number.
- *Clock.*  The clock runs past the TTL, past `OfflineAfter`, past a token's expiry:
  each run reaches readings on both sides of every comparison, equality included.
- *One trouble.*  Every single failure at every place, combined with every
  interleaving; what holds under any number of troubles is what the theorems say.
- *One subscription.*  Subscriptions do not interact except through the order in
  which a pass serves them, and a second one multiplies the states beyond reach.  The
  theorems cover any number.
- *Four requests, two suspended.*  Every hazard above is one of a reader, a writer in
  between and, for backup, the requests that lead up to it (create, fill, import).  A
  table has the one or two rows that a check of uniqueness needs.  Beside a backup
  the requests of networks run through (`BackupAlone = TRUE`) while imports are
  suspended; they overlap each other in the deployment without backup.  That they
  overlap an import, too (`BackupAlone = FALSE`), is too many states; the theorems
  hold for both.
- *Edge services.*  The adapters share nothing but their host, so dnsmasq is explored
  beside CoreDNS or beside nftables but these two, which have the most states, not
  beside each other (`NotBothAtOnce`); policies, zones and specifications are
  interchangeable (`EdgeSymmetry`).  The theorems have no such bound.
- *Pages.*  A page limit below the number of events makes pages end in the middle.

`CHECK_DEADLOCK FALSE` stands everywhere because all instances end when their
bounded clock, requests or changes are used up, as the system does when nobody calls.
`services` and `agent_plan` state safety only, under no fairness.

Fairness.

- `LeaseFairSpec`: `WF(Tick)` only; time passes.
- `ApplyNetwork!FairSpec`: `WF(Proceed(o))`, since asyncio runs every task that is
  ready and each awaited call returns, raises or times out (`CallLost`);
  `WF(AgentStep(o))`, the agent works through what it has; `WF(Tick)`.  Nothing is
  fair about `Crash`, edits or removals.
- `NodeLifecycle!FairSpec`: requests go on, `_periodic` (`app/container.py:1544-1563`)
  runs the reaper for ever, time passes.
- `Webhooks!FairSpec`: `WF(Dispatch)`, again `_periodic`.  The properties need no
  fairness of requests or writers.  Posts may always fail: then `max_failures` disables.
- `EventFeed!FairFeedSpec`: the subscriber keeps polling.

Each property of a passing run has a mutant of the code that it catches, defined in
the module right before the operator it replaces and marked `Mutant:`: a dropped
check, a missing reset, a swapped order.  A conjunction has one for one of its parts.

## 5. The findings

Disagreements between code and text, each with a run that exhibits it:

- `apply_double_push`, `NoDoublePush`.  `ports/locks.py:3` says the lock keeps two
  applies from pushing to an agent at once.  The lease has a TTL of 300 s
  (`reconcile.py:72`) and neither renewal nor fencing, and an agent keeps executing a
  plan whose call has timed out: a second apply can send its plan to a node that
  still executes the first.
- `nodes_token`, `TokenRedeemedOnce`.  `core/entities/enrollment_token.py:1-9` says
  one-shot, consumed within one transaction.  `EnrollAgent` reads, checks and saves in
  several; two redemptions that overlap both succeed.
- `feed_gap`, `NothingMissed`.  `core/use_cases/events.py:13-15` says a subscriber never
  misses an event.  Event ids are drawn before they are visible; when two inserts
  commit in the other order, the smaller id appears behind a cursor.

- `network_patch`, `HashIsOfStoredSpec`.  `docs/user-guide.md:212-226` promises that a
  PATCH replaces the fields it gives, with `firewall_policy` as its example.
  `_update_network_row` (`adapters/sql/repositories.py:383`) writes neither
  `firewall_policy` nor `nat`: the answer, the version and the hash show the change, the
  row does not have it, and no plan ever contains it.  The integration test of this
  (`tests/integration/test_apply_edge_services.py`) uses the in-memory repository.

Other differences met while modelling, without a run:

*Apply and agent.*  A refused apply is told the owner's operation id, whose row is not
written before that apply ends (`reconcile.py:145`, 430): `GET /operations/{id}`
answers 404.  The network is read before the lock is taken (`reconcile.py:127`): an
older revision can be realised after a newer one.  Nodes taken out of a network are
never visited again, and a node that stops being the edge node keeps its services
(`diff_engine.py:89-118`).  `vxlan_port_name` cuts a node id to six characters
(`diff_engine.py:72`) and exceeds the length of an interface name for a VNI of seven
digits.  `OvsdbSubprocess.get_state` does not read external ids, so that a verification
over it cannot find its bridges compliant; its restore is not implemented (193).

*Edge adapters.*  After a reload that failed, the retry finds file or map as it should
be and answers "ok" to what nobody runs, against `diff_engine.py:329-330` and
`firewall_nftables/adapter.py:59-60`; after a restart of the agent a delete is a no-op
while the kernel keeps the rule, and the first apply renders a table without the other
networks' rules.  `OkIsServed` and `ReachOfAStep` state what is true.  One dispatch
chain sends all forwarded traffic through every policy in map order and each ends in
accept or drop: the policy that was added first decides for all networks of the node,
the later ones never see a packet, against "all-policies-active"
(`firewall_nftables/adapter.py:194-203`).  The script begins with `flush table` (182),
before the table is there for the first time; whether nft takes that is left open, as
any failing load is.  The controller
never plans the deletion of an edge service.

*Nodes and webhooks.*  A removed node is inserted again by a save that was under way
(`adapters/sql/repositories.py:160`); so is a deleted webhook subscription
(`webhooks.py:246`).  The maintenance flag can be taken back by a heartbeat that
overlaps (`enrollment.py:187-195`, `n1.py:905`), and the reconciler does not look at it
although `core/entities/node.py:61` says it does.  A pass that breaks after its posts
starts its page again: an endpoint sees a smaller event id after a larger one, which
`docs/integrations/testum.md:337-339` excludes; deduplication by the maximum
(`testum.md:340`) is safe all the same.  A pass between the save of a new subscription
and `remember` (`webhooks.py:117-118`) disables it.  `delivered_at` is never set.

*Networks and addresses.*  `UpdateNetwork` saves the row it read also when nothing
changed, and a new CIDR or gateway drops pools, ranges, DHCP and DNS without a look at
the allocations (`networks.py:269-280`).  A /31 or /32 without pools raises in the
allocator.  The network and broadcast addresses can be reserved.  `UpsertSubnet` and
`AllocateIp` publish no event.  `NetworkRow.project_id` has no foreign key.

*Backup.*  The restore of `docs/deployment.md:517-521` fails on an empty database: the
bootstrap makes the administrator with a new id, the bundle's account of the same name
is refused by the constraint with an `IntegrityError` - the `ConflictError` that
`backup.py:19-20` promises looks at ids only - and what was saved before stays.
Project, maintenance and tokens are not in a bundle.

*Access.*  A revocation is taken back by a request that had read the token before it
(`service_accounts.py:294`).  A revoked bootstrap token is issued again when the
database is lost.  The audit rules (`audit_middleware.py:34`) have none of N1 to N5,
projects, webhooks and maintenance, against `docs/deployment.md:445`, which speaks of every mutating request; an event is
written after the response and its failure is only logged.  The archive of the default
settings keeps nothing (`config.py:93`, `app/container.py:1566-1570`,
`audit_archive.py:17-22`): after `audit_retention_days` a sweep deletes events that are
nowhere else.

*Policies.*  `SecurityPolicy.update` does not reset the compilation as its docstring
says (`security_policy.py:200`).  `ApplySecurityPolicy` sends nothing to any node.  A
rule of type `cidr` with an empty value, the default, is accepted
(`security_policy.py:78`) and compiles without an address match
(`policy_compiler.py:44`): it matches every source, as the model's `"blank"` does.  A
rule whose service object was deleted compiles to one that matches every port; rules
over groups or pools are skipped silently; rules of equal priority come in the order of
their random ids.

*Routers, balancers, VPN.*  Apply marks a router or balancer active that was taken
down, and admin-up marks one active that was never applied.  BGP peers, bonds, VPN keys
and the children of a balancer change without a reset of the configuration generated
from them.  `DeleteLbPool` leaves `default_pool_id` dangling.  Floating IPs have no
check for a second use of an address.

*Governance and schedules.*  Versions of snapshots are given twice by two requests, and
again after a deletion.  The global retention policy may exist twice; nothing reads
retention policies, and `QuotaService.check` has no caller.  `TickScheduler` has none
either; its save switches a paused schedule on again and brings a deleted one back.

## 6. The proofs

All with TLAPS, for every value of the constants that satisfies the named `ASSUME`s.

| theorem | says | argument |
|---|---|---|
| `ApplyLease_proofs` `LeaseTypeCorrect`, `LeaseAlwaysBacked`, `LeaseMutualExclusion`, `LiveLeaseEndsByOwner` | the lease protocol | `LeaseInv`: types, clock readings are not in the future, and a lease that has not run out is the row.  Exclusion alone is not inductive: it follows because there is one row. |
| `ApplyNetwork_proofs` `ApplyTypeCorrect` | types | directly, one lemma per group of actions |
| `ApplyUsesLease` | the apply implements `ApplyLease` | initial states map to initial states, each action to `Ask`, `Take`, `Refuse`, `Release`, `Die`, `Tick` or a stutter |
| `OneCurrentApplyAtATime` | exclusion of applies | `LeaseMutualExclusion` carried over by the refinement: the proof module of the lease is instantiated with the same mapping |
| `SuccessConverges` | an undisturbed success is a converged network | `HereInv`, on top of `JobInv`: what an execution read is what is there, because its own agent works only on the node it awaits; the edge step is followed from the first member's plan through the call to the node |
| `SuccessWasVerified` | success was seen | `JobInv`: by control point, which members have been seen to comply; plans are the differences of the views read |
| `PublishedIsSaved` | events agree with rows | `OutcomeInv`: what is saved at each control point |
| `Outbox_proofs` `CaughtUpKnowsWhatWasPublished` | "caught up" is true | `PromiseInv`: what was published when the head was read is not above it, and who has caught up stands at or behind it |
| `FeedTypeCorrect`, `FeedMissesNothing` | the subscriber misses nothing | `FeedInv` over `OutboxInv`/`SerialInv`: ids are unique, below `nextId`, and an open insert has the largest id; a watermark is an id that is visible, so what appears later lies beyond it |
| `WebhooksTypeCorrect`, `CursorIsHonest`, `DedupLosesNothing` | cursors and order | `WebhookInv`: every copy of a row (table, request, pass) has a good cursor, the page in hand is the next stretch after it |
| `DisablingIsEarned` | who is disabled failed | `EarnedInv`: every copy of a row that may yet be saved counts what its endpoint saw.  From `IdleAssumption`: no pass at work is `Idle` |
| `NodeLifecycle_proofs` `EnrollmentIsFinal` | an enrolled node keeps its agent | `StayInv`: while requests do not overlap, all copies of an enrolled row agree on the agent |
| `NodeTypeCorrect`, `OnlyRedeemersGetOnline`, `LetInMeansSpent` | enrollment | `NodeInv`: every copy of a row that will yet be saved is backed by an enrollment; `TokenInv`: a token is fresh, in one hand, in the table, or spent |
| `Agent_proofs` `OkMeansCompliant`, `RetriesAreSafe`, `StepsNeverUndo`, `WhatIsShownIsPlanned` (and `AgentTypeCorrect`) | a plan converges, in any order the agent may take, and may be sent again | `AgentInv`: the plan holds whatever still differs (`Covered`), a step that succeeded is out of the difference (`DoneIsDone`), and while nothing failed an executed step would change nothing (`Settled`).  Both rest on `EffectShrinks`: no plannable step puts anything into the difference.  The bridge of a tunnel is never missing unless its own step failed |
| `EdgeTypeCorrect`, `OkMeansServed`, `EveryLoadHeals` and, of both, `EdgeServesWhatItSays`; `StepsReachNoFurther` | what "ok" of an edge adapter means; that a step changes what is loaded for its own service only, and what is decided about forwarded packets only through the first policy | `EdgeInv`: for every backend not adrift the daemon runs what is on disk, the Corefile names the zone files, the kernel has the maps; an "ok" is what file or map say.  By `OrderKept` and `FirstChain` a step for another policy leaves the first chain where it is, and `kernel` is rendered from that order.  From `EdgeAssumption`: the ids of scopes, zones and rules differ |
| `RateLimit_proofs` `GrantsAreBounded` | the bound on grants with a clock that goes back | `Ledger`: granted, in the bucket and still to come add up to no more than the bound |

The theorems on `NothingMissed`, `CaughtUpIsCurrent`, `CursorHonest` and
`DedupByMaxIsSafe` have `SerialInserts` as hypothesis: without it readers pass over
events (`feed_gap`).  The bounds
(`MaxTime`, `MaxTroubles`, ...) are arbitrary naturals in the proofs and do not matter.

### The services

Every property that `services` checks is a theorem about `Services!Spec`, for any
deployment, any number of requests, suspended at once or not, and any rows.

| theorem | says | argument |
|---|---|---|
| `Store_proofs` `StateIsGood` | the tables stay good whatever interleaves | `GoodState`, inductive, see below |
| `Services_proofs` `RowsSound`, `DerivedStaysOwn` | `RowsAreSound`, `DerivedIsOwn` | follow from `GoodState`: what is derived is saved with what it is derived from, so a row that loads has its own.  For the compiled ruleset, `OrderedFact` (a finite set of rules has an order) and `VerdictFact` (the first statement that a packet meets is that of the first rule it meets) |
| `AllocatorStaysExact` | the allocator finds an address while there is one | `NextFact`, for all pools, ranges and allocations |
| `SeenStaysSo` | what a request saw is so when it saves, or its save is late | `SeenInv`, inductive |
| `NothingTakenTwice`, `AddressesStayIn`, `RefusedStaysThere` | `TakenOnce`, `AddressesFit`, `RefusedIsThere` | follow from `SeenInv`: until a late save nothing is taken twice (`Taken`); the last because an import inserts a network before its addresses and no other request takes a subnet away (`RestoredInOrder`) |
| `StepsArePrepared` | who will create what, and delete what | `StepInv`, inductive |
| `ShutOutStaysOut`, `AccessIsHeld`, `ArchivedBeforeDeleted`, `SchedulesRunAsTheyShould` | `RevocationHolds`, `DisabledIsFinal`, `AccessHolds`, `NothingForgotten`, `SchedulesRunAsAsked` | `RowStep`, from `StepInv`: a step leaves a row of a watched table as it is, or merges the save of a request that has seen it, or it is one of four other cases.  `DueListed` compares the cron parser with the listed times; For revocation: no step adds a suspended save that would restore a revoked token (`NobodyLetIn`).  `SurfaceKept` goes through the endpoints by permission |

Three invariants, each on top of the one before:

1. `GoodState`.  A handler checks a row before an await and saves it after; so the rows
   that suspended requests carry must be sound, too, and stay so while the tables change.
   `GoodRow` is therefore about a row alone, references and unique columns are about the
   tables (`Refs`, `Uniques`) and come from the constraints.  `MergeKeeps` says that the
   columns of two sound rows make one, so a save that updates some columns leaves a row
   that loads; `SweepRefs` that one sweep of cascades is
   enough although pools refer to balancers, `WrittenGood` and `AllWrittenGood` put writes
   together.  Then a lemma for each service (`PortsRequested` to `ImportRequested`): its
   handlers decide on `LawfulWork`.  A new handler needs a case there and nothing else.
2. `SeenInv` adds what a suspended request has seen in the tables it read - a free
   version, a key, a subnet with room, a token not revoked -: it is so as long as the
   request is not marked `overtaken`.  A request that makes several saves must not unsee
   by one what it has seen for the next; that is `AllApart`.  For an import it is
   `RestoredInOrder`: the network of an address still to be inserted is `Settled`, that
   is, has a subnet that no suspended save is about to take away.  When the import
   inserts that network it is so because whoever saves a network read it, and an id of
   the bundle that is not in the table nobody has read or drawn (`KnownOrNew`).
3. `StepInv` adds `DrawnIsOwn` - an id about to be created is in no table, bundle or
   other request, or a save would revive a token or an account - and `SweptIsArchived`.

Assumptions.  `MaxAsked` is a number (`StoreAssumption`); `None` is no id or value
(`IpamAssumption`, `AccessAssumption`, `PortsAssumption`, `PoliciesAssumption`,
`GovernanceAssumption`, `BalancingAssumption`, `AdvancedAssumption`,
`RoutingAssumption`, `SurfaceAssumption`); priorities and ids of rules, addresses and
cron fields are numbers, as the mappers and parsers make them; `DeploymentAssumption`.
Nothing is assumed of `BackupAlone`: requests of networks may overlap an import.

### What is only model-checked

All liveness (`CrashedLeaseEnds`, `EveryApplyEnds`, `SilentNodeGoesOffline`,
`DeliveredOrDisabled`, `PublishedBecomesKnown`): it is beyond the prover.  So is what a
recursive definition computes for every input by induction over it with a predicate;
where the proofs need it (`ProgressExists`, `KeptExists`, `SortedExists`) they prove that
the function exists by `NatSetInduction`, an induction over a set of numbers.  Every
invariant and action property of a passing run is a theorem.

## 7. What is not modelled

`PROJECT.json` lists every component with its status.  Left out:

- the agent's node snapshots (a file written once and read back) and the command lines
  of `ovsdb_subprocess`;
- text that is rendered (nftables, dnsmasq, zone files, FRR, HAProxy, WireGuard): the
  models keep what it is rendered from;
- gRPC, CLI, schemas, migrations, tracing, parsing and rendering of the HTTP surface:
  translation without state;
- `PgAdvisoryLockStore`, which nothing constructs; the secret stores other than the
  in-memory one;
- the in-memory repositories as code of their own: they differ from the SQL ones in
  what they do not check (foreign keys, most constraints) and in `nat` and
  `firewall_policy` above.

Inside what is modelled: bridge networks without tunnels and the fields of edge services
(`OvsDiff` has an edge service as one value); the reconciler sweep, since applies start
at any time; `DRAINING`, which no use case sets; the signatures and retries below one
POST; the page of `list_undelivered`; two saves on Postgres that interleave between
SELECT and UPDATE; the several reads of one use case, except where a module says so.
