---------------------------- MODULE ApplyNetwork ----------------------------
(***************************************************************************)
(* ApplyNetwork.execute (core/use_cases/reconcile.py): observe the member  *)
(* nodes of a network, plan, push the plans to the agents, observe again,  *)
(* record the operation.  Several executions (API calls, reconciler        *)
(* sweeps, other replicas) run at once; each is named by its operation id. *)
(*                                                                         *)
(* A step is what happens between two awaits: one repository call (its own *)
(* transaction), one lock-store call or one agent call, with the           *)
(* synchronous code after it.  The agent executes a plan step by step in   *)
(* its own time, and keeps executing it when the controller has given up   *)
(* on the HTTP call or has died.                                           *)
(*                                                                         *)
(* The tables are those of the SQL persistence, foreign keys enforced.     *)
(* UpdateNetwork and AssignNetworkToNodes are each one step here.          *)
(***************************************************************************)
EXTENDS OvsDiff, LockRow

CONSTANTS
    MemberLists,    \* node_ids lists an operator assigns
    InitialIntents, \* network rows before the first apply
    OutsideViews,   \* OVS states something else than the controller leaves
    NoView,         \* no row in observed_states, or nothing read yet
    NoCall,         \* no plan of this operation at an agent
    \* bounds
    MaxTime,        \* of the clock
    MaxTroubles     \* failed steps, calls and transactions, crashes, edits of
                    \* the intent, removed nodes, nodes changed from outside

Intents == [version : Nat \ {0},
            members : MemberLists,
            mtu     : Mtus,
            service : Services \cup {NoService}]

ASSUME ApplyAssumption ==
    /\ MemberLists \subseteq Seq(Nodes)
    /\ \A ms \in MemberLists : \A i, j \in DOMAIN ms : ms[i] = ms[j] => i = j
    /\ InitialIntents \subseteq Intents
    /\ OutsideViews \subseteq {v \in View : WellFormed(v)}
    /\ NoView \notin View
    /\ MaxTime \in Nat /\ MaxTroubles \in Nat

VARIABLES
    now, row,           \* clock and lock row
    intent, registered, \* networks and nodes tables
    observed,           \* observed_states table
    saved, published,   \* operations table and outbox, by operation
    ovs, edge,          \* the nodes: OVS, and the edge services their agent stores
    call,               \* the plan an agent is executing for an operation
    pc, asked, holder,  \* per operation: control, lock request, 409 details
    snap, status,       \*   the Network and Operation it works on
    at, views, plans,   \*   members done, views read, plans computed
    troubles,     \* bounds
    disturbed           \* history: others changed the nodes under this operation

jobVars  == <<pc, asked, holder, snap, status, at, views, plans>>
nodeVars == <<ovs, edge, call>>
dbVars   == <<intent, registered, observed, saved, published>>
vars == <<now, row, dbVars, nodeVars, jobVars, troubles, disturbed>>

Calls == [node : Nodes, steps : SUBSET Steps, ok : BOOLEAN]

Working == {"planning", "plan_saving", "running", "awaiting", "verifying",
            "verify_saving", "failing", "publishing", "releasing"}
Control == Working \cup {"idle", "read", "asking", "conflict", "rejected", "done", "crashed"}

\* core/entities/operation.py, the part apply uses; "none" is before accept.
Statuses == {"none", "accepted", "planning", "running", "verifying", "succeeded", "failed"}

TypeOK ==
    /\ now \in Nat /\ row \in LockRows
    /\ intent \in Intents /\ registered \subseteq Nodes
    /\ observed \in [Nodes -> View \cup {NoView}]
    /\ saved \in [Owners -> {"none", "succeeded", "failed"}]
    /\ published \in [Owners -> {"none", "applied", "apply_failed"}]
    /\ ovs \in [Nodes -> View] /\ edge \in [Nodes -> Services \cup {NoService}]
    /\ call \in [Owners -> Calls \cup {NoCall}]
    /\ pc \in [Owners -> Control] /\ asked \in [Owners -> Nat]
    /\ holder \in [Owners -> Owners \cup {NoOwner}]
    /\ snap \in [Owners -> Intents] /\ status \in [Owners -> Statuses]
    /\ at \in [Owners -> Nat]
    /\ views \in [Owners -> [Nodes -> View \cup {NoView}]]
    /\ plans \in [Owners -> [Nodes -> SUBSET Steps]]
    /\ troubles \in 0..MaxTroubles
    /\ disturbed \in [Owners -> BOOLEAN]

NoPlans == [n \in Nodes |-> {}]

Init ==
    /\ now = 0 /\ row = FreeRow
    /\ intent \in InitialIntents /\ registered = Nodes
    /\ observed = [n \in Nodes |-> NoView]
    /\ saved = [o \in Owners |-> "none"] /\ published = [o \in Owners |-> "none"]
    /\ ovs = [n \in Nodes |-> EmptyView] /\ edge = [n \in Nodes |-> NoService]
    /\ call = [o \in Owners |-> NoCall]
    /\ pc = [o \in Owners |-> "idle"] /\ asked = [o \in Owners |-> 0]
    /\ holder = [o \in Owners |-> NoOwner]
    /\ snap = [o \in Owners |-> intent] /\ status = [o \in Owners |-> "none"]
    /\ at = [o \in Owners |-> 0]
    /\ views = [o \in Owners |-> [n \in Nodes |-> NoView]]
    /\ plans = [o \in Owners |-> NoPlans]
    /\ troubles = 0
    /\ disturbed = [o \in Owners |-> FALSE]

-----------------------------------------------------------------------------
(* Helpers *)

Goto(o, label) == pc' = [pc EXCEPT ![o] = label]
SetStatus(o, s) == status' = [status EXCEPT ![o] = s]
Trouble == troubles < MaxTroubles /\ troubles' = troubles + 1

SnapMembers(o) == Members(snap[o])
Member(o, i) == snap[o].members[i]

\* The loops over plans visit, in member order, the nodes that have a plan.
NextPlanned(o, i) ==
    /\ i \in (at[o] + 1)..Len(snap[o].members)
    /\ plans[o][Member(o, i)] # {}
    /\ \A j \in (at[o] + 1)..(i - 1) : plans[o][Member(o, j)] = {}
NoPlanLeft(o) ==
    \A j \in (at[o] + 1)..Len(snap[o].members) : plans[o][Member(o, j)] = {}

\* Mutant: a node whose OVS state complies gets no plan.
PlanForSkipsCompliant(o, n, v) ==
    IF IsInCompliance(snap[o], n, SnapMembers(o), v) THEN {}
    ELSE DiffForNode(snap[o], n, SnapMembers(o), v)

\* Every member was read, so every member is a peer with a known address.
PlanFor(o, n, v) == DiffForNode(snap[o], n, SnapMembers(o), v)

\* except ...: _fail, then operations.save is next.
Fail(o) == Goto(o, "failing") /\ SetStatus(o, "failed")

\* A node of a working operation changed, and not by that operation's doing.
Disturb(n, by) ==
    disturbed' = [o \in Owners |->
        disturbed[o] \/ (o # by /\ pc[o] \in Working /\ n \in SnapMembers(o))]

-----------------------------------------------------------------------------
(* Getting the lock *)

\* network = await networks.get(network_id)
ReadNetwork(o) ==
    /\ pc[o] = "idle"
    /\ snap' = [snap EXCEPT ![o] = intent]
    /\ Goto(o, "read")
    /\ UNCHANGED <<now, row, dbVars, nodeVars, asked, holder, status, at, views, plans,
                   troubles, disturbed>>

\* try_lock reads the clock, then waits for the store.
AskLock(o) ==
    /\ pc[o] = "read"
    /\ now + TTL <= MaxTime
    /\ asked' = [asked EXCEPT ![o] = now]
    /\ Goto(o, "asking")
    /\ UNCHANGED <<now, row, dbVars, nodeVars, holder, snap, status, at, views, plans,
                   troubles, disturbed>>

\* Acquired: accept the operation, in memory only, and enter _plan.  A network
\* without nodes has nothing to plan, run or verify.
TakeLock(o) ==
    /\ pc[o] = "asking"
    /\ Acquires(row, o, asked[o])
    /\ row' = AfterTryLock(row, o, asked[o])
    /\ IF snap[o].members = <<>>
       THEN Goto(o, "verifying") /\ SetStatus(o, "verifying")
       ELSE Goto(o, "planning") /\ SetStatus(o, "planning")
    /\ UNCHANGED <<now, dbVars, nodeVars, asked, holder, snap, at, views, plans,
                   troubles, disturbed>>

RefuseLock(o) ==
    /\ pc[o] = "asking"
    /\ ~Acquires(row, o, asked[o])
    /\ Goto(o, "conflict")
    /\ UNCHANGED <<now, row, dbVars, nodeVars, asked, holder, snap, status, at, views,
                   plans, troubles, disturbed>>

\* raise _ApplyAlreadyRunning(holder_operation_id = await current_owner(...))
ReportConflict(o) ==
    /\ pc[o] = "conflict"
    /\ holder' = [holder EXCEPT ![o] = CurrentOwner(row, now)]
    /\ Goto(o, "rejected")
    /\ UNCHANGED <<now, row, dbVars, nodeVars, asked, snap, status, at, views, plans,
                   troubles, disturbed>>

-----------------------------------------------------------------------------
(* _plan *)

\* nodes.get and agent.get_state of the next member.
Observe(o) ==
    /\ pc[o] = "planning"
    /\ LET n == Member(o, at[o] + 1) IN
         \/ /\ n \in registered
            /\ views' = [views EXCEPT ![o][n] = ovs[n]]
            /\ Goto(o, "plan_saving")
            /\ UNCHANGED status
         \/ /\ n \notin registered      \* "network references missing node"
            /\ Fail(o)
            /\ UNCHANGED views
    /\ UNCHANGED <<now, row, dbVars, nodeVars, asked, holder, snap, at, plans,
                   troubles, disturbed>>

\* observed_states.save; the foreign key refuses a node deleted meanwhile.
\* After the last member the planner runs and _run is entered.
SaveObserved(o) ==
    /\ pc[o] = "plan_saving"
    /\ LET n == Member(o, at[o] + 1)
           last == at[o] + 1 = Len(snap[o].members)
       IN \/ /\ n \in registered
             /\ observed' = [observed EXCEPT ![n] = views[o][n]]
             /\ at' = [at EXCEPT ![o] = IF last THEN 0 ELSE @ + 1]
             /\ IF last
                THEN /\ plans' = [plans EXCEPT ![o] =
                            [m \in Nodes |-> IF m \in SnapMembers(o)
                                             THEN PlanFor(o, m, views[o][m]) ELSE {}]]
                     /\ Goto(o, "running") /\ SetStatus(o, "running")
                ELSE Goto(o, "planning") /\ UNCHANGED <<plans, status>>
          \/ /\ n \notin registered
             /\ Fail(o)
             /\ UNCHANGED <<observed, at, plans>>
    /\ UNCHANGED <<now, row, intent, registered, saved, published, nodeVars, asked, holder,
                   snap, views, troubles, disturbed>>

-----------------------------------------------------------------------------
(* _run, and the agents *)

SendPlan(o) ==
    /\ pc[o] = "running"
    /\ \E i \in 1..Len(snap[o].members) :
         /\ NextPlanned(o, i)
         /\ call' = [call EXCEPT ![o] = [node  |-> Member(o, i),
                                         steps |-> plans[o][Member(o, i)],
                                         ok    |-> TRUE]]
         /\ at' = [at EXCEPT ![o] = i]
    /\ Goto(o, "awaiting")
    /\ UNCHANGED <<now, row, dbVars, ovs, edge, asked, holder, snap, status, views, plans,
                   troubles, disturbed>>

\* The agent executes one step of the plan it was sent.  A failed step marks
\* the result, may have taken effect all the same (a command killed at its
\* timeout, a config written and not reloaded), and the agent goes on.
AgentStep(o) ==
    /\ call[o] # NoCall
    /\ LET n == call[o].node IN
       \E s \in call[o].steps, ok, effect \in BOOLEAN :
         /\ MayRunFirst(s, call[o].steps)
         /\ IF StepImpossible(s, ovs[n]) THEN ~ok /\ ~effect ELSE ok => effect
         /\ IF ok \/ StepImpossible(s, ovs[n]) THEN UNCHANGED troubles ELSE Trouble
         /\ call' = [call EXCEPT ![o].steps = @ \ {s}, ![o].ok = @ /\ ok]
         /\ IF effect
            THEN /\ ovs' = [ovs EXCEPT ![n] = AfterStep(s, @)]
                 /\ edge' = [edge EXCEPT ![n] = EdgeAfterStep(s, @)]
                 /\ Disturb(n, o)
            ELSE UNCHANGED <<ovs, edge, disturbed>>
    /\ UNCHANGED <<now, row, dbVars, jobVars>>

\* The agent process dies with the rest of the plan.
AgentDies(o) ==
    /\ call[o] # NoCall
    /\ Trouble
    /\ call' = [call EXCEPT ![o] = NoCall]
    /\ UNCHANGED <<now, row, dbVars, ovs, edge, jobVars, disturbed>>

\* Mutant: the result's ok flag is not looked at.
AgentReplyUnchecked(o) ==
    /\ pc[o] = "awaiting"
    /\ call[o] # NoCall
    /\ call[o].steps = {}
    /\ Goto(o, "running")
    /\ call' = [call EXCEPT ![o] = NoCall]
    /\ UNCHANGED <<now, row, dbVars, ovs, edge, asked, holder, snap, status, at, views, plans,
                   troubles, disturbed>>

\* The PlanResult arrives.
AgentReply(o) ==
    /\ pc[o] = "awaiting"
    /\ call[o] # NoCall
    /\ call[o].steps = {}
    /\ IF call[o].ok THEN Goto(o, "running") /\ UNCHANGED status ELSE Fail(o)
    /\ call' = [call EXCEPT ![o] = NoCall]
    /\ UNCHANGED <<now, row, dbVars, ovs, edge, asked, holder, snap, at, views, plans,
                   troubles, disturbed>>

\* Mutant: no timeout, only a connection that breaks is noticed.
CallLostNoTimeout(o) ==
    /\ pc[o] = "awaiting"
    /\ call[o] # NoCall
    /\ Trouble
    /\ Fail(o)
    /\ UNCHANGED <<now, row, dbVars, nodeVars, asked, holder, snap, at, views, plans,
                   disturbed>>

\* AgentTransportError: the connection broke or the HTTP timeout passed.  What
\* of the plan reached the agent stays there: it does not learn of the timeout.
CallLost(o) ==
    /\ pc[o] = "awaiting"
    /\ IF call[o] = NoCall THEN UNCHANGED troubles ELSE Trouble
    /\ call' \in {call, [call EXCEPT ![o] = NoCall]}
    /\ Fail(o)
    /\ UNCHANGED <<now, row, dbVars, ovs, edge, asked, holder, snap, at, views, plans,
                   disturbed>>

-----------------------------------------------------------------------------
(* _verify *)

\* All plans are pushed: nodes.get of every member again, in one step here where
\* the code awaits one after the other (reconcile.py:313-319).
StartVerify(o) ==
    /\ pc[o] = "running"
    /\ NoPlanLeft(o)
    /\ IF SnapMembers(o) \subseteq registered
       THEN /\ Goto(o, "verifying") /\ SetStatus(o, "verifying")
            /\ at' = [at EXCEPT ![o] = 0]
       ELSE Fail(o) /\ UNCHANGED at
    /\ UNCHANGED <<now, row, dbVars, nodeVars, asked, holder, snap, views, plans,
                   troubles, disturbed>>

\* agent.get_state of the next node that had a plan.
VerifyRead(o) ==
    /\ pc[o] = "verifying"
    /\ \E i \in 1..Len(snap[o].members) :
         /\ NextPlanned(o, i)
         /\ views' = [views EXCEPT ![o][Member(o, i)] = ovs[Member(o, i)]]
         /\ at' = [at EXCEPT ![o] = i]
    /\ Goto(o, "verify_saving")
    /\ UNCHANGED <<now, row, dbVars, nodeVars, asked, holder, snap, status, plans,
                   troubles, disturbed>>

\* Mutant: the state read back is cached but not compared with the intent.
VerifySaveUnchecked(o) ==
    /\ pc[o] = "verify_saving"
    /\ LET n == Member(o, at[o]) IN
       /\ IF n \in registered
          THEN observed' = [observed EXCEPT ![n] = views[o][n]] /\ Goto(o, "verifying")
                   /\ UNCHANGED status
          ELSE Fail(o) /\ UNCHANGED observed
    /\ UNCHANGED <<now, row, intent, registered, saved, published, nodeVars, asked, holder,
                   snap, at, views, plans, troubles, disturbed>>

\* observed_states.save, then the compliance check on what was read.
VerifySave(o) ==
    /\ pc[o] = "verify_saving"
    /\ LET n == Member(o, at[o]) IN
       /\ IF n \in registered
          THEN observed' = [observed EXCEPT ![n] = views[o][n]]
          ELSE UNCHANGED observed
       /\ IF /\ n \in registered
             /\ IsInCompliance(snap[o], n, SnapMembers(o), views[o][n])
          THEN Goto(o, "verifying") /\ UNCHANGED status
          ELSE Fail(o)
    /\ UNCHANGED <<now, row, intent, registered, saved, published, nodeVars, asked, holder,
                   snap, at, views, plans, troubles, disturbed>>

-----------------------------------------------------------------------------
(* Recording the result *)

\* Mutant: a failing save is swallowed and the event goes out all the same.
RecordSwallowed(o, result) ==
    /\ SetStatus(o, result)
    /\ \/ /\ saved' = [saved EXCEPT ![o] = result]
          /\ UNCHANGED troubles
       \/ Trouble /\ UNCHANGED saved
    /\ Goto(o, "publishing")
    /\ UNCHANGED <<now, row, intent, registered, observed, published, nodeVars, asked, holder,
                   snap, at, views, plans, disturbed>>

\* operations.save of the finished operation: the row is first written here.
\* A broken save may or may not have reached the database; then nothing is
\* published.
Record(o, result) ==
    /\ SetStatus(o, result)
    /\ \/ /\ saved' = [saved EXCEPT ![o] = result]
          /\ Goto(o, "publishing")
          /\ UNCHANGED troubles
       \/ /\ Trouble
          /\ saved' \in {saved, [saved EXCEPT ![o] = result]}
          /\ Goto(o, "releasing")
    /\ UNCHANGED <<now, row, intent, registered, observed, published, nodeVars, asked, holder,
                   snap, at, views, plans, disturbed>>

\* else: transition_to(SUCCEEDED); save
SaveSuccess(o) == pc[o] = "verifying" /\ NoPlanLeft(o) /\ Record(o, "succeeded")
SaveFailure(o) == pc[o] = "failing" /\ Record(o, "failed")

\* Mutant: the event type is made from the operation's status.
PublishStatus(o) ==
    /\ pc[o] = "publishing"
    /\ published' = [published EXCEPT ![o] = status[o]]
    /\ Goto(o, "releasing")
    /\ UNCHANGED <<now, row, intent, registered, observed, saved, nodeVars, asked, holder,
                   snap, status, at, views, plans, troubles, disturbed>>

\* _publish_apply_result: one outbox row, in its own transaction.
Publish(o) ==
    /\ pc[o] = "publishing"
    /\ \/ /\ published' = [published EXCEPT ![o] =
                IF status[o] = "succeeded" THEN "applied" ELSE "apply_failed"]
          /\ UNCHANGED troubles
       \/ Trouble /\ UNCHANGED published
    /\ Goto(o, "releasing")
    /\ UNCHANGED <<now, row, intent, registered, observed, saved, nodeVars, asked, holder,
                   snap, status, at, views, plans, disturbed>>

\* Mutant: release without naming the owner.
ReleaseLockBlind(o) ==
    /\ pc[o] = "releasing"
    /\ row' = FreeRow
    /\ Goto(o, "done")
    /\ UNCHANGED <<now, dbVars, nodeVars, asked, holder, snap, status, at, views, plans,
                   troubles, disturbed>>

\* finally: await locks.release(...)
ReleaseLock(o) ==
    /\ pc[o] = "releasing"
    /\ row' = AfterRelease(row, o)
    /\ Goto(o, "done")
    /\ UNCHANGED <<now, dbVars, nodeVars, asked, holder, snap, status, at, views, plans,
                   troubles, disturbed>>

\* A repository call or get_state raises inside the inner try: both except
\* branches record a failure.
StepRaises(o) ==
    /\ pc[o] \in {"planning", "plan_saving", "running", "verifying", "verify_saving"}
    /\ ~(pc[o] = "verifying" /\ NoPlanLeft(o))
    /\ Trouble
    /\ Fail(o)
    /\ UNCHANGED <<now, row, dbVars, nodeVars, asked, holder, snap, at, views, plans,
                   disturbed>>

\* The replica dies, or shutdown cancels the task: no save, no release.
Crash(o) ==
    /\ pc[o] \in Working \cup {"read", "asking"}
    /\ Trouble
    /\ Goto(o, "crashed")
    /\ UNCHANGED <<now, row, dbVars, nodeVars, asked, holder, snap, status, at, views,
                   plans, disturbed>>

-----------------------------------------------------------------------------
(* The rest of the system *)

\* UpdateNetwork: a NAT or firewall policy can be set or replaced, not cleared; a
\* new CIDR or gateway makes a subnet that has neither DHCP nor DNS.
EditIntent ==
    /\ Trouble
    /\ \E m \in Mtus, s \in Services \cup {intent.service, NoService} :
         /\ <<m, s>> # <<intent.mtu, intent.service>>
         /\ intent' = [intent EXCEPT !.mtu = m, !.service = s, !.version = @ + 1]
    /\ UNCHANGED <<now, row, registered, observed, saved, published, nodeVars, jobVars,
                   disturbed>>

\* AssignNetworkToNodes: every node must exist.
AssignNodes ==
    /\ Trouble
    /\ \E ms \in MemberLists \ {intent.members} :
         /\ \A i \in DOMAIN ms : ms[i] \in registered
         /\ intent' = [intent EXCEPT !.members = ms, !.version = @ + 1]
    /\ UNCHANGED <<now, row, registered, observed, saved, published, nodeVars, jobVars,
                   disturbed>>

\* RemoveNode: the observed state cascades; networks that list the node stay.
RemoveNode(n) ==
    /\ Trouble
    /\ n \in registered
    /\ registered' = registered \ {n}
    /\ observed' = [observed EXCEPT ![n] = NoView]
    /\ UNCHANGED <<now, row, intent, saved, published, nodeVars, jobVars,
                   disturbed>>

\* A reboot, an operator at the node, a snapshot restored outside the lock.
Drift(n) ==
    /\ Trouble
    /\ \E v \in OutsideViews \ {ovs[n]} : ovs' = [ovs EXCEPT ![n] = v]
    /\ Disturb(n, NoOwner)
    /\ UNCHANGED <<now, row, dbVars, edge, call, jobVars>>

Tick ==
    /\ now < MaxTime
    /\ now' = now + 1
    /\ UNCHANGED <<row, dbVars, nodeVars, jobVars, troubles, disturbed>>

\* The steps the event loop takes on its own once a request is in.
Proceed(o) ==
    \/ TakeLock(o) \/ RefuseLock(o) \/ ReportConflict(o)
    \/ Observe(o) \/ SaveObserved(o)
    \/ SendPlan(o) \/ AgentReply(o) \/ CallLost(o)
    \/ StartVerify(o) \/ VerifyRead(o) \/ VerifySave(o)
    \/ SaveSuccess(o) \/ SaveFailure(o) \/ Publish(o) \/ ReleaseLock(o)

Next ==
    \/ \E o \in Owners : ReadNetwork(o) \/ AskLock(o) \/ Proceed(o) \/ StepRaises(o) \/ Crash(o)
    \/ \E o \in Owners : AgentStep(o) \/ AgentDies(o)
    \/ EditIntent \/ AssignNodes \/ Tick
    \/ \E n \in Nodes : RemoveNode(n) \/ Drift(n)

Spec == Init /\ [][Next]_vars

\* The event loop runs every coroutine that can go on, an agent works through
\* the plan it has, and time passes.
FairSpec ==
    /\ Spec
    /\ WF_vars(Tick)
    /\ \A o \in Owners : WF_vars(Proceed(o)) /\ WF_vars(AgentStep(o))

-----------------------------------------------------------------------------
(* Properties *)

Complies(net, n, v) == v # NoView /\ IsInCompliance(net, n, Members(net), v)

\* An operation ends SUCCEEDED only if it saw every member comply with the
\* intent it works on: members without a plan when it planned, the others when
\* it verified (planner.py:64, reconcile.py:327).
SucceededWasVerified ==
    \A o \in Owners : status[o] = "succeeded" =>
        \A n \in SnapMembers(o) : Complies(snap[o], n, views[o][n])

\* If nothing but the operation's own plans touched its nodes since it got the
\* lock, its success means the nodes are as the intent says at that moment,
\* the edge services included, which no verification reads.
UndisturbedSuccessConverged ==
    \A o \in Owners :
        status[o] = "succeeded" /\ pc[o] \in Working /\ ~disturbed[o] =>
            \A n \in SnapMembers(o) :
                /\ Complies(snap[o], n, ovs[n])
                /\ IsEdgeNode(snap[o], n) /\ snap[o].service # NoService
                      => edge[n] = snap[o].service

\* A consumer of the outbox finds the operation it is told about, with the
\* outcome it is told: the event follows the committed row (reconcile.py:164,
\* 183), whatever save or publish failed.
PublishedOutcomeIsSaved ==
    \A o \in Owners :
        /\ published[o] = "applied" => saved[o] = "succeeded"
        /\ published[o] = "apply_failed" => saved[o] = "failed"

\* What the lock store sees of an operation.
PhaseAt(label) ==
    CASE label \in {"idle", "read"} -> "idle"
      [] label \in {"conflict", "rejected"} -> "refused"
      [] label \in Working -> "holding"
      [] OTHER -> label
LeasePhase == [o \in Owners |-> PhaseAt(pc[o])]

Lease == INSTANCE ApplyLease WITH phase <- LeasePhase

\* The apply uses the lock the way ApplyLease says: every path through execute,
\* errors and early returns included, asks once and releases once, after its
\* last write (reconcile.py:138-189).
UsesLease == Lease!LeaseSpec

\* At most one apply of the network works under a lease that has not run out.
OneCurrentApply == Lease!LeaseExclusive

\* Every apply that reached the lock store comes to an end, through lost
\* calls, dead agents and failing transactions, or its process died.
EveryApplyEnds ==
    \A o \in Owners : pc[o] = "asking" ~> pc[o] \in {"done", "rejected", "crashed"}

\* "ApplyNetwork на одной и той же сети не должен крутиться параллельно ...
\* двойной push в агент" (ports/locks.py:3): no node executes the plans of two
\* applies at once.
NoDoublePush ==
    \A o, p \in Owners :
        /\ call[o] # NoCall /\ call[o].steps # {}
        /\ call[p] # NoCall /\ call[p].steps # {}
        /\ call[o].node = call[p].node
        => o = p

=============================================================================
