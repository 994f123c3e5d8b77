------------------------------ MODULE AgentPlan ------------------------------
(***************************************************************************)
(* One node's agent executing plans (netos_agent/core/use_cases/           *)
(* apply_plan.py) computed by the diff engine, with everything the two     *)
(* functions decide taken over all observations, intents and roles of the  *)
(* node: a plan is computed from the state observed, executed step by step *)
(* with steps that may fail, and then sent again.  The planner only plans  *)
(* members; a node outside the network is the diff's cleanup branch.       *)
(***************************************************************************)
EXTENDS OvsDiff

CONSTANTS
    Nets,           \* intents: records with members, mtu and service
    MaxFailures     \* bound on failed steps

ASSUME NetsAssumption ==
    /\ \A net \in Nets : /\ net.members \in Seq(Nodes)
                         /\ \A i, j \in DOMAIN net.members : net.members[i] = net.members[j] => i = j
                         /\ net.mtu \in Mtus
                         /\ net.service \in Services \cup {NoService}
    /\ MaxFailures \in Nat

VARIABLES
    net, node,      \* what is planned, for which node
    view, edge,     \* the node
    plan, todo,     \* the steps received, the steps not executed yet
    result,         \* PlanStepResult of each executed step
    round,          \* which delivery of the plan this is
    failures        \* bound

planVars == <<net, node, view, edge, plan, todo, result, round, failures>>

Results == {"applied", "noop", "failed"}

Init ==
    /\ net \in Nets /\ node \in Nodes
    /\ view \in {v \in View : WellFormed(v)}
    /\ edge \in Services \cup {NoService}
    /\ plan = DiffForNode(net, node, Members(net), view)
    /\ todo = plan /\ result = <<>> /\ round = 1 /\ failures = 0

\* ensure_*, delete_* and apply return whether they changed something; an
\* AgentError, with or without effect, becomes a failed result and the loop
\* goes on.
ExecuteStep ==
    /\ \E s \in todo, ok, effect \in BOOLEAN :
         /\ MayRunFirst(s, todo)
         /\ todo' = todo \ {s}
         /\ IF StepImpossible(s, view) THEN ~ok /\ ~effect ELSE ok => effect
         /\ IF ok \/ StepImpossible(s, view)
            THEN UNCHANGED failures
            ELSE failures < MaxFailures /\ failures' = failures + 1
         /\ IF effect
            THEN view' = AfterStep(s, view) /\ edge' = EdgeAfterStep(s, edge)
            ELSE UNCHANGED <<view, edge>>
         /\ result' = Append(result,
               CASE ~ok -> "failed"
                 [] ok /\ <<view', edge'>> = <<view, edge>> -> "noop"
                 [] ok /\ <<view', edge'>> # <<view, edge>> -> "applied")
    /\ UNCHANGED <<net, node, plan, round>>

\* The same plan again: a retry, or a duplicate of the request.
Redeliver ==
    /\ todo = {} /\ round = 1
    /\ todo' = plan /\ result' = <<>> /\ round' = 2
    /\ UNCHANGED <<net, node, view, edge, plan, failures>>

Next == ExecuteStep \/ Redeliver

Spec == Init /\ [][Next]_planVars

-----------------------------------------------------------------------------
(* Properties *)

Ok == \A i \in DOMAIN result : result[i] # "failed"

\* A plan whose steps all succeeded leaves nothing to do: the verification of
\* an undisturbed node cannot fail, and the next plan has only edge steps
\* (diff_engine.py:110-113, apply_plan.py:61-89).
OkPlanConverges ==
    todo = {} /\ Ok => IsInCompliance(net, node, Members(net), view)

\* Every executed structural step removes itself from the difference and puts
\* nothing new into it: no step undoes another, in any order the agent may take.
StepsOnlyShrinkDiff ==
    [][round' = round =>
         DiffForNode(net, node, Members(net), view') \subseteq
             DiffForNode(net, node, Members(net), view)]_planVars

\* Delivering a plan that had succeeded once more changes nothing
\* (apply_plan.py: idempotent steps), and after a partial failure the retry
\* alone brings the node to the plan's goal.
RetryIsSafe ==
    round = 2 /\ todo = {} /\ Ok =>
        /\ IsInCompliance(net, node, Members(net), view)
        /\ failures = 0 => \A i \in DOMAIN result : result[i] = "noop"

\* The drift report and the verification judge alike: a node that was observed is
\* reported iff an apply's verification would fail on it, though each keeps its
\* own list of the steps that count (topology.py:221, diff_engine.py:309).
DriftIsNonCompliance ==
    DriftOf(net, node, Members(net), view) # {} <=> ~ IsInCompliance(net, node, Members(net), view)

\* The tunnels the topology draws are those the planner asks of a bare node, and
\* the node's end of each is there once a plan has succeeded (topology.py:128).
DrawnIsPlanned ==
    /\ \A p \in Nodes : {node, p} \in TunnelEdges(net) <=>
         node # p /\ node \in Members(net) /\ TunnelStep(p, net.mtu) \in DiffForNode(net, node, Members(net), EmptyView)
    /\ todo = {} /\ Ok => \A p \in Nodes : {node, p} \in TunnelEdges(net) => view.ports[p] = net.mtu

\* What the controller shows of a node - drift, tunnels - is what a plan would
\* change and what it would build.
ShownIsPlanned == DriftIsNonCompliance /\ DrawnIsPlanned

=============================================================================
