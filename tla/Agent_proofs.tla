--------------------------- MODULE Agent_proofs ---------------------------
(***************************************************************************)
(* One node's agent, for any nodes, intents and services: what executing a *)
(* plan leaves of the node's OVS state (AgentPlan), and what an answer     *)
(* "ok" of its edge adapters means (EdgeServices).                         *)
(*                                                                         *)
(* A plan holds whatever still differs, through all its steps and retries  *)
(* (Covered), and a step that succeeded is out of the difference for good  *)
(* (DoneIsDone): both because no step puts anything into the difference    *)
(* (EffectShrinks).  That a second delivery changes nothing needs more:    *)
(* while nothing fails, an executed step is Settled, which is to say that  *)
(* executing it again leaves the node as it is.                            *)
(*                                                                         *)
(* None of the properties of the edge services is inductive.  They rest on *)
(* what the daemons run agreeing with disk (Dnsmasq, Coredns) and the      *)
(* kernel with the agent's maps (Nft) for every backend that is not        *)
(* adrift, and on Remembered: an "ok" is at least what disk or map say.    *)
(***************************************************************************)
EXTENDS AgentPlan, EdgeServices, TLAPS, SequenceTheorems

(* The difference of a view to what is planned. *)
Diff(w, n, v) == DiffForNode(w, n, Members(w), v)

(* Every step the planner may ask of node n. *)
Plannable(w, n) ==
    IF n \in Members(w)
    THEN {BridgeStep, DeleteStrayStep}
             \cup {TunnelStep(p, w.mtu) : p \in Members(w) \ {n}} \cup EdgeSteps(w, n)
    ELSE {DeleteBridgeStep, DeleteStrayStep}

PlanTypeOK ==
    /\ net \in Nets /\ node \in Nodes
    /\ view \in View /\ WellFormed(view)
    /\ plan \subseteq Plannable(net, node) /\ todo \subseteq plan
    /\ result \in Seq(Results) /\ round \in {1, 2} /\ failures \in Nat

Covered == Diff(net, node, view) \subseteq plan

(* A bridge nobody claimed is not deleted. *)
OursToDelete == DeleteBridgeStep \in plan => view.bridge # "foreign"

DoneIsDone == Ok => \A s \in plan \ todo : IsEdgeStep(s) \/ s \notin Diff(net, node, view)

Settled(s) == IF IsEdgeStep(s) THEN edge = s.service ELSE s \notin Diff(net, node, view)

FirstSettles == failures = 0 /\ round = 1 => \A s \in plan \ todo : Settled(s)

SecondIsQuiet ==
    failures = 0 /\ round = 2 =>
        /\ \A s \in plan : Settled(s)
        /\ \A i \in DOMAIN result : result[i] \in {"noop", "failed"}

AgentInv ==
    /\ PlanTypeOK /\ Covered /\ OursToDelete
    /\ DoneIsDone /\ FirstSettles /\ SecondIsQuiet

-----------------------------------------------------------------------------
(* Plans *)

(* What is in the difference, by kind of step. *)
LEMMA DiffSteps ==
    ASSUME NEW w \in Nets, NEW n \in Nodes, NEW v \in View, NEW s
    PROVE  s \in Diff(w, n, v) <=>
             IF n \in Members(w)
             THEN \/ s = BridgeStep /\ v.bridge # "ours"
                  \/ s = DeleteStrayStep /\ v.stray
                  \/ \E p \in Members(w) \ {n} : v.ports[p] # w.mtu /\ s = TunnelStep(p, w.mtu)
                  \/ s \in EdgeSteps(w, n)
             ELSE \/ s = DeleteBridgeStep /\ v.bridge \in {"ours", "altered"}
                  \/ s = DeleteStrayStep /\ v.stray
BY DEF Diff, DiffForNode, StructuralSteps, CleanupSteps

(* Kinds of step differ in what they do, and a tunnel in its peer. *)
LEMMA StepKinds ==
    /\ BridgeStep.do = "ensure_bridge" /\ DeleteStrayStep.do = "delete_stray_bridge"
    /\ DeleteBridgeStep.do = "delete_bridge"
    /\ \A p, m : /\ TunnelStep(p, m).do = "ensure_vxlan_port"
                 /\ TunnelStep(p, m).peer = p /\ TunnelStep(p, m).mtu = m
    /\ \A e : EdgeStep(e).do = "ensure_edge_services" /\ EdgeStep(e).service = e
BY DEF BridgeStep, DeleteStrayStep, DeleteBridgeStep, TunnelStep, EdgeStep

(* A network asks for the edge services of one setting. *)
LEMMA EdgeKinds ==
    ASSUME NEW w, NEW n, NEW s \in EdgeSteps(w, n)
    PROVE  s = EdgeStep(w.service) /\ s.do = "ensure_edge_services" /\ s.service = w.service
BY DEF EdgeSteps, EdgeStep

(* The difference is plannable. *)
LEMMA DiffPlannable ==
    ASSUME NEW w \in Nets, NEW n \in Nodes, NEW v \in View
    PROVE  Diff(w, n, v) \subseteq Plannable(w, n)
BY DiffSteps DEF Plannable

(* A network's members are nodes, its MTU one an operator may ask for. *)
LEMMA NetTypes ==
    ASSUME NEW w \in Nets
    PROVE  Members(w) \subseteq Nodes /\ w.mtu \in Mtus
BY NetsAssumption DEF Members

(* AfterStep as a record: bridges, *)
LEMMA BridgeEffect ==
    ASSUME NEW v \in View
    PROVE  /\ AfterStep(BridgeStep, v) = [bridge |-> "ours", ports |-> v.ports, stray |-> v.stray]
           /\ AfterStep(DeleteStrayStep, v) = [bridge |-> v.bridge, ports |-> v.ports, stray |-> FALSE]
           /\ AfterStep(DeleteBridgeStep, v) =
                [bridge |-> "absent", ports |-> [p \in Nodes |-> NoPort], stray |-> v.stray]
<1>v. v = [bridge |-> v.bridge, ports |-> v.ports, stray |-> v.stray]
  BY DEF View
<1> QED
  BY <1>v, StepKinds DEF AfterStep, EmptyView

(* tunnels, *)
LEMMA TunnelEffect ==
    ASSUME NEW v \in View, NEW p, NEW m
    PROVE  AfterStep(TunnelStep(p, m), v) =
             IF v.bridge = "absent" THEN v
             ELSE [bridge |-> v.bridge, ports |-> [v.ports EXCEPT ![p] = m], stray |-> v.stray]
<1>v. v = [bridge |-> v.bridge, ports |-> v.ports, stray |-> v.stray]
  BY DEF View
<1>1. v.bridge # "absent" => AfterStep(TunnelStep(p, m), v) = [v EXCEPT !.ports[p] = m]
  BY StepKinds DEF AfterStep
<1>2. v.bridge = "absent" => AfterStep(TunnelStep(p, m), v) = v
  BY StepKinds DEF AfterStep
<1> QED
  BY <1>1, <1>2, <1>v

(* and edge services. *)
LEMMA EdgeEffect ==
    ASSUME NEW w, NEW n, NEW v, NEW s \in EdgeSteps(w, n)
    PROVE  AfterStep(s, v) = v
BY EdgeKinds DEF AfterStep

(* What AfterStep leaves is a state OVS can be in. *)
LEMMA AfterStepType ==
    ASSUME NEW w \in Nets, NEW n \in Nodes, NEW v \in View, WellFormed(v), NEW s \in Plannable(w, n)
    PROVE  AfterStep(s, v) \in View /\ WellFormed(AfterStep(s, v))
<1>v. /\ v.bridge \in Bridges /\ v.ports \in [Nodes -> Mtus \cup {NoPort, AlteredPort}]
      /\ v.stray \in BOOLEAN
  BY DEF View
<1>1. CASE s \in {BridgeStep, DeleteStrayStep, DeleteBridgeStep}
  <2>1. s = BridgeStep => AfterStep(s, v) \in View /\ WellFormed(AfterStep(s, v))
    BY <1>v, BridgeEffect DEF View, Bridges, WellFormed
  <2>2. s = DeleteStrayStep => AfterStep(s, v) \in View /\ WellFormed(AfterStep(s, v))
    <3> DEFINE u == [bridge |-> v.bridge, ports |-> v.ports, stray |-> FALSE]
    <3>1. u \in View /\ u.bridge = v.bridge /\ u.ports = v.ports
      BY <1>v DEF View
    <3>2. WellFormed(u)
      BY <3>1 DEF WellFormed
    <3> QED
      BY <3>1, <3>2, BridgeEffect
  <2>3. s = DeleteBridgeStep => AfterStep(s, v) \in View /\ WellFormed(AfterStep(s, v))
    BY <1>v, BridgeEffect DEF View, Bridges, WellFormed
  <2> QED
    BY <1>1, <2>1, <2>2, <2>3
<1>2. ASSUME NEW p \in Members(w) \ {n}, s = TunnelStep(p, w.mtu)
      PROVE  AfterStep(s, v) \in View /\ WellFormed(AfterStep(s, v))
  <2>1. [v.ports EXCEPT ![p] = w.mtu] \in [Nodes -> Mtus \cup {NoPort, AlteredPort}]
    BY <1>v, NetTypes
  <2> QED
    BY <2>1, <1>2, <1>v, TunnelEffect DEF View, WellFormed
<1>3. CASE s \in EdgeSteps(w, n)
  BY <1>3, EdgeEffect
<1> QED
  BY <1>1, <1>2, <1>3 DEF Plannable

(* No plannable step puts anything into the difference, in any order: not even *)
(* one that was planned from an older view. *)
LEMMA EffectShrinks ==
    ASSUME NEW w \in Nets, NEW n \in Nodes, NEW v \in View, WellFormed(v), NEW s \in Plannable(w, n)
    PROVE  Diff(w, n, AfterStep(s, v)) \subseteq Diff(w, n, v)
<1>v. /\ v.bridge \in Bridges /\ v.ports \in [Nodes -> Mtus \cup {NoPort, AlteredPort}]
      /\ v.stray \in BOOLEAN /\ AfterStep(s, v) \in View
  BY AfterStepType DEF View
<1>1. CASE s \in {BridgeStep, DeleteStrayStep}
  <2> DEFINE u == AfterStep(s, v)
  <2>1. u.ports = v.ports /\ u.bridge \in {"ours", v.bridge} /\ (u.stray => v.stray)
    <3>1. s = BridgeStep => u.ports = v.ports /\ u.bridge = "ours" /\ u.stray = v.stray
      BY BridgeEffect
    <3>2. s = DeleteStrayStep => u.ports = v.ports /\ u.bridge = v.bridge /\ u.stray = FALSE
      BY BridgeEffect
    <3> QED
      BY <1>1, <3>1, <3>2, <1>v
  <2>2. u.bridge \in {"ours", "altered"} => v.bridge \in {"ours", "altered"} \/ s = BridgeStep
    BY <1>1, BridgeEffect
  <2>3. s = BridgeStep => n \in Members(w)
    BY StepKinds DEF Plannable
  <2> HIDE DEF u
  <2>4. u \in View
    BY <1>v DEF u
  <2>5. Diff(w, n, u) \subseteq Diff(w, n, v)
    BY <2>1, <2>2, <2>3, <2>4, <1>v, DiffSteps
  <2> QED
    BY <2>5 DEF u
<1>2. CASE s = DeleteBridgeStep /\ n \notin Members(w)
  BY <1>2, <1>v, BridgeEffect, DiffSteps
<1>3. ASSUME NEW p \in Members(w) \ {n}, s = TunnelStep(p, w.mtu)
      PROVE  Diff(w, n, AfterStep(s, v)) \subseteq Diff(w, n, v)
  <2>1. AfterStep(s, v).bridge = v.bridge /\ AfterStep(s, v).stray = v.stray
    BY <1>3, TunnelEffect
  <2>2. \A q \in Nodes : AfterStep(s, v).ports[q] # w.mtu => v.ports[q] # w.mtu
    BY <1>3, <1>v, TunnelEffect, NetTypes
  <2>3. Members(w) \subseteq Nodes
    BY NetTypes
  <2> QED
    BY <2>1, <2>2, <2>3, <1>v, DiffSteps
<1>4. CASE s \in EdgeSteps(w, n)
  BY <1>4, EdgeEffect
<1>5. s = DeleteBridgeStep => n \notin Members(w)
  BY StepKinds, EdgeKinds DEF Plannable
<1> QED
  BY <1>1, <1>2, <1>3, <1>4, <1>5 DEF Plannable

(* A step that takes effect is out of the difference. *)
LEMMA EffectSettles ==
    ASSUME NEW w \in Nets, NEW n \in Nodes, NEW v \in View, WellFormed(v), NEW s \in Plannable(w, n),
           ~ StepImpossible(s, v), ~ IsEdgeStep(s)
    PROVE  s \notin Diff(w, n, AfterStep(s, v))
<1> DEFINE u == AfterStep(s, v)
<1>v. /\ v.bridge \in Bridges /\ v.ports \in [Nodes -> Mtus \cup {NoPort, AlteredPort}]
      /\ v.stray \in BOOLEAN /\ u \in View
  BY AfterStepType DEF View
<1>1. CASE s = BridgeStep
  <2>1. u.bridge = "ours"
    BY <1>1, BridgeEffect
  <2> QED
    BY <2>1, <1>1, <1>v, DiffSteps, StepKinds, EdgeKinds
<1>2. CASE s = DeleteStrayStep
  <2>1. u.stray = FALSE
    BY <1>2, BridgeEffect
  <2> QED
    BY <2>1, <1>2, <1>v, DiffSteps, StepKinds, EdgeKinds
<1>3. CASE s = DeleteBridgeStep
  <2>1. u.bridge = "absent"
    BY <1>3, BridgeEffect
  <2> QED
    BY <2>1, <1>3, <1>v, DiffSteps, StepKinds, EdgeKinds
<1>4. ASSUME NEW p \in Members(w) \ {n}, s = TunnelStep(p, w.mtu)
      PROVE  s \notin Diff(w, n, u)
  <2>1. u.ports[p] = w.mtu
    BY <1>4, <1>v, TunnelEffect, NetTypes, StepKinds DEF StepImpossible
  <2>2. \A q : s = TunnelStep(q, w.mtu) => q = p
    BY <1>4 DEF TunnelStep
  <2>3. s # BridgeStep /\ s # DeleteStrayStep /\ s # DeleteBridgeStep /\ s \notin EdgeSteps(w, n)
    BY <1>4, StepKinds, EdgeKinds
  <2> QED
    BY <2>1, <2>2, <2>3, <1>v, DiffSteps
<1>5. s \notin EdgeSteps(w, n)
  BY EdgeKinds DEF IsEdgeStep
<1> QED
  BY <1>1, <1>2, <1>3, <1>4, <1>5 DEF Plannable

(* A step whose work is done leaves the view as it is. *)
LEMMA SettledIsIdle ==
    ASSUME NEW w \in Nets, NEW n \in Nodes, NEW v \in View, WellFormed(v), NEW s \in Plannable(w, n),
           IsEdgeStep(s) \/ s \notin Diff(w, n, v), s = DeleteBridgeStep => v.bridge # "foreign"
    PROVE  AfterStep(s, v) = v
<1>v. /\ v.bridge \in Bridges /\ v.ports \in [Nodes -> Mtus \cup {NoPort, AlteredPort}]
      /\ v.stray \in BOOLEAN /\ v = [bridge |-> v.bridge, ports |-> v.ports, stray |-> v.stray]
  BY DEF View
<1>1. CASE s = BridgeStep /\ n \in Members(w)
  <2>1. v.bridge = "ours"
    BY <1>1, DiffSteps, StepKinds DEF IsEdgeStep
  <2> QED
    BY <2>1, <1>1, <1>v, BridgeEffect
<1>2. CASE s = DeleteStrayStep
  <2>1. v.stray = FALSE
    BY <1>2, <1>v, DiffSteps, StepKinds DEF IsEdgeStep
  <2> QED
    BY <2>1, <1>2, <1>v, BridgeEffect
<1>3. CASE s = DeleteBridgeStep /\ n \notin Members(w)
  <2>1. v.bridge \notin {"ours", "altered"}
    BY <1>3, DiffSteps, StepKinds DEF IsEdgeStep
  <2>2. v.bridge = "absent" /\ v.ports = [p \in Nodes |-> NoPort]
    BY <2>1, <1>3, <1>v DEF Bridges, WellFormed
  <2> QED
    BY <2>2, <1>3, <1>v, BridgeEffect
<1>4. ASSUME NEW p \in Members(w) \ {n}, s = TunnelStep(p, w.mtu), n \in Members(w)
      PROVE  AfterStep(s, v) = v
  <2>1. v.ports[p] = w.mtu
    BY <1>4, DiffSteps, StepKinds DEF IsEdgeStep
  <2>2. [v.ports EXCEPT ![p] = w.mtu] = v.ports
    BY <2>1, <1>v
  <2> QED
    BY <2>2, <1>4, <1>v, TunnelEffect
<1>5. CASE s \in EdgeSteps(w, n)
  BY <1>5, EdgeEffect
<1> QED
  BY <1>1, <1>2, <1>3, <1>4, <1>5 DEF Plannable

(* The bridge a tunnel needs is missing only while its own step is. *)
LEMMA TunnelNeedsBridge ==
    ASSUME NEW w \in Nets, NEW n \in Nodes, NEW v \in View, NEW s \in Plannable(w, n), StepImpossible(s, v)
    PROVE  BridgeStep \in Diff(w, n, v) /\ s # BridgeStep
<1>1. s.do = "ensure_vxlan_port" /\ v.bridge = "absent"
  BY DEF StepImpossible
<1>2. n \in Members(w)
  BY <1>1, StepKinds DEF Plannable
<1> QED
  BY <1>1, <1>2, DiffSteps, StepKinds

(* The first plan is the difference of the view it was computed from. *)
LEMMA PlanInitInv == Init => AgentInv
<1> SUFFICES ASSUME Init PROVE AgentInv
  OBVIOUS
<1>1. net \in Nets /\ node \in Nodes /\ view \in View /\ WellFormed(view)
  BY DEF Init
<1>2. plan = Diff(net, node, view) /\ todo = plan /\ result = <<>> /\ round = 1 /\ failures = 0
  BY DEF Init, Diff
<1>3. PlanTypeOK
  BY <1>1, <1>2, DiffPlannable DEF PlanTypeOK
<1>4. OursToDelete
  BY <1>1, <1>2, DiffSteps, StepKinds, EdgeKinds DEF OursToDelete
<1> QED
  BY <1>2, <1>3, <1>4 DEF AgentInv, Covered, DoneIsDone, FirstSettles, SecondIsQuiet

(* A step of the plan keeps the invariant, whether it has effect and whatever *)
(* the agent answers. *)
LEMMA ExecuteKeepsInv == AgentInv /\ ExecuteStep => AgentInv'
<1> SUFFICES ASSUME AgentInv, ExecuteStep PROVE AgentInv'
  OBVIOUS
<1>1. PICK s \in todo, ok \in BOOLEAN, effect \in BOOLEAN :
        /\ MayRunFirst(s, todo)
        /\ todo' = todo \ {s}
        /\ IF StepImpossible(s, view) THEN ~ok /\ ~effect ELSE ok => effect
        /\ IF ok \/ StepImpossible(s, view)
           THEN UNCHANGED failures
           ELSE failures < MaxFailures /\ failures' = failures + 1
        /\ IF effect
           THEN view' = AfterStep(s, view) /\ edge' = EdgeAfterStep(s, edge)
           ELSE UNCHANGED <<view, edge>>
        /\ result' = Append(result,
              CASE ~ok -> "failed"
                [] ok /\ <<view', edge'>> = <<view, edge>> -> "noop"
                [] ok /\ <<view', edge'>> # <<view, edge>> -> "applied")
  BY DEF ExecuteStep
<1>u. UNCHANGED <<net, node, plan, round>>
  BY DEF ExecuteStep
<1>t. /\ net \in Nets /\ node \in Nodes /\ view \in View /\ WellFormed(view)
      /\ plan \subseteq Plannable(net, node) /\ todo \subseteq plan
      /\ result \in Seq(Results) /\ round \in {1, 2} /\ failures \in Nat
      /\ s \in plan /\ s \in Plannable(net, node)
  BY <1>1 DEF AgentInv, PlanTypeOK
<1>v. view' \in View /\ WellFormed(view') /\ Diff(net, node, view') \subseteq Diff(net, node, view)
  <2>1. CASE effect
    BY <2>1, <1>1, <1>t, AfterStepType, EffectShrinks
  <2>2. CASE ~ effect
    BY <2>2, <1>1, <1>t
  <2> QED
    BY <2>1, <2>2
<1>r. PICK r \in Results : /\ result' = Append(result, r)
                           /\ r # "failed" => ok
                           /\ ok /\ view' = view /\ edge' = edge => r = "noop"
                           /\ ~ ok => r = "failed"
  BY <1>1 DEF Results
<1>o. Ok' => Ok /\ ok
  <2>1. \A i \in DOMAIN result : i \in DOMAIN result' /\ result'[i] = result[i]
    BY <1>r, <1>t
  <2>2. Len(result) + 1 \in DOMAIN result' /\ result'[Len(result) + 1] = r
    BY <1>r, <1>t
  <2> QED
    BY <2>1, <2>2, <1>r DEF Ok
<1>s. ok => effect /\ ~ StepImpossible(s, view)
  BY <1>1
<1>d. ok => IsEdgeStep(s) \/ s \notin Diff(net, node, view')
  BY <1>s, <1>1, <1>t, EffectSettles
<1>q. failures' = 0 => failures = 0 /\ (ok \/ StepImpossible(s, view))
  BY <1>1, <1>t
<1>i. failures = 0 => ~ StepImpossible(s, view)
  <2> SUFFICES ASSUME failures = 0, StepImpossible(s, view) PROVE FALSE
    OBVIOUS
  <2>1. BridgeStep \in Diff(net, node, view) /\ s # BridgeStep
    BY <1>t, TunnelNeedsBridge
  <2>2. BridgeStep \in plan \ todo
    BY <2>1, <1>1 DEF AgentInv, Covered, MayRunFirst
  <2>3. Settled(BridgeStep)
    BY <2>2, <1>t DEF AgentInv, FirstSettles, SecondIsQuiet
  <2> QED
    BY <2>1, <2>3, StepKinds DEF Settled, IsEdgeStep
<1>2. PlanTypeOK'
  <2>1. result' \in Seq(Results)
    BY <1>r, <1>t
  <2>2. failures' \in Nat
    BY <1>1, <1>t
  <2>3. todo' \subseteq plan'
    BY <1>1, <1>t, <1>u
  <2>4. Plannable(net, node)' = Plannable(net, node)
    BY <1>u
  <2> QED
    BY <2>1, <2>2, <2>3, <2>4, <1>t, <1>u, <1>v DEF PlanTypeOK
<1>3. Covered'
  BY <1>v, <1>u DEF AgentInv, Covered
<1>4. OursToDelete'
  <2> SUFFICES ASSUME DeleteBridgeStep \in plan PROVE view'.bridge # "foreign"
    BY <1>u DEF OursToDelete
  <2>1. view.bridge # "foreign"
    BY DEF AgentInv, OursToDelete
  <2>2. node \notin Members(net)
    BY <1>t, StepKinds, EdgeKinds DEF Plannable
  <2>3. s = DeleteBridgeStep \/ s = DeleteStrayStep
    BY <1>t, <2>2 DEF Plannable
  <2> QED
    BY <2>1, <2>3, <1>1, <1>t, BridgeEffect
<1>5. DoneIsDone'
  BY <1>o, <1>d, <1>v, <1>u, <1>1 DEF AgentInv, DoneIsDone
<1>6. ASSUME failures' = 0 PROVE ok /\ effect /\ failures = 0
  BY <1>6, <1>q, <1>i, <1>s
<1>7. ASSUME NEW x \in plan, Settled(x), failures' = 0
      PROVE  Settled(x)'
  <2>1. CASE ~ IsEdgeStep(x)
    BY <2>1, <1>7, <1>v, <1>u DEF Settled
  <2>2. CASE IsEdgeStep(x)
    <3>1. edge = x.service
      BY <2>2, <1>7 DEF Settled
    <3>2. IsEdgeStep(s) => s.service = x.service
      BY <2>2, <1>t, StepKinds, EdgeKinds DEF Plannable, IsEdgeStep
    <3>3. edge' = x.service
      BY <3>1, <3>2, <1>1 DEF EdgeAfterStep
    <3> QED
      BY <2>2, <3>3 DEF Settled
  <2> QED
    BY <2>1, <2>2
<1>8. FirstSettles'
  <2> SUFFICES ASSUME failures' = 0, round = 1, NEW x \in plan \ todo' PROVE Settled(x)'
    BY <1>u DEF FirstSettles
  <2>1. CASE x = s
    <3>1. edge' = EdgeAfterStep(s, edge)
      BY <1>1, <1>6
    <3> QED
      BY <2>1, <3>1, <1>d, <1>6, <1>u DEF Settled, EdgeAfterStep
  <2>2. CASE x # s
    <3>1. x \in plan \ todo
      BY <2>2, <1>1
    <3>2. Settled(x)
      BY <3>1, <1>6 DEF AgentInv, FirstSettles
    <3> QED
      BY <3>1, <3>2, <1>7
  <2> QED
    BY <2>1, <2>2
<1>9. SecondIsQuiet'
  <2> SUFFICES ASSUME failures' = 0, round = 2
               PROVE  /\ \A x \in plan : Settled(x)'
                      /\ \A i \in DOMAIN result' : result'[i] \in {"noop", "failed"}
    BY <1>u DEF SecondIsQuiet
  <2>1. \A x \in plan : Settled(x)
    BY <1>6 DEF AgentInv, SecondIsQuiet
  <2>2. \A x \in plan : Settled(x)'
    BY <2>1, <1>7
  <2>3. view' = view
    <3>1. IsEdgeStep(s) \/ s \notin Diff(net, node, view)
      BY <2>1, <1>t DEF Settled
    <3>2. s = DeleteBridgeStep => view.bridge # "foreign"
      BY <1>t DEF AgentInv, OursToDelete
    <3> QED
      BY <3>1, <3>2, <1>1, <1>6, <1>t, SettledIsIdle
  <2>4. edge' = edge
    BY <2>1, <1>1, <1>6, <1>t DEF Settled, EdgeAfterStep
  <2>5. r = "noop"
    BY <2>3, <2>4, <1>r, <1>6
  <2>6. \A i \in DOMAIN result : result[i] \in {"noop", "failed"}
    BY <1>6 DEF AgentInv, SecondIsQuiet
  <2>7. \A i \in DOMAIN result' : IF i \in DOMAIN result THEN result'[i] = result[i] ELSE result'[i] = r
    BY <1>r, <1>t
  <2> QED
    BY <2>2, <2>5, <2>6, <2>7
<1> QED
  BY <1>2, <1>3, <1>4, <1>5, <1>8, <1>9 DEF AgentInv

(* The plan may be sent again: what was settled is settled. *)
LEMMA RedeliverKeepsInv == AgentInv /\ Redeliver => AgentInv'
<1> SUFFICES ASSUME AgentInv, Redeliver PROVE AgentInv'
  OBVIOUS
<1>1. /\ todo = {} /\ round = 1
      /\ todo' = plan /\ result' = <<>> /\ round' = 2
      /\ UNCHANGED <<net, node, view, edge, plan, failures>>
  BY DEF Redeliver
<1>2. PlanTypeOK'
  BY <1>1 DEF AgentInv, PlanTypeOK
<1>3. Covered' /\ OursToDelete' /\ DoneIsDone' /\ FirstSettles'
  BY <1>1 DEF AgentInv, Covered, OursToDelete, DoneIsDone, FirstSettles
<1>4. SecondIsQuiet'
  <2>1. failures = 0 => \A s \in plan : Settled(s)
    BY <1>1 DEF AgentInv, FirstSettles
  <2> QED
    BY <2>1, <1>1 DEF SecondIsQuiet, Settled
<1> QED
  BY <1>2, <1>3, <1>4 DEF AgentInv

(* The invariant is inductive. *)
LEMMA AgentStepInv == AgentInv /\ [Next]_planVars => AgentInv'
<1>1. AgentInv /\ UNCHANGED planVars => AgentInv'
  BY DEF planVars, AgentInv, PlanTypeOK, Covered, OursToDelete, DoneIsDone, FirstSettles,
         SecondIsQuiet, Settled, Ok
<1> QED
  BY <1>1, ExecuteKeepsInv, RedeliverKeepsInv DEF Next

(* The invariant holds in every behaviour of the agent. *)
LEMMA AgentInvAlways == Spec => []AgentInv
BY PlanInitInv, AgentStepInv, PTL DEF Spec

(* Types of the node's view, the plan and its results. *)
THEOREM AgentTypeCorrect == Spec => []PlanTypeOK
<1>1. AgentInv => PlanTypeOK
  BY DEF AgentInv
<1> QED
  BY <1>1, AgentInvAlways, PTL

(* A plan all of whose steps succeeded leaves only edge steps to plan. *)
LEMMA OkComplies == AgentInv => OkPlanConverges
<1> SUFFICES ASSUME AgentInv, todo = {}, Ok, NEW s \in Diff(net, node, view) PROVE IsEdgeStep(s)
  BY DEF OkPlanConverges, IsInCompliance, Diff
<1>1. s \in plan \ todo
  BY DEF AgentInv, Covered
<1> QED
  BY <1>1 DEF AgentInv, DoneIsDone

(* The verification of a node nobody disturbed cannot fail after a plan that *)
(* succeeded (apply_plan.py:61-89, diff_engine.py:309). *)
THEOREM OkMeansCompliant == Spec => []OkPlanConverges
BY OkComplies, AgentInvAlways, PTL

(* Sending a plan again changes nothing where all had succeeded, and completes *)
(* what had failed. *)
THEOREM RetriesAreSafe == Spec => []RetryIsSafe
<1>1. AgentInv => RetryIsSafe
  <2> SUFFICES ASSUME AgentInv, round = 2, todo = {}, Ok
               PROVE  /\ IsInCompliance(net, node, Members(net), view)
                      /\ failures = 0 => \A i \in DOMAIN result : result[i] = "noop"
    BY DEF RetryIsSafe
  <2>1. IsInCompliance(net, node, Members(net), view)
    BY OkComplies DEF OkPlanConverges
  <2>2. failures = 0 => \A i \in DOMAIN result : result[i] = "noop"
    BY DEF AgentInv, SecondIsQuiet, Ok
  <2> QED
    BY <2>1, <2>2
<1> QED
  BY <1>1, AgentInvAlways, PTL

(* No step undoes another, in any order the agent may take. *)
THEOREM StepsNeverUndo == Spec => StepsOnlyShrinkDiff
<1> DEFINE Shrinks ==
      round' = round =>
        DiffForNode(net, node, Members(net), view') \subseteq DiffForNode(net, node, Members(net), view)
<1>1. AgentInv /\ ExecuteStep => Shrinks
  <2> SUFFICES ASSUME AgentInv, ExecuteStep
               PROVE  Diff(net, node, view') \subseteq Diff(net, node, view)
    BY DEF Diff
  <2>1. PICK s \in todo : view' = view \/ view' = AfterStep(s, view)
    BY DEF ExecuteStep
  <2> QED
    BY <2>1, EffectShrinks DEF AgentInv, PlanTypeOK
<1>2. AgentInv /\ Redeliver => Shrinks
  BY DEF Redeliver
<1>3. AgentInv /\ [Next]_planVars => [Shrinks]_planVars
  BY <1>1, <1>2 DEF Next
<1> QED
  BY <1>3, AgentInvAlways, PTL DEF Spec, StepsOnlyShrinkDiff

(* Two lists of the steps that count, one in the drift report and one in the *)
(* verification, come to the same. *)
LEMMA DriftJudgesAlike == AgentInv => DriftIsNonCompliance
<1> SUFFICES ASSUME AgentInv PROVE DriftIsNonCompliance
  OBVIOUS
<1>1. ASSUME NEW s \in Diff(net, node, view) PROVE IsDrift(s) <=> ~ IsEdgeStep(s)
  <2>1. s \in Plannable(net, node)
    BY DiffPlannable DEF AgentInv, PlanTypeOK
  <2>2. s.do \in {"ensure_bridge", "delete_bridge", "delete_stray_bridge", "ensure_vxlan_port",
                  "ensure_edge_services"}
    BY <2>1, StepKinds, EdgeKinds DEF Plannable
  <2> QED
    BY <2>2 DEF IsDrift, IsEdgeStep
<1> QED
  BY <1>1 DEF DriftIsNonCompliance, DriftOf, IsInCompliance, Diff

(* The tunnels drawn are those between two members. *)
LEMMA EdgesJoinMembers ==
    ASSUME NEW w \in Nets, NEW n \in Nodes, NEW p \in Nodes
    PROVE  {n, p} \in TunnelEdges(w) <=> n # p /\ n \in Members(w) /\ p \in Members(w)
<1>m. /\ w.members \in Seq(Nodes) /\ DOMAIN w.members = 1 .. Len(w.members) /\ Len(w.members) \in Nat
      /\ \A i, j \in DOMAIN w.members : w.members[i] = w.members[j] => i = j
  BY NetsAssumption
<1>e. {n, p} \in TunnelEdges(w) <=>
        \E i \in DOMAIN w.members : \E j \in i + 1 .. Len(w.members) : {n, p} = {w.members[i], w.members[j]}
  <2> DEFINE From(i) == {{w.members[i], w.members[j]} : j \in i + 1 .. Len(w.members)}
  <2>1. TunnelEdges(w) = UNION {From(i) : i \in DOMAIN w.members}
    BY DEF TunnelEdges
  <2>2. {n, p} \in TunnelEdges(w) <=> \E i \in DOMAIN w.members : {n, p} \in From(i)
    <3> HIDE DEF From
    <3> QED
      BY <2>1
  <2>3. ASSUME NEW i
        PROVE  {n, p} \in From(i) <=> \E j \in i + 1 .. Len(w.members) : {n, p} = {w.members[i], w.members[j]}
    OBVIOUS
  <2> QED
    BY <2>2, <2>3
<1>1. ASSUME NEW i \in DOMAIN w.members, NEW j \in i + 1 .. Len(w.members),
             {n, p} = {w.members[i], w.members[j]}
      PROVE  n # p /\ n \in Members(w) /\ p \in Members(w)
  <2>1. j \in DOMAIN w.members /\ i # j
    BY <1>m
  <2>2. w.members[i] # w.members[j]
    BY <2>1, <1>m
  <2>3. w.members[i] \in Members(w) /\ w.members[j] \in Members(w)
    BY <2>1 DEF Members
  <2>4. \/ n = w.members[i] /\ p = w.members[j]
        \/ n = w.members[j] /\ p = w.members[i]
    <3> DEFINE x == w.members[i]
               y == w.members[j]
    <3>1. {n, p} = {x, y}
      BY <1>1
    <3>2. x # y
      BY <2>2
    <3> HIDE DEF x, y
    <3>3. n = x \/ n = y
      BY <3>1
    <3>4. p = x \/ p = y
      BY <3>1
    <3>5. (x = n \/ x = p) /\ (y = n \/ y = p)
      BY <3>1
    <3>6. (n = x /\ p = y) \/ (n = y /\ p = x)
      BY <3>2, <3>3, <3>4, <3>5
    <3> QED
      BY <3>6 DEF x, y
  <2> QED
    BY <2>2, <2>3, <2>4
<1>2. ASSUME n # p, n \in Members(w), p \in Members(w)
      PROVE  \E i \in DOMAIN w.members : \E j \in i + 1 .. Len(w.members) : {n, p} = {w.members[i], w.members[j]}
  <2>1. PICK i \in DOMAIN w.members : w.members[i] = n
    BY <1>2 DEF Members
  <2>2. PICK j \in DOMAIN w.members : w.members[j] = p
    BY <1>2 DEF Members
  <2>3. i # j /\ i \in 1 .. Len(w.members) /\ j \in 1 .. Len(w.members)
    BY <2>1, <2>2, <1>2, <1>m
  <2>4. CASE i < j
    <3>1. j \in i + 1 .. Len(w.members)
      BY <2>3, <2>4, <1>m
    <3> QED
      BY <3>1, <2>1, <2>2
  <2>5. CASE j < i
    <3>1. i \in j + 1 .. Len(w.members) /\ {n, p} = {w.members[j], w.members[i]}
      BY <2>1, <2>2, <2>3, <2>5, <1>m
    <3> QED
      BY <3>1, <2>2
  <2>6. i < j \/ j < i
    BY <2>3, <1>m
  <2> QED
    BY <2>4, <2>5, <2>6
<1> QED
  BY <1>e, <1>1, <1>2

(* A tunnel between two members is drawn and planned, and there once a plan of *)
(* either has succeeded. *)
LEMMA DrawnAndBuilt == AgentInv => DrawnIsPlanned
<1> SUFFICES ASSUME AgentInv PROVE DrawnIsPlanned
  OBVIOUS
<1>t. net \in Nets /\ node \in Nodes /\ view \in View
  BY DEF AgentInv, PlanTypeOK
<1>v. EmptyView \in View /\ \A p \in Nodes : EmptyView.ports[p] # net.mtu
  BY <1>t, NetTypes, DiffAssumption DEF EmptyView, View, Bridges
<1>1. ASSUME NEW p \in Nodes, NEW v \in View, node \in Members(net)
      PROVE  TunnelStep(p, net.mtu) \in Diff(net, node, v) <=>
               p \in Members(net) \ {node} /\ v.ports[p] # net.mtu
  <2> DEFINE s == TunnelStep(p, net.mtu)
  <2>1. \A q : s = TunnelStep(q, net.mtu) => q = p
    BY DEF TunnelStep
  <2>2. s # BridgeStep /\ s # DeleteStrayStep /\ s \notin EdgeSteps(net, node)
    BY StepKinds, EdgeKinds
  <2> HIDE DEF s
  <2>3. s \in Diff(net, node, v) <=>
          \E q \in Members(net) \ {node} : v.ports[q] # net.mtu /\ s = TunnelStep(q, net.mtu)
    BY <2>2, <1>1, <1>t, DiffSteps
  <2>4. s = TunnelStep(p, net.mtu)
    BY DEF s
  <2> QED
    BY <2>1, <2>3, <2>4
<1>2. ASSUME NEW p \in Nodes
      PROVE  {node, p} \in TunnelEdges(net) <=>
               node # p /\ node \in Members(net) /\ TunnelStep(p, net.mtu) \in Diff(net, node, EmptyView)
  BY <1>1, <1>v, <1>t, EdgesJoinMembers
<1>3. ASSUME todo = {}, Ok, NEW p \in Nodes, {node, p} \in TunnelEdges(net)
      PROVE  view.ports[p] = net.mtu
  <2>1. node # p /\ node \in Members(net) /\ p \in Members(net)
    BY <1>3, <1>t, EdgesJoinMembers
  <2>2. TunnelStep(p, net.mtu) \notin Diff(net, node, view)
    BY <1>3, OkComplies, StepKinds DEF OkPlanConverges, IsInCompliance, Diff, IsEdgeStep
  <2> QED
    BY <2>1, <2>2, <1>1, <1>t
<1> QED
  BY <1>2, <1>3 DEF DrawnIsPlanned, Diff

(* What the controller shows of a node is what a plan would change and build *)
(* (topology.py:128, 221). *)
THEOREM WhatIsShownIsPlanned == Spec => []ShownIsPlanned
<1>1. AgentInv => ShownIsPlanned
  BY DriftJudgesAlike, DrawnAndBuilt DEF ShownIsPlanned
<1> QED
  BY <1>1, AgentInvAlways, PTL

-----------------------------------------------------------------------------
(* Edge services *)

Dnsmasq == "dnsmasq" \notin adrift => \A i \in Scopes : running[i] = file[i]

Coredns ==
    "coredns" \notin adrift =>
        corefile = ZonesOf(file) /\ \A i \in Zones : running[i] = file[i]

Nft == "nft" \notin adrift => kernel = Table(intent)

Remembered == last # NoSpec /\ last.ok => IsNoop(last.id, last.spec)

EdgeInv == EdgeTypeOK /\ Dnsmasq /\ Coredns /\ Nft /\ Remembered

(* A daemon reads files into functions of the same type. *)
LEMMA ReadsType ==
    ASSUME running \in [Files -> Contents], NEW files \in [Files -> Contents], NEW zones
    PROVE  /\ DnsmasqReads(files) \in [Files -> Contents]
           /\ CorednsReads(files, zones) \in [Files -> Contents]
BY DEF DnsmasqReads, CorednsReads, Contents

Tables == [nat : [NatRules -> Contents], chains : Seq([policy : Policies, spec : Contents])]

(* The empty maps. *)
LEMMA NoIntentType == IsIntent(NoIntent)
<1> DEFINE none == [i \in Rules |-> NoSpec]
<1>1. /\ none \in [Rules -> Contents] /\ <<>> \in Seq(Policies)
      /\ \A i \in Policies : none[i] = NoSpec
  BY DEF Contents, Rules
<1>2. NoIntent = [rule |-> none, order |-> <<>>]
  BY DEF NoIntent
<1> HIDE DEF none
<1> QED
  BY <1>1, <1>2 DEF IsIntent

(* What is rendered is a table. *)
LEMMA TableType ==
    ASSUME NEW map, IsIntent(map)
    PROVE  /\ Table(map) \in Tables
           /\ Len(Table(map).chains) = Len(map.order)
           /\ \A k \in 1 .. Len(map.order) :
                 Table(map).chains[k] = [policy |-> map.order[k], spec |-> map.rule[map.order[k]]]
<1> DEFINE chains == [k \in 1 .. Len(map.order) |->
                         [policy |-> map.order[k], spec |-> map.rule[map.order[k]]]]
<1>1. /\ map.rule \in [Rules -> Contents] /\ map.order \in Seq(Policies)
      /\ Policies \subseteq Rules /\ NatRules \subseteq Rules
  BY DEF IsIntent, Rules
<1>2. Len(map.order) \in Nat /\ \A k \in 1 .. Len(map.order) : map.order[k] \in Policies
  BY <1>1
<1>3. \A k \in 1 .. Len(map.order) :
        [policy |-> map.order[k], spec |-> map.rule[map.order[k]]] \in [policy : Policies, spec : Contents]
  BY <1>1, <1>2
<1>4. chains \in Seq([policy : Policies, spec : Contents]) /\ Len(chains) = Len(map.order)
  BY <1>2, <1>3, Z3
<1>5. [i \in NatRules |-> map.rule[i]] \in [NatRules -> Contents]
  BY <1>1
<1>6. Table(map) = [nat |-> [i \in NatRules |-> map.rule[i]], chains |-> chains]
  BY DEF Table
<1> QED
  BY <1>4, <1>5, <1>6 DEF Tables

(* A sequence without one of its elements keeps the others, and its first one. *)
LEMMA WithoutKeeps ==
    ASSUME NEW S, NEW o \in Seq(S), NEW i, \E k \in 1 .. Len(o) : o[k] = i
    PROVE  LET after == Without(o, i)
           IN  /\ after \in Seq(S)
               /\ \A n \in 1 .. Len(o) : o[n] # i => \E k \in 1 .. Len(after) : after[k] = o[n]
               /\ o[1] # i => Len(after) > 0 /\ after[1] = o[1]
<1> DEFINE after == Without(o, i)
<1>0. Len(o) \in Nat
  OBVIOUS
<1>1. PICK k \in 1 .. Len(o) : o[k] = i /\ after = SubSeq(o, 1, k - 1) \o SubSeq(o, k + 1, Len(o))
  BY DEF Without
<1>2. /\ SubSeq(o, 1, k - 1) \in Seq(S) /\ Len(SubSeq(o, 1, k - 1)) = k - 1
      /\ \A j \in 1 .. k - 1 : SubSeq(o, 1, k - 1)[j] = o[j]
  BY <1>1
<1>3. /\ SubSeq(o, k + 1, Len(o)) \in Seq(S) /\ Len(SubSeq(o, k + 1, Len(o))) = Len(o) - k
      /\ \A j \in 1 .. Len(o) - k : SubSeq(o, k + 1, Len(o))[j] = o[k + j]
  BY <1>1
<1>4. /\ after \in Seq(S) /\ Len(after) = Len(o) - 1
      /\ \A j \in 1 .. k - 1 : after[j] = o[j]
      /\ \A j \in k .. Len(o) - 1 : after[j] = o[j + 1]
  <2> DEFINE a == SubSeq(o, 1, k - 1)
             b == SubSeq(o, k + 1, Len(o))
  <2>1. /\ a \in Seq(S) /\ b \in Seq(S) /\ Len(a) = k - 1 /\ Len(b) = Len(o) - k /\ after = a \o b
        /\ \A j \in 1 .. k - 1 : a[j] = o[j]
        /\ \A j \in 1 .. Len(o) - k : b[j] = o[k + j]
    BY <1>1, <1>2, <1>3
  <2> HIDE DEF a, b, after
  <2>2. /\ after \in Seq(S) /\ Len(after) = Len(a) + Len(b)
        /\ \A j \in 1 .. Len(a) : after[j] = a[j]
        /\ \A j \in Len(a) + 1 .. Len(a) + Len(b) : after[j] = b[j - Len(a)]
    <3>1. a \in Seq(S) /\ b \in Seq(S) /\ after = a \o b
      BY <2>1
    <3> QED
      BY <3>1, ConcatProperties
  <2>3. ASSUME NEW j \in k .. Len(o) - 1
        PROVE  after[j] = o[j + 1]
    <3>1. j \in Len(a) + 1 .. Len(a) + Len(b) /\ j - Len(a) = j + 1 - k /\ j + 1 - k \in 1 .. Len(o) - k
      BY <2>1, <2>3, <1>0
    <3>2. after[j] = b[j + 1 - k] /\ b[j + 1 - k] = o[k + (j + 1 - k)]
      BY <3>1, <2>1, <2>2
    <3>3. k + (j + 1 - k) = j + 1
      BY <2>3, <1>0
    <3> QED
      BY <3>2, <3>3
  <2>4. Len(after) = Len(o) - 1 /\ 1 .. Len(a) = 1 .. k - 1
    BY <2>1, <2>2, <1>0
  <2>5. \A j \in 1 .. k - 1 : after[j] = o[j]
    BY <2>1, <2>2, <2>4
  <2> QED
    BY <2>2, <2>3, <2>4, <2>5
<1> HIDE DEF after
<1>5. ASSUME NEW n \in 1 .. Len(o), o[n] # i
      PROVE  \E m \in 1 .. Len(after) : after[m] = o[n]
  <2>1. CASE n < k
    <3>1. n \in 1 .. k - 1 /\ n \in 1 .. Len(after)
      BY <2>1, <1>0, <1>4
    <3> QED
      BY <3>1, <1>4
  <2>2. CASE n > k
    <3>0. Len(after) = Len(o) - 1
      BY <1>4
    <3>1. n - 1 \in k .. Len(o) - 1 /\ n - 1 \in 1 .. Len(after) /\ (n - 1) + 1 = n
      BY <2>2, <1>0, <3>0
    <3>2. after[n - 1] = o[n]
      BY <3>1, <1>4
    <3> QED
      BY <3>1, <3>2
  <2>3. n # k
    BY <1>1, <1>5
  <2> QED
    BY <2>1, <2>2, <2>3
<1>6. ASSUME o[1] # i
      PROVE  Len(after) > 0 /\ after[1] = o[1]
  <2>1. k > 1 /\ Len(o) > 1 /\ 1 \in 1 .. k - 1
    BY <1>1, <1>6
  <2> QED
    BY <2>1, <1>4
<1> QED
  BY <1>4, <1>5, <1>6 DEF after

(* A dict keeps its order, but for the key that is put in or taken out: what it still *)
(* has is in the order, and a first key that stays is first. *)
LEMMA OrderKept ==
    ASSUME NEW map, IsIntent(map), NEW i \in Policies, NEW spec \in Contents, map.rule[i] # spec,
           NEW o, o = map.order, NEW after, after = OrderAfter(map, i, spec)
    PROVE  /\ after \in Seq(Policies)
           /\ \A j \in Policies : (IF j = i THEN spec ELSE map.rule[j]) # NoSpec =>
                 \E k \in 1 .. Len(after) : after[k] = j
           /\ Len(o) > 0 /\ o[1] # i => Len(after) > 0 /\ after[1] = o[1]
           /\ Len(o) = 0 /\ Len(after) > 0 => after[1] = i
<1>1. /\ o \in Seq(Policies) /\ i \in Rules
      /\ \A j \in Policies : map.rule[j] # NoSpec => \E k \in 1 .. Len(o) : o[k] = j
  BY DEF IsIntent, Rules
<1>2. CASE spec = NoSpec
  <2>1. \E k \in 1 .. Len(o) : o[k] = i
    BY <1>1, <1>2
  <2>2. after = Without(o, i)
    BY <1>2 DEF OrderAfter
  <2>3. /\ after \in Seq(Policies)
        /\ \A n \in 1 .. Len(o) : o[n] # i => \E k \in 1 .. Len(after) : after[k] = o[n]
        /\ o[1] # i => Len(after) > 0 /\ after[1] = o[1]
    BY <1>1, <2>1, <2>2, WithoutKeeps
  <2>4. Len(o) # 0
    BY <1>1, <2>1
  <2>5. ASSUME NEW j \in Policies, j # i, map.rule[j] # NoSpec
        PROVE  \E k \in 1 .. Len(after) : after[k] = j
    BY <1>1, <2>3, <2>5
  <2> QED
    BY <2>3, <2>4, <2>5, <1>2
<1>3. CASE spec # NoSpec /\ map.rule[i] = NoSpec
  <2>1. after = Append(o, i)
    BY <1>3 DEF OrderAfter
  <2>2. /\ after \in Seq(Policies) /\ Len(after) = Len(o) + 1 /\ after[Len(o) + 1] = i
        /\ \A j \in 1 .. Len(o) : after[j] = o[j]
    BY <1>1, <2>1
  <2>3. ASSUME NEW j \in Policies, j # i, map.rule[j] # NoSpec
        PROVE  \E k \in 1 .. Len(after) : after[k] = j
    <3>1. PICK k \in 1 .. Len(o) : o[k] = j
      BY <1>1, <2>3
    <3>2. k \in 1 .. Len(after) /\ after[k] = j
      BY <3>1, <2>2, <1>1
    <3> QED
      BY <3>2
  <2>4. Len(o) + 1 \in 1 .. Len(after)
    BY <2>2, <1>1
  <2>5. /\ Len(o) > 0 => Len(after) > 0 /\ after[1] = o[1]
        /\ Len(o) = 0 => after[1] = i
    BY <2>2, <1>1
  <2> QED
    BY <2>2, <2>3, <2>4, <2>5
<1>4. CASE spec # NoSpec /\ map.rule[i] # NoSpec
  <2>1. after = o
    BY <1>4 DEF OrderAfter
  <2> QED
    BY <2>1, <1>1, <1>4
<1> QED
  BY <1>2, <1>3, <1>4

(* Nothing runs, nothing is on disk. *)
LEMMA EdgeInitInv == EdgeInit => EdgeInv
<1>1. IsIntent(NoIntent) /\ Table(NoIntent) \in Tables
  BY NoIntentType, TableType
<1> QED
  BY <1>1, EdgeAssumption
  DEF EdgeInit, EdgeInv, EdgeTypeOK, Dnsmasq, Coredns, Nft, Remembered, ZonesOf, Files, Contents, Tables

(* An answer has the type of last, and leaves the faults in their bound. *)
LEMMA AnswersType ==
    ASSUME faults \in 0 .. MaxFaults, NEW i \in Files \cup Rules, NEW spec \in Contents,
           NEW ok \in BOOLEAN, Answers(i, spec, ok)
    PROVE  /\ last' = [id |-> i, spec |-> spec, ok |-> ok]
           /\ last' \in [id : Files \cup Rules, spec : Contents, ok : BOOLEAN]
           /\ faults' \in 0 .. MaxFaults
BY EdgeAssumption DEF Answers

(* A scope is written and dnsmasq reads its directory, or fails to. *)
LEMMA ScopeStep == EdgeInv /\ ApplyScope => EdgeInv'
<1> SUFFICES ASSUME EdgeInv, ApplyScope PROVE EdgeInv'
  OBVIOUS
<1>1. PICK i \in Scopes, spec \in Contents, ok \in BOOLEAN :
        /\ file' = [file EXCEPT ![i] = spec]
        /\ running' = IF ok THEN DnsmasqReads(file') ELSE running
        /\ Answers(i, spec, ok) /\ Loads("dnsmasq", ok)
        /\ UNCHANGED <<corefile, intent, kernel>>
  BY DEF ApplyScope, Contents
<1>t. /\ file \in [Files -> Contents] /\ running \in [Files -> Contents]
      /\ faults \in 0 .. MaxFaults /\ adrift \subseteq {"dnsmasq", "coredns", "nft"}
      /\ i \in Files /\ i \notin Zones /\ i \notin Rules
  BY EdgeAssumption DEF EdgeInv, EdgeTypeOK, Contents, Files, Rules
<1>f. file' \in [Files -> Contents] /\ file'[i] = spec /\ \A j \in Files : j # i => file'[j] = file[j]
  BY <1>1, <1>t
<1>r. running' \in [Files -> Contents]
  BY <1>1, <1>f, <1>t, ReadsType
<1>l. /\ last' = [id |-> i, spec |-> spec, ok |-> ok]
      /\ last' \in [id : Files \cup Rules, spec : Contents, ok : BOOLEAN]
      /\ faults' \in 0 .. MaxFaults
  BY <1>1, <1>t, AnswersType
<1>2. EdgeTypeOK'
  BY <1>1, <1>t, <1>f, <1>r, <1>l DEF EdgeInv, EdgeTypeOK, Loads, Contents
<1>3. Dnsmasq'
  BY <1>1, <1>t DEF Dnsmasq, Loads, DnsmasqReads, Files
<1>4. Coredns'
  <2>1. ZonesOf(file') = ZonesOf(file)
    BY <1>f, <1>t DEF ZonesOf, Files
  <2>2. \A z \in Zones : running'[z] = running[z] /\ file'[z] = file[z]
    BY <1>1, <1>f, <1>t, EdgeAssumption DEF DnsmasqReads, Files
  <2>3. "coredns" \notin adrift' => "coredns" \notin adrift
    BY <1>1 DEF Loads
  <2> QED
    BY <2>1, <2>2, <2>3, <1>1 DEF EdgeInv, Coredns, ZonesOf
<1>5. Nft'
  BY <1>1 DEF EdgeInv, Nft, Loads
<1>6. Remembered'
  BY <1>l, <1>f, <1>t DEF Remembered, IsNoop
<1> QED
  BY <1>2, <1>3, <1>4, <1>5, <1>6 DEF EdgeInv

(* A zone is written, named in the Corefile and loaded, as far as it gets. *)
LEMMA ZoneStep == EdgeInv /\ ApplyZone => EdgeInv'
<1> SUFFICES ASSUME EdgeInv, ApplyZone PROVE EdgeInv'
  OBVIOUS
<1>1. PICK i \in Zones, spec \in Contents, named \in BOOLEAN, ok \in BOOLEAN :
        /\ ok => named
        /\ file' = [file EXCEPT ![i] = spec]
        /\ corefile' = IF named THEN ZonesOf(file') ELSE corefile
        /\ running' = IF ok THEN CorednsReads(file', corefile') ELSE running
        /\ Answers(i, spec, ok) /\ Loads("coredns", ok)
        /\ UNCHANGED <<intent, kernel>>
  BY DEF ApplyZone, Contents
<1>t. /\ file \in [Files -> Contents] /\ running \in [Files -> Contents]
      /\ faults \in 0 .. MaxFaults /\ adrift \subseteq {"dnsmasq", "coredns", "nft"}
      /\ i \in Files /\ i \notin Scopes /\ i \notin Rules
  BY EdgeAssumption DEF EdgeInv, EdgeTypeOK, Contents, Files, Rules
<1>f. file' \in [Files -> Contents] /\ file'[i] = spec /\ \A j \in Files : j # i => file'[j] = file[j]
  BY <1>1, <1>t
<1>r. running' \in [Files -> Contents]
  BY <1>1, <1>f, <1>t, ReadsType
<1>l. /\ last' = [id |-> i, spec |-> spec, ok |-> ok]
      /\ last' \in [id : Files \cup Rules, spec : Contents, ok : BOOLEAN]
      /\ faults' \in 0 .. MaxFaults
  BY <1>1, <1>t, AnswersType
<1>c. corefile' \subseteq Zones
  BY <1>1 DEF EdgeInv, EdgeTypeOK, ZonesOf
<1>2. EdgeTypeOK'
  BY <1>1, <1>t, <1>f, <1>r, <1>l, <1>c DEF EdgeInv, EdgeTypeOK, Loads, Contents
<1>3. Dnsmasq'
  <2>1. \A s \in Scopes : running'[s] = running[s] /\ file'[s] = file[s]
    BY <1>1, <1>f, <1>t DEF CorednsReads, Files
  <2> QED
    BY <2>1, <1>1 DEF EdgeInv, Dnsmasq, Loads
<1>4. Coredns'
  <2>1. CASE ok
    <3>1. corefile' = ZonesOf(file') /\ running' = CorednsReads(file', corefile')
      BY <1>1, <2>1
    <3>2. \A z \in Zones : running'[z] = file'[z]
      BY <3>1, EdgeAssumption DEF CorednsReads, ZonesOf, Files
    <3> QED
      BY <3>1, <3>2 DEF Coredns, ZonesOf
  <2>2. CASE ~ ok
    BY <1>1, <2>2 DEF Coredns, Loads
  <2> QED
    BY <2>1, <2>2
<1>5. Nft'
  BY <1>1 DEF EdgeInv, Nft, Loads
<1>6. Remembered'
  BY <1>l, <1>f, <1>t DEF Remembered, IsNoop
<1> QED
  BY <1>2, <1>3, <1>4, <1>5, <1>6 DEF EdgeInv

(* The maps with one entry put in, changed or taken out. *)
Changed(map, i, spec) == [rule |-> [map.rule EXCEPT ![i] = spec], order |-> OrderAfter(map, i, spec)]

(* The maps with one entry changed are maps. *)
LEMMA IntentStep ==
    ASSUME NEW map, IsIntent(map), NEW i \in Rules, NEW spec \in Contents, map.rule[i] # spec
    PROVE  /\ IsIntent(Changed(map, i, spec))
           /\ Changed(map, i, spec).order = OrderAfter(map, i, spec)
           /\ \A j \in Rules : Changed(map, i, spec).rule[j] = IF j = i THEN spec ELSE map.rule[j]
<1> DEFINE after == Changed(map, i, spec)
<1>1. /\ map.rule \in [Rules -> Contents] /\ map.order \in Seq(Policies)
      /\ \A j \in Policies : map.rule[j] # NoSpec => \E k \in 1 .. Len(map.order) : map.order[k] = j
  BY DEF IsIntent
<1>2. /\ after.rule \in [Rules -> Contents]
      /\ after.order \in Seq(Policies) => after \in [rule : [Rules -> Contents], order : Seq(Policies)]
      /\ \A j \in Rules : after.rule[j] = IF j = i THEN spec ELSE map.rule[j]
      /\ after.order = OrderAfter(map, i, spec)
  BY <1>1 DEF Changed
<1> HIDE DEF after
<1>3. CASE i \in Policies
  <2>1. /\ after.order \in Seq(Policies)
        /\ \A j \in Policies : (IF j = i THEN spec ELSE map.rule[j]) # NoSpec =>
              \E k \in 1 .. Len(after.order) : after.order[k] = j
    BY <1>2, <1>3, OrderKept
  <2>2. \A j \in Policies : after.rule[j] = IF j = i THEN spec ELSE map.rule[j]
    BY <1>2 DEF Rules
  <2>3. \A j \in Policies : after.rule[j] # NoSpec => \E k \in 1 .. Len(after.order) : after.order[k] = j
    BY <2>1, <2>2
  <2>4. after \in [rule : [Rules -> Contents], order : Seq(Policies)]
    BY <2>1, <1>2
  <2> QED
    BY <2>3, <2>4, <1>2 DEF IsIntent, after
<1>4. CASE i \notin Policies
  <2>1. after.order = map.order
    BY <1>2, <1>4 DEF OrderAfter
  <2> QED
    <3>1. \A j \in Policies : after.rule[j] = map.rule[j]
      BY <1>2, <1>4 DEF Rules
    <3>2. /\ after.order \in Seq(Policies)
          /\ \A j \in Policies : after.rule[j] # NoSpec => \E k \in 1 .. Len(after.order) : after.order[k] = j
      BY <3>1, <2>1, <1>1
    <3>3. after \in [rule : [Rules -> Contents], order : Seq(Policies)]
      BY <3>2, <1>2
    <3> QED
      BY <3>2, <3>3, <1>2 DEF IsIntent, after
<1> QED
  BY <1>2, <1>3, <1>4 DEF after

(* A map of the agent is changed and the table swapped, or not. *)
LEMMA RuleStep == EdgeInv /\ ApplyRule => EdgeInv'
<1> SUFFICES ASSUME EdgeInv, ApplyRule PROVE EdgeInv'
  OBVIOUS
<1>1. PICK i \in Rules, spec \in Contents, ok \in BOOLEAN :
        /\ intent.rule[i] # spec
        /\ intent' = Changed(intent, i, spec)
        /\ kernel' = IF ok THEN Table(intent') ELSE kernel
        /\ Answers(i, spec, ok) /\ Loads("nft", ok)
        /\ UNCHANGED <<file, corefile, running>>
  BY DEF ApplyRule, IsNoop, Contents, Changed
<1>t. /\ IsIntent(intent) /\ kernel \in Tables
      /\ faults \in 0 .. MaxFaults /\ adrift \subseteq {"dnsmasq", "coredns", "nft"}
  BY DEF EdgeInv, EdgeTypeOK, Tables
<1>f. intent'.rule[i] = spec /\ IsIntent(intent')
  BY <1>1, <1>t, IntentStep
<1>k. kernel' \in Tables
  BY <1>1, <1>t, <1>f, TableType
<1>l. /\ last' = [id |-> i, spec |-> spec, ok |-> ok]
      /\ last' \in [id : Files \cup Rules, spec : Contents, ok : BOOLEAN]
      /\ faults' \in 0 .. MaxFaults
  BY <1>1, <1>t, AnswersType
<1>2. EdgeTypeOK'
  BY <1>1, <1>t, <1>f, <1>k, <1>l DEF EdgeInv, EdgeTypeOK, Loads, Tables
<1>3. Dnsmasq' /\ Coredns'
  BY <1>1 DEF EdgeInv, Dnsmasq, Coredns, ZonesOf, Loads
<1>4. Nft'
  BY <1>1 DEF Nft, Loads
<1>5. Remembered'
  BY <1>l, <1>f DEF Remembered, IsNoop
<1> QED
  BY <1>2, <1>3, <1>4, <1>5 DEF EdgeInv

(* A step that was refused, or had nothing to do, changes the answer only. *)
LEMMA QuietStep == EdgeInv /\ (Refuse \/ Noop) => EdgeInv'
<1> SUFFICES ASSUME EdgeInv, Refuse \/ Noop PROVE EdgeInv'
  OBVIOUS
<1>1. PICK i \in Files \cup Rules, spec \in Contents, ok \in BOOLEAN :
        /\ ok => IsNoop(i, spec)
        /\ Answers(i, spec, ok)
        /\ UNCHANGED <<file, corefile, running, intent, kernel, adrift>>
  BY DEF Refuse, Noop, Contents
<1>l. /\ last' = [id |-> i, spec |-> spec, ok |-> ok]
      /\ last' \in [id : Files \cup Rules, spec : Contents, ok : BOOLEAN]
      /\ faults' \in 0 .. MaxFaults
  BY <1>1, AnswersType DEF EdgeInv, EdgeTypeOK
<1>2. EdgeTypeOK'
  BY <1>1, <1>l DEF EdgeInv, EdgeTypeOK, Contents
<1>3. Dnsmasq' /\ Coredns' /\ Nft'
  BY <1>1 DEF EdgeInv, Dnsmasq, Coredns, Nft, ZonesOf
<1>4. Remembered'
  BY <1>1, <1>l DEF Remembered, IsNoop
<1> QED
  BY <1>2, <1>3, <1>4 DEF EdgeInv

(* Agent, daemons or host start anew. *)
LEMMA RestartStep == EdgeInv /\ (AgentRestarts \/ DaemonsRestart \/ HostReboots) => EdgeInv'
<1> SUFFICES ASSUME EdgeInv, AgentRestarts \/ DaemonsRestart \/ HostReboots PROVE EdgeInv'
  OBVIOUS
<1> DEFINE Reread == [i \in Files |-> IF i \in Scopes \cup corefile THEN file[i] ELSE NoSpec]
<1>t. /\ file \in [Files -> Contents] /\ running \in [Files -> Contents]
      /\ corefile \subseteq Zones /\ adrift \subseteq {"dnsmasq", "coredns", "nft"}
  BY DEF EdgeInv, EdgeTypeOK, Contents
<1>r. /\ Reread \in [Files -> Contents]
      /\ \A s \in Scopes : Reread[s] = file[s]
      /\ corefile = ZonesOf(file) => \A z \in Zones : Reread[z] = file[z]
  BY <1>t DEF Contents, ZonesOf, Files
<1>e. IsIntent(NoIntent) /\ Table(NoIntent) \in Tables
  BY NoIntentType, TableType
<1>1. CASE AgentRestarts
  <2>0. /\ intent' = NoIntent /\ last' = NoSpec
        /\ adrift' = IF kernel = Table(NoIntent) THEN adrift ELSE adrift \cup {"nft"}
        /\ UNCHANGED <<file, corefile, running, kernel, faults>>
    BY <1>1 DEF AgentRestarts
  <2>1. EdgeTypeOK'
    BY <2>0, <1>t, <1>e DEF EdgeInv, EdgeTypeOK, Tables
  <2>2. Dnsmasq' /\ Coredns' /\ Nft' /\ Remembered'
    BY <2>0 DEF EdgeInv, Dnsmasq, Coredns, Nft, Remembered, ZonesOf
  <2> QED
    BY <2>1, <2>2 DEF EdgeInv
<1>2. CASE DaemonsRestart
  <2>0. /\ running' = Reread
        /\ UNCHANGED <<file, corefile, intent, kernel, last, faults>>
        /\ adrift' = adrift \ ({"dnsmasq"} \cup IF corefile = ZonesOf(file) THEN {"coredns"} ELSE {})
    BY <1>2 DEF DaemonsRestart
  <2>1. EdgeTypeOK'
    BY <2>0, <1>t, <1>r DEF EdgeInv, EdgeTypeOK
  <2>2. Dnsmasq'
    BY <2>0, <1>r DEF Dnsmasq
  <2>3. Coredns'
    <3>1. "coredns" \notin adrift' => corefile = ZonesOf(file)
      BY <2>0 DEF EdgeInv, Coredns
    <3> QED
      BY <3>1, <2>0, <1>r DEF Coredns, ZonesOf
  <2>4. Nft' /\ Remembered'
    BY <2>0 DEF EdgeInv, Nft, Remembered, IsNoop
  <2> QED
    BY <2>1, <2>2, <2>3, <2>4 DEF EdgeInv
<1>3. CASE HostReboots
  <2>0. /\ kernel' = Table(NoIntent) /\ intent' = NoIntent /\ last' = NoSpec
        /\ running' = Reread
        /\ UNCHANGED <<file, corefile, faults>>
        /\ adrift' = IF corefile = ZonesOf(file) THEN {} ELSE adrift \cap {"coredns"}
    BY <1>3 DEF HostReboots
  <2>1. EdgeTypeOK'
    BY <2>0, <1>t, <1>r, <1>e DEF EdgeInv, EdgeTypeOK, Tables
  <2>2. Dnsmasq' /\ Nft' /\ Remembered'
    BY <2>0, <1>r DEF Dnsmasq, Nft, Remembered
  <2>3. Coredns'
    <3>1. "coredns" \notin adrift' => corefile = ZonesOf(file)
      BY <2>0 DEF EdgeInv, Coredns
    <3> QED
      BY <3>1, <2>0, <1>r DEF Coredns, ZonesOf
  <2> QED
    BY <2>1, <2>2, <2>3 DEF EdgeInv
<1> QED
  BY <1>1, <1>2, <1>3

(* The invariant is inductive. *)
LEMMA EdgeStepInv == EdgeInv /\ [EdgeNext]_edgeVars => EdgeInv'
<1>1. EdgeInv /\ UNCHANGED edgeVars => EdgeInv'
  BY DEF edgeVars, EdgeInv, EdgeTypeOK, Dnsmasq, Coredns, Nft, Remembered, ZonesOf, IsNoop
<1> QED
  BY <1>1, ScopeStep, ZoneStep, RuleStep, QuietStep, RestartStep DEF EdgeNext

(* The invariant holds in every behaviour of the adapters. *)
LEMMA EdgeInvAlways == EdgeSpec => []EdgeInv
BY EdgeInitInv, EdgeStepInv, PTL DEF EdgeSpec

(* The adapters' state has its types in every behaviour. *)
THEOREM EdgeTypeCorrect == EdgeSpec => []EdgeTypeOK
<1>1. EdgeInv => EdgeTypeOK
  BY DEF EdgeInv
<1> QED
  BY <1>1, EdgeInvAlways, PTL

(* A table rendered from maps has each rule as the maps have it. *)
LEMMA TableServes ==
    ASSUME NEW map, IsIntent(map), NEW i \in Rules
    PROVE  InTable(Table(map), i) = map.rule[i]
<1> DEFINE t == Table(map)
<1>1. CASE i \in NatRules
  BY <1>1 DEF InTable, Table
<1>2. CASE i \notin NatRules
  <2>1. i \in Policies /\ map.rule \in [Rules -> Contents] /\ map.order \in Seq(Policies)
    BY <1>2 DEF Rules, IsIntent
  <2>2. /\ Len(t.chains) = Len(map.order)
        /\ \A k \in 1 .. Len(map.order) :
              t.chains[k] = [policy |-> map.order[k], spec |-> map.rule[map.order[k]]]
    BY TableType
  <2> HIDE DEF t
  <2> DEFINE places == {k \in 1 .. Len(t.chains) : t.chains[k].policy = i}
             c == t.chains
             o == map.order
  <2>3. InTable(t, i) = IF places = {} THEN NoSpec ELSE t.chains[CHOOSE k \in places : TRUE].spec
    BY <1>2 DEF InTable
  <2>4. ASSUME NEW k \in places PROVE t.chains[k].spec = map.rule[i]
    <3>1. k \in 1 .. Len(o) /\ c[k].policy = i
      BY <2>2
    <3>2. c[k] = [policy |-> o[k], spec |-> map.rule[o[k]]]
      BY <3>1, <2>2
    <3> HIDE DEF c, o
    <3>3. o[k] = i /\ c[k].spec = map.rule[i]
      BY <3>1, <3>2
    <3> QED
      BY <3>3 DEF c
  <2>5. places = {} => map.rule[i] = NoSpec
    <3>1. SUFFICES ASSUME map.rule[i] # NoSpec PROVE places # {}
      OBVIOUS
    <3>2. PICK k \in 1 .. Len(map.order) : map.order[k] = i
      BY <3>1, <2>1 DEF IsIntent
    <3>3. k \in places
      <4>1. c[k] = [policy |-> o[k], spec |-> map.rule[o[k]]] /\ k \in 1 .. Len(c)
        BY <3>2, <2>2
      <4> HIDE DEF c
      <4>2. c[k].policy = i
        BY <4>1, <3>2
      <4> QED
        BY <4>1, <4>2 DEF c
    <3> QED
      BY <3>3
  <2> HIDE DEF places
  <2>6. places # {} => (CHOOSE k \in places : TRUE) \in places
    OBVIOUS
  <2>7. InTable(t, i) = map.rule[i]
    BY <2>3, <2>4, <2>5, <2>6
  <2> QED
    BY <2>7 DEF t
<1> QED
  BY <1>1, <1>2

(* An "ok" is true unless the backend is adrift (dhcp_dnsmasq, dns_coredns and *)
(* firewall_nftables answer noops "ok" from file or map alone). *)
THEOREM OkMeansServed == EdgeSpec => []OkIsServed
<1>1. EdgeInv => OkIsServed
  <2> SUFFICES ASSUME EdgeInv, last # NoSpec, last.ok, Backend(last.id) \notin adrift
               PROVE  Served(last.id) = last.spec
    BY DEF OkIsServed
  <2>1. last.id \in Files \cup Rules /\ IsNoop(last.id, last.spec)
    BY DEF EdgeInv, EdgeTypeOK, Remembered
  <2>2. CASE last.id \in Files
    BY <2>1, <2>2, EdgeAssumption DEF EdgeInv, Dnsmasq, Coredns, Backend, Served, IsNoop, Files, Rules
  <2>3. CASE last.id \in Rules
    <3>1. last.id \notin Files /\ kernel = Table(intent) /\ IsIntent(intent)
      BY <2>3, EdgeAssumption DEF EdgeInv, EdgeTypeOK, Nft, Backend, Files, Rules
    <3>2. Served(last.id) = intent.rule[last.id]
      BY <2>3, <3>1, TableServes DEF Served
    <3> QED
      BY <2>1, <2>3, <3>2 DEF IsNoop
  <2> QED
    BY <2>1, <2>2, <2>3
<1> QED
  BY <1>1, EdgeInvAlways, PTL

(* A load that succeeds takes in what failed before it. *)
THEOREM EveryLoadHeals == EdgeSpec => []LoadHealsAll
<1>1. EdgeInv => LoadHealsAll
  BY EdgeAssumption DEF EdgeInv, Dnsmasq, Coredns, Backend, LoadHealsAll, Files
<1> QED
  BY <1>1, EdgeInvAlways, PTL

(* An "ok" and a load mean what they seem to, for every backend not adrift. *)
THEOREM EdgeServesWhatItSays == EdgeSpec => []EdgeIsServed
BY OkMeansServed, EveryLoadHeals, PTL DEF EdgeIsServed

(* One step changes what one id's service runs, and nothing else of a backend *)
(* that is not adrift. *)
LEMMA OneServiceChanges ==
    ASSUME EdgeInv, EdgeNext, last' # NoSpec, last' # last,
           NEW i \in Files \cup Rules, Backend(i) \notin adrift, i # last'.id
    PROVE  Served(i)' = Served(i)
<1> DEFINE Quiet == UNCHANGED <<running, kernel>>
<1>q. CASE Quiet
  BY <1>q DEF Served
<1>1. CASE Refuse \/ Noop
  <2>1. Quiet
    BY <1>1 DEF Refuse, Noop
  <2> QED
    BY <2>1, <1>q
<1>2. CASE ApplyScope
  <2>1. PICK j \in Scopes, spec \in Contents, ok \in BOOLEAN :
          /\ file' = [file EXCEPT ![j] = spec]
          /\ running' = IF ok THEN DnsmasqReads(file') ELSE running
          /\ Answers(j, spec, ok) /\ UNCHANGED kernel
    BY <1>2 DEF ApplyScope, Contents
  <2>2. last'.id = j
    BY <2>1 DEF Answers
  <2>3. i \in Scopes => file'[i] = file[i] /\ running[i] = file[i]
    BY <2>1, <2>2 DEF EdgeInv, EdgeTypeOK, Dnsmasq, Backend, Files
  <2>4. i \in Files => running'[i] = running[i]
    BY <2>1, <2>3 DEF DnsmasqReads
  <2> QED
    BY <2>1, <2>4 DEF Served
<1>3. CASE ApplyZone
  <2>1. PICK j \in Zones, spec \in Contents, ok \in BOOLEAN :
          /\ file' = [file EXCEPT ![j] = spec]
          /\ ok => corefile' = ZonesOf(file')
          /\ running' = IF ok THEN CorednsReads(file', corefile') ELSE running
          /\ Answers(j, spec, ok) /\ UNCHANGED kernel
    BY <1>3 DEF ApplyZone, Contents
  <2>2. last'.id = j
    BY <2>1 DEF Answers
  <2>3. i \in Zones => file'[i] = file[i] /\ running[i] = file[i]
    BY <2>1, <2>2, EdgeAssumption DEF EdgeInv, EdgeTypeOK, Coredns, Backend, Files
  <2>4. CASE ~ ok
    BY <2>1, <2>4 DEF Served
  <2>5. CASE ok
    <3>1. running' = CorednsReads(file', corefile') /\ corefile' = ZonesOf(file')
      BY <2>1, <2>5
    <3>2. i \in Zones => running'[i] = file'[i]
      BY <3>1, EdgeAssumption DEF CorednsReads, ZonesOf, Files
    <3>3. i \in Scopes => running'[i] = running[i]
      BY <3>1 DEF CorednsReads, Files
    <3> QED
      BY <2>1, <2>3, <3>2, <3>3 DEF Served, Files
  <2> QED
    BY <2>4, <2>5
<1>4. CASE ApplyRule
  <2>1. PICK j \in Rules, spec \in Contents, ok \in BOOLEAN :
          /\ intent.rule[j] # spec
          /\ intent' = Changed(intent, j, spec)
          /\ kernel' = IF ok THEN Table(intent') ELSE kernel
          /\ Answers(j, spec, ok) /\ UNCHANGED running
    BY <1>4 DEF ApplyRule, IsNoop, Contents, Changed
  <2>2. last'.id = j
    BY <2>1 DEF Answers
  <2>3. CASE i \in Files
    BY <2>1, <2>3 DEF Served
  <2>4. CASE i \notin Files /\ ok
    <3>1. i \in Rules /\ kernel = Table(intent) /\ IsIntent(intent)
      BY <2>4 DEF EdgeInv, EdgeTypeOK, Nft, Backend, Files
    <3>2. IsIntent(intent') /\ intent'.rule[i] = intent.rule[i]
      BY <2>1, <2>2, <3>1, IntentStep
    <3>3. InTable(kernel, i) = intent.rule[i]
      BY <3>1, TableServes
    <3>4. InTable(kernel', i) = intent'.rule[i]
      BY <2>1, <2>4, <3>1, <3>2, TableServes
    <3> QED
      BY <2>4, <3>2, <3>3, <3>4 DEF Served
  <2>5. CASE ~ ok
    BY <2>1, <2>5, <1>q
  <2> QED
    BY <2>3, <2>4, <2>5
<1>5. ~ (AgentRestarts \/ DaemonsRestart \/ HostReboots)
  BY DEF AgentRestarts, DaemonsRestart, HostReboots
<1> QED
  BY <1>1, <1>2, <1>3, <1>4, <1>5 DEF EdgeNext

(* The first chain of a table is that of the first policy of the maps. *)
LEMMA FirstChain ==
    ASSUME NEW map, IsIntent(map)
    PROVE  /\ Table(map).chains \in Seq([policy : Policies, spec : Contents])
           /\ Len(Table(map).chains) = Len(map.order)
           /\ Len(map.order) > 0 =>
                 Table(map).chains[1] = [policy |-> map.order[1], spec |-> map.rule[map.order[1]]]
           /\ map.order \in Seq(Policies)
<1>1. map.order \in Seq(Policies)
  BY DEF IsIntent
<1>2. Len(map.order) > 0 => 1 \in 1 .. Len(map.order)
  BY <1>1
<1>3. Table(map).chains \in Seq([policy : Policies, spec : Contents])
  BY TableType DEF Tables
<1> QED
  BY <1>1, <1>2, <1>3, TableType

(* The packets that are forwarded are decided by the chain that is first in the *)
(* table, and only a step for that policy changes how (adapter.py:188-203). *)
LEMMA FirstStaysFirst ==
    ASSUME EdgeInv, EdgeNext, last' # NoSpec, last' # last
    PROVE  FirstPolicyDecides
<1> SUFFICES ASSUME Deciding(kernel') # Deciding(kernel), "nft" \notin adrift
             PROVE  last'.id = Head(IF kernel.chains = <<>> THEN kernel'.chains ELSE kernel.chains).policy
  BY DEF FirstPolicyDecides
<1>1. kernel' # kernel
  OBVIOUS
<1>2. ApplyRule
  BY <1>1 DEF EdgeNext, Refuse, Noop, ApplyScope, ApplyZone, AgentRestarts, DaemonsRestart, HostReboots
<1>3. PICK i \in Rules, spec \in Contents :
        /\ intent.rule[i] # spec
        /\ intent' = Changed(intent, i, spec)
        /\ kernel' = Table(intent')
        /\ last'.id = i
  BY <1>1, <1>2 DEF ApplyRule, IsNoop, Contents, Answers, Changed
<1> DEFINE o == intent.order
           p == intent'.order
<1>4. /\ kernel = Table(intent) /\ IsIntent(intent) /\ IsIntent(intent')
      /\ p = OrderAfter(intent, i, spec)
      /\ \A j \in Rules : intent'.rule[j] = IF j = i THEN spec ELSE intent.rule[j]
  <2>1. kernel = Table(intent) /\ IsIntent(intent)
    BY DEF EdgeInv, EdgeTypeOK, Nft
  <2> QED
    BY <2>1, <1>3, IntentStep
<1>5. /\ kernel.chains \in Seq([policy : Policies, spec : Contents]) /\ Len(kernel.chains) = Len(o)
      /\ Len(o) > 0 => kernel.chains[1] = [policy |-> o[1], spec |-> intent.rule[o[1]]]
      /\ o \in Seq(Policies)
  BY <1>4, FirstChain
<1>6. /\ kernel'.chains \in Seq([policy : Policies, spec : Contents]) /\ Len(kernel'.chains) = Len(p)
      /\ Len(p) > 0 => kernel'.chains[1] = [policy |-> p[1], spec |-> intent'.rule[p[1]]]
      /\ p \in Seq(Policies)
  BY <1>3, <1>4, FirstChain
<1>7. CASE Len(o) = 0
  <2>1. kernel.chains = <<>> /\ o = <<>>
    BY <1>5, <1>7
  <2>2. Deciding(kernel) = <<>>
    BY <2>1 DEF Deciding
  <2>3. Len(p) > 0
    BY <2>2, <1>6 DEF Deciding
  <2>4. p[1] = i
    <3>1. CASE i \in Policies
      BY <3>1, <1>3, <1>4, <1>7, <2>3, OrderKept
    <3>2. CASE i \notin Policies
      BY <3>2, <1>4, <1>7, <2>3 DEF OrderAfter
    <3> QED
      BY <3>1, <3>2
  <2> QED
    BY <2>1, <2>3, <2>4, <1>3, <1>6
<1>8. CASE Len(o) > 0
  <2>1. /\ kernel.chains # <<>> /\ Head(kernel.chains) = kernel.chains[1]
        /\ o[1] \in Policies /\ o[1] \in Rules
    BY <1>5, <1>8 DEF Rules
  <2>2. SUFFICES ASSUME o[1] # i PROVE FALSE
    BY <2>1, <1>3, <1>5, <1>8
  <2>3. Len(p) > 0 /\ p[1] = o[1]
    <3>1. CASE i \in Policies
      BY <3>1, <2>2, <1>3, <1>4, <1>8, OrderKept
    <3>2. CASE i \notin Policies
      BY <3>2, <1>4, <1>8 DEF OrderAfter
    <3> QED
      BY <3>1, <3>2
  <2>4. kernel'.chains # <<>> /\ kernel'.chains[1] = kernel.chains[1]
    BY <2>1, <2>2, <2>3, <1>4, <1>5, <1>6, <1>8
  <2> QED
    BY <2>1, <2>4 DEF Deciding
<1> QED
  BY <1>7, <1>8, <1>5

(* A step loads and unloads its own service only, and changes how packets are *)
(* forwarded only if it is for the first policy of the node, unless the backend *)
(* is adrift (firewall_nftables renders one table, with one dispatch chain). *)
THEOREM StepsReachNoFurther == EdgeSpec => ReachOfAStep
<1> DEFINE Reach == last' # NoSpec /\ last' # last => OthersKept /\ FirstPolicyDecides
<1>1. EdgeInv /\ EdgeNext => Reach
  BY OneServiceChanges, FirstStaysFirst DEF OthersKept
<1>2. EdgeInv /\ [EdgeNext]_edgeVars => [Reach]_edgeVars
  BY <1>1
<1> QED
  BY <1>2, EdgeInvAlways, PTL DEF EdgeSpec, ReachOfAStep

=============================================================================
