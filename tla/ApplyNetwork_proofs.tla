------------------------- MODULE ApplyNetwork_proofs -------------------------
(***************************************************************************)
(* Theorems about ApplyNetwork, for any number of operations and nodes,    *)
(* any intents, any TTL and any number of failures.                        *)
(***************************************************************************)
EXTENDS ApplyNetwork, TLAPS

USE DEF dbVars, nodeVars, jobVars

-----------------------------------------------------------------------------
(* Types *)

(* The plan the diff engine returns is made of steps the agent knows.        *)
LEMMA PlanType ==
    ASSUME NEW net \in Intents, NEW n \in Nodes, NEW v
    PROVE  DiffForNode(net, n, Members(net), v) \subseteq Steps
<1>1. Members(net) \subseteq Nodes
  BY ApplyAssumption DEF Members, Intents
<1>2. StructuralSteps(net, n, Members(net), v) \subseteq Steps
  BY <1>1 DEF StructuralSteps, Steps, Intents
<1>3. EdgeSteps(net, n) \subseteq Steps
  BY DEF EdgeSteps, Steps, Intents
<1>4. CleanupSteps(v) \subseteq Steps
  BY DEF CleanupSteps, Steps
<1> QED
  BY <1>2, <1>3, <1>4 DEF DiffForNode

(* Executing a step leaves a state OVS can report.                           *)
LEMMA AfterStepType ==
    ASSUME NEW s \in Steps, NEW v \in View
    PROVE  AfterStep(s, v) \in View
<1>1. CASE s.do = "ensure_vxlan_port"
  <2>1. s.peer \in Nodes /\ s.mtu \in Mtus
    BY <1>1 DEF Steps, BridgeStep, DeleteStrayStep, DeleteBridgeStep, TunnelStep, EdgeStep
  <2> QED
    BY <1>1, <2>1 DEF AfterStep, View, Bridges
<1>2. s.do \in {"ensure_bridge", "ensure_vxlan_port", "delete_stray_bridge", "delete_bridge",
               "ensure_edge_services"}
  BY DEF Steps, BridgeStep, DeleteStrayStep, DeleteBridgeStep, TunnelStep, EdgeStep
<1>3. CASE s.do = "ensure_bridge"
  BY <1>3 DEF AfterStep, View, Bridges
<1>4. CASE s.do = "delete_stray_bridge"
  BY <1>4 DEF AfterStep, View
<1>5. CASE s.do = "delete_bridge"
  BY <1>5 DEF AfterStep, View, EmptyView, Bridges
<1>6. CASE s.do = "ensure_edge_services"
  BY <1>6 DEF AfterStep
<1> QED
  BY <1>1, <1>2, <1>3, <1>4, <1>5, <1>6

(* Executing a step leaves edge services somebody asked for.                 *)
LEMMA EdgeAfterStepType ==
    ASSUME NEW s \in Steps, NEW e \in Services \cup {NoService}
    PROVE  EdgeAfterStep(s, e) \in Services \cup {NoService}
BY DEF EdgeAfterStep, IsEdgeStep, Steps, BridgeStep, DeleteStrayStep, DeleteBridgeStep,
   TunnelStep, EdgeStep

(* try_lock and release leave a lock row.                                    *)
LEMMA RowType ==
    ASSUME NEW r \in LockRows, NEW o \in Owners, NEW t \in Nat
    PROVE  AfterTryLock(r, o, t) \in LockRows /\ AfterRelease(r, o) \in LockRows
BY LockAssumption DEF AfterTryLock, AfterRelease, LockRows

(* A failure stays within its bound.                                         *)
LEMMA TroubleType ==
    ASSUME troubles \in 0..MaxTroubles, Trouble \/ UNCHANGED troubles
    PROVE  troubles' \in 0..MaxTroubles
BY ApplyAssumption DEF Trouble

(* The initial states are typed.                                             *)
LEMMA InitType == Init => TypeOK
<1> SUFFICES ASSUME Init PROVE TypeOK
  OBVIOUS
<1>1. intent \in Intents
  BY ApplyAssumption DEF Init
<1>2. EmptyView \in View
  BY DEF EmptyView, View, Bridges
<1> QED
  BY <1>1, <1>2, ApplyAssumption DEF Init, TypeOK, LockRows, Control, Statuses, NoPlans

(* Every step is typed.                                                      *)
LEMMA StepType == TypeOK /\ [Next]_vars => TypeOK'
<1> SUFFICES ASSUME TypeOK, [Next]_vars PROVE TypeOK'
  OBVIOUS
<1> USE ApplyAssumption, LockAssumption DEF TypeOK, Goto, SetStatus, Fail
<1> USE DEF Control, Working, Statuses
<1>1. ASSUME NEW o \in Owners, ReadNetwork(o) PROVE TypeOK'
  BY <1>1 DEF ReadNetwork
<1>2. ASSUME NEW o \in Owners, AskLock(o) PROVE TypeOK'
  BY <1>2 DEF AskLock
<1>3. ASSUME NEW o \in Owners, TakeLock(o) PROVE TypeOK'
  BY <1>3, RowType DEF TakeLock
<1>4. ASSUME NEW o \in Owners, RefuseLock(o) PROVE TypeOK'
  BY <1>4 DEF RefuseLock
<1>5. ASSUME NEW o \in Owners, ReportConflict(o) PROVE TypeOK'
  BY <1>5 DEF ReportConflict, CurrentOwner, LockRows, FreeRow, Live
<1>6. ASSUME NEW o \in Owners, Observe(o) PROVE TypeOK'
  <2>1. views' \in [Owners -> [Nodes -> View \cup {NoView}]]
    <3>1. CASE UNCHANGED views
      BY <3>1
    <3>2. CASE views' = [views EXCEPT ![o][Member(o, at[o] + 1)] = ovs[Member(o, at[o] + 1)]]
               /\ Member(o, at[o] + 1) \in registered
      BY <3>2
    <3> QED
      BY <1>6, <3>1, <3>2 DEF Observe
  <2>2. pc' \in [Owners -> Control] /\ status' \in [Owners -> Statuses]
    BY <1>6 DEF Observe
  <2> QED
    BY <1>6, <2>1, <2>2 DEF Observe
<1>7. ASSUME NEW o \in Owners, SaveObserved(o) PROVE TypeOK'
  <2>1. \A m \in Nodes : PlanFor(o, m, views[o][m]) \subseteq Steps
    BY PlanType DEF PlanFor, SnapMembers
  <2>2. plans' \in [Owners -> [Nodes -> SUBSET Steps]]
    <3>1. CASE plans' = [plans EXCEPT ![o] =
                  [m \in Nodes |-> IF m \in SnapMembers(o)
                                   THEN PlanFor(o, m, views[o][m]) ELSE {}]]
      BY <2>1, <3>1
    <3>2. CASE UNCHANGED plans
      BY <3>2
    <3> QED
      BY <1>7, <3>1, <3>2 DEF SaveObserved
  <2>3. observed' \in [Nodes -> View \cup {NoView}]
    <3>1. CASE UNCHANGED observed
      BY <3>1
    <3>2. CASE observed' = [observed EXCEPT ![Member(o, at[o] + 1)] =
                                views[o][Member(o, at[o] + 1)]]
               /\ Member(o, at[o] + 1) \in registered
      BY <3>2
    <3> QED
      BY <1>7, <3>1, <3>2 DEF SaveObserved
  <2>4. at' \in [Owners -> Nat]
    <3>1. UNCHANGED at \/ at' = [at EXCEPT ![o] = 0] \/ at' = [at EXCEPT ![o] = at[o] + 1]
      BY <1>7 DEF SaveObserved
    <3> QED
      BY <3>1
  <2>5. pc' \in [Owners -> Control] /\ status' \in [Owners -> Statuses]
    BY <1>7 DEF SaveObserved
  <2> QED
    BY <1>7, <2>2, <2>3, <2>4, <2>5 DEF SaveObserved
<1>8. ASSUME NEW o \in Owners, SendPlan(o) PROVE TypeOK'
  <2>1. PICK i \in 1..Len(snap[o].members) :
            /\ call' = [call EXCEPT ![o] = [node  |-> Member(o, i),
                                            steps |-> plans[o][Member(o, i)],
                                            ok    |-> TRUE]]
            /\ at' = [at EXCEPT ![o] = i]
    BY <1>8 DEF SendPlan
  <2>2. Member(o, i) \in Nodes
    BY DEF Member, Intents
  <2>3. call' \in [Owners -> Calls \cup {NoCall}]
    BY <2>1, <2>2 DEF Calls
  <2> QED
    BY <1>8, <2>1, <2>3 DEF SendPlan
<1>9. ASSUME NEW o \in Owners, AgentStep(o) PROVE TypeOK'
  <2>1. PICK s \in call[o].steps, ok \in BOOLEAN, effect \in BOOLEAN :
           /\ IF ok \/ StepImpossible(s, ovs[call[o].node]) THEN UNCHANGED troubles ELSE Trouble
           /\ call' = [call EXCEPT ![o].steps = @ \ {s}, ![o].ok = @ /\ ok]
           /\ IF effect
              THEN /\ ovs' = [ovs EXCEPT ![call[o].node] = AfterStep(s, @)]
                   /\ edge' = [edge EXCEPT ![call[o].node] = EdgeAfterStep(s, @)]
                   /\ Disturb(call[o].node, o)
              ELSE UNCHANGED <<ovs, edge, disturbed>>
    BY <1>9 DEF AgentStep
  <2>2. call[o] \in Calls /\ s \in Steps /\ call[o].node \in Nodes
    BY <1>9 DEF AgentStep, Calls
  <2>3. call' \in [Owners -> Calls \cup {NoCall}]
    BY <2>1, <2>2 DEF Calls
  <2>4. ovs' \in [Nodes -> View] /\ edge' \in [Nodes -> Services \cup {NoService}]
    <3>1. AfterStep(s, ovs[call[o].node]) \in View
          /\ EdgeAfterStep(s, edge[call[o].node]) \in Services \cup {NoService}
      BY <2>2, AfterStepType, EdgeAfterStepType
    <3>2. \/ /\ ovs' = [ovs EXCEPT ![call[o].node] = AfterStep(s, ovs[call[o].node])]
             /\ edge' = [edge EXCEPT ![call[o].node] = EdgeAfterStep(s, edge[call[o].node])]
          \/ UNCHANGED <<ovs, edge>>
      BY <2>1
    <3>3. ovs \in [Nodes -> View] /\ edge \in [Nodes -> Services \cup {NoService}]
      OBVIOUS
    <3> HIDE DEF TypeOK, Control, Working, Statuses
    <3> QED
      BY <2>2, <3>1, <3>2, <3>3
  <2>5. disturbed' \in [Owners -> BOOLEAN]
    <3>1. CASE effect
      <4>1. Disturb(call[o].node, o)
        BY <2>1, <3>1, Zenon
      <4> QED
        BY <4>1 DEF Disturb
    <3>2. CASE ~effect
      BY <2>1, <3>2
    <3> QED
      BY <3>1, <3>2
  <2>6. troubles' \in 0..MaxTroubles
    BY <2>1, TroubleType
  <2> QED
    BY <1>9, <2>3, <2>4, <2>5, <2>6 DEF AgentStep
<1>10. ASSUME NEW o \in Owners, AgentDies(o) PROVE TypeOK'
  BY <1>10, TroubleType DEF AgentDies
<1>11. ASSUME NEW o \in Owners, AgentReply(o) PROVE TypeOK'
  <2>1. pc' \in [Owners -> Control] /\ status' \in [Owners -> Statuses]
    <3>1. \/ pc' = [pc EXCEPT ![o] = "running"] /\ UNCHANGED status
          \/ /\ pc' = [pc EXCEPT ![o] = "failing"]
             /\ status' = [status EXCEPT ![o] = "failed"]
      BY <1>11, Zenon DEF AgentReply
    <3> QED
      BY <3>1
  <2>2. call' \in [Owners -> Calls \cup {NoCall}]
    BY <1>11 DEF AgentReply
  <2> QED
    BY <1>11, <2>1, <2>2 DEF AgentReply
<1>12. ASSUME NEW o \in Owners, CallLost(o) PROVE TypeOK'
  BY <1>12, TroubleType DEF CallLost
<1>13. ASSUME NEW o \in Owners, StartVerify(o) PROVE TypeOK'
  <2>1. pc' \in [Owners -> Control] /\ status' \in [Owners -> Statuses]
    BY <1>13 DEF StartVerify
  <2>2. at' \in [Owners -> Nat]
    <3>1. at' = [at EXCEPT ![o] = 0] \/ at' = at
      BY <1>13, Zenon DEF StartVerify
    <3>2. at \in [Owners -> Nat]
      OBVIOUS
    <3> HIDE DEF TypeOK, Control, Working, Statuses
    <3> QED
      BY <3>1, <3>2
  <2> QED
    BY <1>13, <2>1, <2>2 DEF StartVerify
<1>14. ASSUME NEW o \in Owners, VerifyRead(o) PROVE TypeOK'
  <2>1. PICK i \in 1..Len(snap[o].members) :
            /\ views' = [views EXCEPT ![o][Member(o, i)] = ovs[Member(o, i)]]
            /\ at' = [at EXCEPT ![o] = i]
    BY <1>14 DEF VerifyRead
  <2>2. Member(o, i) \in Nodes
    BY DEF Member, Intents
  <2> QED
    BY <1>14, <2>1, <2>2 DEF VerifyRead
<1>15. ASSUME NEW o \in Owners, VerifySave(o) PROVE TypeOK'
  <2>1. pc' \in [Owners -> Control] /\ status' \in [Owners -> Statuses]
    BY <1>15 DEF VerifySave
  <2>2. observed' \in [Nodes -> View \cup {NoView}]
    <3> DEFINE n == Member(o, at[o])
    <3>1. \/ n \in registered /\ observed' = [observed EXCEPT ![n] = views[o][n]]
          \/ UNCHANGED observed
      BY <1>15, Zenon DEF VerifySave
    <3>2. n \in registered => n \in Nodes /\ views[o][n] \in View \cup {NoView}
      <4> HIDE DEF n
      <4> QED
        OBVIOUS
    <3>3. observed \in [Nodes -> View \cup {NoView}]
      OBVIOUS
    <3> HIDE DEF n
    <3> QED
      BY ONLY <3>1, <3>2, <3>3
  <2> QED
    BY <1>15, <2>1, <2>2 DEF VerifySave
<1>16. ASSUME NEW o \in Owners, SaveSuccess(o) PROVE TypeOK'
  BY <1>16, TroubleType DEF SaveSuccess, Record
<1>17. ASSUME NEW o \in Owners, SaveFailure(o) PROVE TypeOK'
  BY <1>17, TroubleType DEF SaveFailure, Record
<1>18. ASSUME NEW o \in Owners, Publish(o) PROVE TypeOK'
  BY <1>18, TroubleType DEF Publish
<1>19. ASSUME NEW o \in Owners, ReleaseLock(o) PROVE TypeOK'
  BY <1>19, RowType DEF ReleaseLock
<1>20. ASSUME NEW o \in Owners, StepRaises(o) PROVE TypeOK'
  BY <1>20, TroubleType DEF StepRaises
<1>21. ASSUME NEW o \in Owners, Crash(o) PROVE TypeOK'
  BY <1>21, TroubleType DEF Crash
<1>22. CASE EditIntent
  <2>1. intent' \in Intents
    <3>1. PICK m \in Mtus, s \in Services \cup {intent.service, NoService} :
              intent' = [intent EXCEPT !.mtu = m, !.service = s, !.version = @ + 1]
      BY <1>22 DEF EditIntent
    <3>2. intent.version + 1 \in Nat \ {0}
      BY DEF Intents
    <3> QED
      BY <3>1, <3>2 DEF Intents
  <2> QED
    BY <1>22, <2>1, TroubleType DEF EditIntent
<1>23. CASE AssignNodes
  <2>1. intent' \in Intents
    <3>1. PICK ms \in MemberLists :
              intent' = [intent EXCEPT !.members = ms, !.version = @ + 1]
      BY <1>23 DEF AssignNodes
    <3>2. intent.version + 1 \in Nat \ {0}
      BY DEF Intents
    <3> QED
      BY <3>1, <3>2 DEF Intents
  <2> QED
    BY <1>23, <2>1, TroubleType DEF AssignNodes
<1>24. ASSUME NEW n \in Nodes, RemoveNode(n) PROVE TypeOK'
  BY <1>24, TroubleType DEF RemoveNode
<1>25. ASSUME NEW n \in Nodes, Drift(n) PROVE TypeOK'
  BY <1>25, TroubleType DEF Drift, Disturb
<1>26. CASE Tick
  BY <1>26 DEF Tick
<1>27. CASE UNCHANGED vars
  BY <1>27 DEF vars
<1> QED
  BY <1>1, <1>2, <1>3, <1>4, <1>5, <1>6, <1>7, <1>8, <1>9, <1>10, <1>11, <1>12, <1>13, <1>14,
     <1>15, <1>16, <1>17, <1>18, <1>19, <1>20, <1>21, <1>22, <1>23, <1>24, <1>25, <1>26, <1>27
     DEF Next, Proceed

(* Every reachable state of the apply is typed: the tables, the nodes, the   *)
(* calls in flight and the local state of every execution.                   *)
THEOREM ApplyTypeCorrect == Spec => []TypeOK
BY InitType, StepType, PTL DEF Spec

-----------------------------------------------------------------------------
(* The apply implements the lease protocol *)

(* A jump moves one owner of the lease protocol, or none.                    *)
LEMMA PhaseMoves ==
    ASSUME pc \in [Owners -> Control], NEW o \in Owners, NEW label, Goto(o, label)
    PROVE  LeasePhase' = [LeasePhase EXCEPT ![o] = PhaseAt(label)]
BY DEF LeasePhase, Goto

(* A jump among the labels of one phase moves none.                          *)
LEMMA PhaseStays ==
    ASSUME pc \in [Owners -> Control], NEW o \in Owners, NEW label, Goto(o, label),
           PhaseAt(pc[o]) = PhaseAt(label)
    PROVE  LeasePhase' = LeasePhase
BY DEF LeasePhase, Goto

(* The initial states are initial states of the lease protocol.              *)
LEMMA LeaseInitMaps == Init => Lease!LeaseInit
<1> SUFFICES ASSUME Init PROVE Lease!LeaseInit
  OBVIOUS
<1>1. PhaseAt("idle") = "idle"
  BY DEF PhaseAt, Working
<1>2. LeasePhase = [o \in Owners |-> "idle"]
  BY <1>1 DEF LeasePhase, Init
<1> QED
  BY <1>2 DEF Init, Lease!LeaseInit, FreeRow, Lease!FreeRow

(* Every step of the apply is a step of the lease protocol or a stutter.     *)
LEMMA LeaseStepMaps == TypeOK /\ [Next]_vars => [Lease!LeaseNext]_(Lease!leaseVars)
<1> SUFFICES ASSUME TypeOK, [Next]_vars PROVE [Lease!LeaseNext]_(Lease!leaseVars)
  OBVIOUS
<1> DEFINE Stutter == UNCHANGED <<now, row, LeasePhase, asked>>
<1>t. pc \in [Owners -> Control]
  BY DEF TypeOK
<1>a. \A o \in Owners : LeasePhase[o] = PhaseAt(pc[o])
  BY Zenon DEF LeasePhase
<1>b. UNCHANGED pc => UNCHANGED LeasePhase
  BY Zenon DEF LeasePhase
<1>1. ASSUME NEW o \in Owners, ReadNetwork(o) PROVE Stutter
  BY <1>1, <1>t, PhaseStays DEF ReadNetwork, PhaseAt, Working
<1>2. ASSUME NEW o \in Owners, AskLock(o) PROVE Lease!Ask(o)
  <2>1. LeasePhase[o] = "idle"
    BY <1>2, <1>a DEF AskLock, PhaseAt, Working
  <2>2. LeasePhase' = [LeasePhase EXCEPT ![o] = "asking"]
    BY <1>2, <1>t, PhaseMoves DEF AskLock, PhaseAt, Working
  <2> QED
    BY <1>2, <2>1, <2>2, Zenon DEF AskLock, Lease!Ask
<1>3. ASSUME NEW o \in Owners, TakeLock(o) PROVE Lease!Take(o)
  <2>1. Goto(o, "verifying") \/ Goto(o, "planning")
    BY <1>3, Zenon DEF TakeLock
  <2>2. LeasePhase' = [LeasePhase EXCEPT ![o] = "holding"]
    BY <2>1, <1>t, PhaseMoves DEF PhaseAt, Working
  <2>3. LeasePhase[o] = "asking"
    BY <1>3, <1>a DEF TakeLock, PhaseAt, Working
  <2> QED
    BY <1>3, <2>2, <2>3 DEF TakeLock, Lease!Take, Acquires, Lease!Acquires, Live, Lease!Live,
       AfterTryLock, Lease!AfterTryLock
<1>4. ASSUME NEW o \in Owners, RefuseLock(o) PROVE Lease!Refuse(o)
  <2>1. LeasePhase[o] = "asking"
    BY <1>4, <1>a DEF RefuseLock, PhaseAt, Working
  <2>2. LeasePhase' = [LeasePhase EXCEPT ![o] = "refused"]
    BY <1>4, <1>t, PhaseMoves DEF RefuseLock, PhaseAt, Working
  <2> QED
    BY <1>4, <2>1, <2>2 DEF RefuseLock, Lease!Refuse, Acquires, Lease!Acquires, Live, Lease!Live
<1>5. ASSUME NEW o \in Owners, ReportConflict(o) PROVE Stutter
  BY <1>5, <1>t, PhaseStays DEF ReportConflict, PhaseAt, Working
<1>6. ASSUME NEW o \in Owners, NEW label \in Working, pc[o] \in Working, Goto(o, label),
             UNCHANGED <<now, row, asked>>
      PROVE  Stutter
  <2>1. PhaseAt(pc[o]) = "holding" /\ PhaseAt(label) = "holding"
    BY <1>6 DEF PhaseAt, Working
  <2> QED
    BY <1>6, <2>1, <1>t, PhaseStays
<1>7. ASSUME NEW o \in Owners,
             Observe(o) \/ SaveObserved(o) \/ SendPlan(o) \/ AgentReply(o) \/ CallLost(o)
                \/ StartVerify(o) \/ VerifyRead(o) \/ VerifySave(o)
                \/ SaveSuccess(o) \/ SaveFailure(o) \/ Publish(o) \/ StepRaises(o)
      PROVE  Stutter
  <2>1. pc[o] \in Working /\ UNCHANGED <<now, row, asked>>
    BY <1>7 DEF Working, Observe, SaveObserved, SendPlan, AgentReply, CallLost, StartVerify,
       VerifyRead, VerifySave, SaveSuccess, SaveFailure, Record, Publish, StepRaises
  <2>2. \E label \in Working : Goto(o, label)
    <3> SUFFICES \/ Goto(o, "planning") \/ Goto(o, "plan_saving") \/ Goto(o, "running")
                 \/ Goto(o, "awaiting") \/ Goto(o, "verifying") \/ Goto(o, "verify_saving")
                 \/ Goto(o, "failing") \/ Goto(o, "publishing") \/ Goto(o, "releasing")
      BY DEF Working
    <3> QED
      BY <1>7, Zenon DEF Fail, Observe, SaveObserved, SendPlan, AgentReply, CallLost, StartVerify,
         VerifyRead, VerifySave, SaveSuccess, SaveFailure, Record, Publish, StepRaises
  <2> QED
    BY <1>6, <2>1, <2>2
<1>8. ASSUME NEW o \in Owners, ReleaseLock(o) PROVE Lease!Release(o)
  <2>1. LeasePhase[o] = "holding"
    BY <1>8, <1>a DEF ReleaseLock, PhaseAt, Working
  <2>2. LeasePhase' = [LeasePhase EXCEPT ![o] = "done"]
    BY <1>8, <1>t, PhaseMoves DEF ReleaseLock, PhaseAt, Working
  <2> QED
    BY <1>8, <2>1, <2>2 DEF ReleaseLock, Lease!Release, AfterRelease, Lease!AfterRelease,
       FreeRow, Lease!FreeRow
<1>9. ASSUME NEW o \in Owners, Crash(o) PROVE Lease!Die(o)
  <2>1. PhaseAt(pc[o]) \in {"idle", "asking", "holding"}
    BY <1>9 DEF Crash, PhaseAt, Working
  <2>2. LeasePhase' = [LeasePhase EXCEPT ![o] = "crashed"]
    BY <1>9, <1>t, PhaseMoves DEF Crash, PhaseAt, Working
  <2> QED
    BY <1>9, <1>a, <2>1, <2>2 DEF Crash, Lease!Die
<1>10. ASSUME NEW o \in Owners, AgentStep(o) \/ AgentDies(o) PROVE Stutter
  BY <1>10, <1>b, Zenon DEF AgentStep, AgentDies
<1>11. ASSUME EditIntent \/ AssignNodes PROVE Stutter
  BY <1>11, <1>b, Zenon DEF EditIntent, AssignNodes
<1>12. ASSUME NEW n \in Nodes, RemoveNode(n) \/ Drift(n) PROVE Stutter
  BY <1>12, <1>b, Zenon DEF RemoveNode, Drift
<1>13. ASSUME Tick PROVE Lease!Tick
  BY <1>13, <1>b, Zenon DEF Tick, Lease!Tick
<1>14. ASSUME UNCHANGED vars PROVE Stutter
  BY <1>14, <1>b, Zenon DEF vars
<1> QED
  BY <1>1, <1>2, <1>3, <1>4, <1>5, <1>7, <1>8, <1>9, <1>10, <1>11, <1>12, <1>13, <1>14, Zenon
     DEF Next, Proceed, Lease!LeaseNext, Lease!leaseVars

(* The apply implements the lease protocol: every path through execute, the  *)
(* failing ones included, asks for the lock once and gives it back once,     *)
(* after its last write (reconcile.py:138-189).                              *)
THEOREM ApplyUsesLease == Spec => UsesLease
BY InitType, StepType, LeaseInitMaps, LeaseStepMaps, PTL DEF Spec, UsesLease, Lease!LeaseSpec

LeaseTheorems == INSTANCE ApplyLease_proofs WITH phase <- LeasePhase

(* At most one apply of the network works under a lease that has not run     *)
(* out: what ApplyLease promises, carried over by the refinement.            *)
THEOREM OneCurrentApplyAtATime == Spec => []OneCurrentApply
<1> USE LockAssumption, ApplyAssumption
<1>1. Lease!LeaseInit => LeaseTheorems!LeaseInv
  BY LeaseTheorems!LeaseInitInv
     DEF Lease!LeaseInit, LeaseTheorems!LeaseInit, Lease!FreeRow, LeaseTheorems!FreeRow
<1>2. [Lease!LeaseNext]_(Lease!leaseVars) => [LeaseTheorems!LeaseNext]_(LeaseTheorems!leaseVars)
  BY Zenon DEF Lease!LeaseNext, Lease!leaseVars, Lease!Tick, Lease!Ask, Lease!Take, Lease!Refuse,
     Lease!Release, Lease!Die, Lease!Acquires, Lease!AfterTryLock, Lease!AfterRelease, Lease!Live,
     Lease!FreeRow, LeaseTheorems!LeaseNext, LeaseTheorems!leaseVars, LeaseTheorems!Tick,
     LeaseTheorems!Ask, LeaseTheorems!Take, LeaseTheorems!Refuse, LeaseTheorems!Release,
     LeaseTheorems!Die, LeaseTheorems!Acquires, LeaseTheorems!AfterTryLock,
     LeaseTheorems!AfterRelease, LeaseTheorems!Live, LeaseTheorems!FreeRow
<1>3. LeaseTheorems!LeaseInv /\ [LeaseTheorems!LeaseNext]_(LeaseTheorems!leaseVars)
         => LeaseTheorems!LeaseInv'
  BY LeaseTheorems!LeaseStepInv
<1>4. LeaseTheorems!LeaseInv => OneCurrentApply
  BY DEF LeaseTheorems!LeaseInv, LeaseTheorems!LeaseBacked, LeaseTheorems!Current,
     OneCurrentApply, Lease!LeaseExclusive, Lease!Current
<1> QED
  BY <1>1, <1>2, <1>3, <1>4, InitType, StepType, LeaseInitMaps, LeaseStepMaps, PTL DEF Spec

-----------------------------------------------------------------------------
(* A success was verified *)

(* SucceededWasVerified is not inductive: that the loop of _verify may skip  *)
(* the members without a plan rests on what _plan saw of them, and that it   *)
(* may stop at the last plan on what it checked before.  JobOk says how far  *)
(* an execution at each label has got, of its own data alone.                *)
Seen(net, vw, i) == vw[net.members[i]] # NoView
Good(net, vw, i) == Complies(net, net.members[i], vw[net.members[i]])

JobOk(label, net, s, k, vw, pl) ==
    LET all == 1..Len(net.members) IN
    /\ label \in {"idle", "read", "asking"} => k = 0
    /\ label \in {"planning", "plan_saving"} =>
          k < Len(net.members) /\ \A i \in 1..k : Seen(net, vw, i)
    /\ label = "plan_saving" => Seen(net, vw, k + 1)
    /\ label \in {"running", "awaiting", "verifying", "verify_saving"} =>
          \A i \in all : Seen(net, vw, i) /\ (pl[net.members[i]] = {} => Good(net, vw, i))
    /\ label = "verifying" => \A i \in all : i <= k => Good(net, vw, i)
    /\ label = "verify_saving" => k \in all /\ \A i \in all : i < k => Good(net, vw, i)
    /\ s = "succeeded" => /\ label \in {"publishing", "releasing", "done", "crashed"}
                          /\ \A i \in all : Good(net, vw, i)

JobOf(o) == JobOk(pc[o], snap[o], status[o], at[o], views[o], plans[o])

JobInv == TypeOK /\ \A o \in Owners : JobOf(o)

(* A state read from a node that has a plan takes nothing back that was      *)
(* found before: members are listed once.                                    *)
LEMMA RereadKeeps ==
    ASSUME NEW net \in Intents, NEW vw \in [Nodes -> View \cup {NoView}], NEW v \in View,
           NEW i \in 1..Len(net.members)
    PROVE  LET new == [vw EXCEPT ![net.members[i]] = v] IN
           /\ Seen(net, new, i)
           /\ \A j \in 1..Len(net.members) :
                /\ Seen(net, vw, j) => Seen(net, new, j)
                /\ j # i => (Good(net, vw, j) <=> Good(net, new, j))
<1>1. net.members \in Seq(Nodes) /\ v # NoView
  BY ApplyAssumption DEF Intents
<1>2. \A j \in 1..Len(net.members) : net.members[j] \in Nodes
  BY <1>1
<1>3. \A j \in 1..Len(net.members) : j # i => net.members[j] # net.members[i]
  BY <1>1, ApplyAssumption DEF Intents
<1> QED
  BY <1>1, <1>2, <1>3 DEF Seen, Good

(* A member whose plan is empty complies.                                    *)
LEMMA NoPlanComplies ==
    ASSUME NEW net, NEW n, NEW v, v # NoView,
           DiffForNode(net, n, Members(net), v) = {}
    PROVE  Complies(net, n, v)
BY DEF Complies, IsInCompliance

SameJob(o) == UNCHANGED <<pc[o], snap[o], status[o], at[o], views[o], plans[o]>>

(* An execution that does not move keeps what it has found.                  *)
LEMMA SameJobKeeps == ASSUME NEW o \in Owners, JobOf(o), SameJob(o) PROVE JobOf(o)'
BY DEF JobOf, SameJob

(* An execution moves no other.                                              *)
LEMMA OthersStay ==
    ASSUME TypeOK, NEW p \in Owners, ReadNetwork(p) \/ AskLock(p) \/ Proceed(p)
                                        \/ StepRaises(p) \/ Crash(p)
    PROVE  \A o \in Owners \ {p} : SameJob(o)
<1> USE DEF SameJob, Goto, SetStatus, Fail
<1>t. /\ pc \in [Owners -> Control] /\ snap \in [Owners -> Intents]
      /\ status \in [Owners -> Statuses] /\ at \in [Owners -> Nat]
      /\ views \in [Owners -> [Nodes -> View \cup {NoView}]]
      /\ plans \in [Owners -> [Nodes -> SUBSET Steps]]
  BY DEF TypeOK
<1>1. CASE ReadNetwork(p)
  BY <1>1, <1>t DEF ReadNetwork
<1>2. CASE AskLock(p)
  BY <1>2, <1>t DEF AskLock
<1>3. CASE TakeLock(p)
  BY <1>3, <1>t DEF TakeLock
<1>4. CASE RefuseLock(p)
  BY <1>4, <1>t DEF RefuseLock
<1>5. CASE ReportConflict(p)
  BY <1>5, <1>t DEF ReportConflict
<1>6. CASE Observe(p)
  BY <1>6, <1>t DEF Observe
<1>7. CASE SaveObserved(p)
  BY <1>7, <1>t DEF SaveObserved
<1>8. CASE SendPlan(p)
  BY <1>8, <1>t DEF SendPlan
<1>9. CASE AgentReply(p)
  BY <1>9, <1>t DEF AgentReply
<1>10. CASE CallLost(p)
  BY <1>10, <1>t DEF CallLost
<1>11. CASE StartVerify(p)
  BY <1>11, <1>t DEF StartVerify
<1>12. CASE VerifyRead(p)
  BY <1>12, <1>t DEF VerifyRead
<1>13. CASE VerifySave(p)
  BY <1>13, <1>t DEF VerifySave
<1>14. CASE SaveSuccess(p)
  BY <1>14, <1>t DEF SaveSuccess, Record
<1>15. CASE SaveFailure(p)
  BY <1>15, <1>t DEF SaveFailure, Record
<1>16. CASE Publish(p)
  BY <1>16, <1>t DEF Publish
<1>17. CASE ReleaseLock(p)
  BY <1>17, <1>t DEF ReleaseLock
<1>18. CASE StepRaises(p)
  BY <1>18, <1>t DEF StepRaises
<1>19. CASE Crash(p)
  BY <1>19, <1>t DEF Crash
<1> QED
  BY <1>1, <1>2, <1>3, <1>4, <1>5, <1>6, <1>7, <1>8, <1>9, <1>10,
      <1>11, <1>12, <1>13, <1>14, <1>15, <1>16, <1>17, <1>18, <1>19 DEF Proceed

(* The execution that moves keeps JobOk.                                     *)
LEMMA MoverKeeps ==
    ASSUME TypeOK, NEW o \in Owners, JobOf(o),
           ReadNetwork(o) \/ AskLock(o) \/ Proceed(o) \/ StepRaises(o) \/ Crash(o)
    PROVE  JobOf(o)'
<1> DEFINE len == Len(snap[o].members)
           all == 1..len
           M(i) == snap[o].members[i]
<1> USE DEF Goto, SetStatus, Fail, Member
<1>t. /\ pc \in [Owners -> Control] /\ snap \in [Owners -> Intents]
      /\ status \in [Owners -> Statuses] /\ at \in [Owners -> Nat]
      /\ views \in [Owners -> [Nodes -> View \cup {NoView}]]
      /\ plans \in [Owners -> [Nodes -> SUBSET Steps]]
      /\ ovs \in [Nodes -> View]
  BY DEF TypeOK
<1>m. snap[o].members \in Seq(Nodes) /\ len \in Nat /\ \A i \in all : M(i) \in Nodes
  BY <1>t, ApplyAssumption DEF Intents
<1>n. /\ snap[o] \in Intents /\ at[o] \in Nat
      /\ views[o] \in [Nodes -> View \cup {NoView}]
      /\ \A i \in all : ovs[M(i)] \in View
  BY <1>t, <1>m
<1>r. \A i \in all :
         LET new == [views[o] EXCEPT ![M(i)] = ovs[M(i)]] IN
         /\ Seen(snap[o], new, i)
         /\ \A j \in all :
              /\ Seen(snap[o], views[o], j) => Seen(snap[o], new, j)
              /\ j # i => (Good(snap[o], views[o], j) <=> Good(snap[o], new, j))
  BY <1>n, RereadKeeps
<1>s. SnapMembers(o) = {M(i) : i \in all}
  BY <1>m DEF SnapMembers, Members
<1>j. JobOk(pc[o], snap[o], status[o], at[o], views[o], plans[o])
  BY DEF JobOf
<1>1. CASE ReadNetwork(o)
  BY <1>1, <1>t, <1>j DEF ReadNetwork, JobOf, JobOk
<1>2. CASE AskLock(o)
  BY <1>2, <1>t, <1>j DEF AskLock, JobOf, JobOk
<1>3. CASE TakeLock(o)
  <2>1. CASE snap[o].members = <<>>
    BY <1>3, <2>1, <1>t, <1>j DEF TakeLock, JobOf, JobOk
  <2>2. CASE snap[o].members # <<>>
    <3>1. len > 0
      BY <2>2, <1>m
    <3> QED
      BY <1>3, <2>2, <3>1, <1>t, <1>j DEF TakeLock, JobOf, JobOk
  <2> QED
    BY <2>1, <2>2
<1>4. CASE RefuseLock(o) \/ ReportConflict(o)
  BY <1>4, <1>t, <1>j DEF RefuseLock, ReportConflict, JobOf, JobOk
<1>5. CASE Observe(o)
  <2>1. at[o] + 1 \in all /\ pc[o] = "planning"
    BY <1>5, <1>t, <1>j, <1>m DEF Observe, JobOk
  <2>2. CASE Fail(o)
    BY <1>5, <2>2, <1>t, <1>j DEF Observe, JobOf, JobOk
  <2>3. CASE /\ M(at[o] + 1) \in registered
             /\ views' = [views EXCEPT ![o][M(at[o] + 1)] = ovs[M(at[o] + 1)]]
             /\ Goto(o, "plan_saving")
             /\ UNCHANGED <<status, snap, at, plans>>
    <3>1. views[o]' = [views[o] EXCEPT ![M(at[o] + 1)] = ovs[M(at[o] + 1)]]
      BY <2>3, <1>t
    <3>2. /\ Seen(snap[o], views[o]', at[o] + 1)
          /\ \A j \in all : Seen(snap[o], views[o], j) => Seen(snap[o], views[o]', j)
      BY <3>1, <2>1, <1>r
    <3>3. /\ pc[o]' = "plan_saving" /\ status[o]' = status[o] /\ snap[o]' = snap[o]
          /\ at[o]' = at[o] /\ plans[o]' = plans[o]
      BY <2>3, <1>t
    <3>4. at[o] < len /\ \A i \in 1..at[o] : Seen(snap[o], views[o], i)
      BY <2>1, <1>j DEF JobOk
    <3>5. \A i \in 1..at[o] : Seen(snap[o], views[o]', i)
      BY <3>2, <3>4, <1>t, <1>m
    <3>6. status[o] # "succeeded"
      BY <2>1, <1>j DEF JobOk
    <3> QED
      BY <3>2, <3>3, <3>4, <3>5, <3>6 DEF JobOf, JobOk
  <2> QED
    BY <1>5, <2>2, <2>3 DEF Observe
<1>6. CASE SaveObserved(o)
  <2>1. /\ at[o] + 1 \in all /\ pc[o] = "plan_saving" /\ status[o] # "succeeded"
        /\ \A i \in 1..(at[o] + 1) : Seen(snap[o], views[o], i)
    BY <1>6, <1>t, <1>j, <1>m DEF SaveObserved, JobOk
  <2>2. CASE Fail(o)
    BY <1>6, <2>2, <2>1, <1>t DEF SaveObserved, JobOf, JobOk
  <2>3. CASE /\ at[o] + 1 # len
             /\ at' = [at EXCEPT ![o] = @ + 1]
             /\ Goto(o, "planning")
             /\ UNCHANGED <<status, snap, views, plans>>
    BY <2>1, <2>3, <1>t, <1>m DEF JobOf, JobOk
  <2>4. CASE /\ at[o] + 1 = len
             /\ at' = [at EXCEPT ![o] = 0]
             /\ plans' = [plans EXCEPT ![o] =
                   [m \in Nodes |-> IF m \in SnapMembers(o)
                                    THEN PlanFor(o, m, views[o][m]) ELSE {}]]
             /\ Goto(o, "running") /\ SetStatus(o, "running")
             /\ UNCHANGED <<snap, views>>
    <3>1. \A i \in all : Seen(snap[o], views[o], i)
      BY <2>1, <2>4, <1>t
    <3>2. \A i \in all : plans[o]'[M(i)] = PlanFor(o, M(i), views[o][M(i)])
      BY <2>4, <1>t, <1>m, <1>s
    <3>3. \A i \in all : plans[o]'[M(i)] = {} => Good(snap[o], views[o], i)
      BY <3>1, <3>2, NoPlanComplies DEF Seen, Good, PlanFor, SnapMembers
    <3>4. /\ pc[o]' = "running" /\ status[o]' = "running" /\ snap[o]' = snap[o]
          /\ views[o]' = views[o]
      BY <2>4, <1>t
    <3> QED
      BY <3>1, <3>3, <3>4 DEF JobOf, JobOk
  <2> QED
    BY <1>6, <2>1, <2>2, <2>3, <2>4, Zenon DEF SaveObserved
<1>7. CASE SendPlan(o) \/ AgentReply(o) \/ CallLost(o)
  <2>1. /\ UNCHANGED <<snap, views, plans>>
        /\ pc[o] \in {"running", "awaiting"} /\ status[o] # "succeeded"
    BY <1>7, <1>j DEF SendPlan, AgentReply, CallLost, JobOk
  <2>2. \/ Goto(o, "awaiting") /\ UNCHANGED status
        \/ Goto(o, "running") /\ UNCHANGED status
        \/ Fail(o)
    BY <1>7, Zenon DEF SendPlan, AgentReply, CallLost
  <2> QED
    BY <2>1, <2>2, <1>t, <1>j DEF JobOf, JobOk
<1>8. CASE StartVerify(o)
  <2>1. pc[o] = "running" /\ status[o] # "succeeded" /\ UNCHANGED <<snap, views, plans>>
    BY <1>8, <1>j DEF StartVerify, JobOk
  <2>2. \/ Fail(o)
        \/ /\ Goto(o, "verifying") /\ SetStatus(o, "verifying")
           /\ at' = [at EXCEPT ![o] = 0]
    BY <1>8, Zenon DEF StartVerify
  <2>3. CASE Fail(o)
    BY <2>1, <2>3, <1>t DEF JobOf, JobOk
  <2>4. CASE /\ Goto(o, "verifying") /\ SetStatus(o, "verifying")
             /\ at' = [at EXCEPT ![o] = 0]
    BY <2>1, <2>4, <1>t, <1>j, <1>m DEF JobOf, JobOk
  <2> QED
    BY <2>2, <2>3, <2>4
<1>9. CASE VerifyRead(o)
  <2>1. PICK i \in all :
            /\ NextPlanned(o, i)
            /\ views' = [views EXCEPT ![o][M(i)] = ovs[M(i)]]
            /\ at' = [at EXCEPT ![o] = i]
    BY <1>9 DEF VerifyRead
  <2>2. /\ pc[o] = "verifying" /\ status[o] # "succeeded"
        /\ \A j \in all : Seen(snap[o], views[o], j)
        /\ \A j \in all : plans[o][M(j)] = {} => Good(snap[o], views[o], j)
        /\ \A j \in all : j <= at[o] => Good(snap[o], views[o], j)
    BY <1>9, <1>j DEF VerifyRead, JobOk
  <2>3. plans[o][M(i)] # {} /\ \A j \in all : at[o] < j /\ j < i => plans[o][M(j)] = {}
    BY <2>1, <1>n DEF NextPlanned
  <2>4. views[o]' = [views[o] EXCEPT ![M(i)] = ovs[M(i)]]
    BY <2>1, <1>t
  <2>5. \A j \in all :
           /\ Seen(snap[o], views[o], j) => Seen(snap[o], views[o]', j)
           /\ j # i => (Good(snap[o], views[o], j) <=> Good(snap[o], views[o]', j))
    BY <2>4, <1>r
  <2>6. /\ pc[o]' = "verify_saving" /\ status[o]' = status[o] /\ snap[o]' = snap[o]
        /\ at[o]' = i /\ plans[o]' = plans[o]
    <3>1. Goto(o, "verify_saving") /\ UNCHANGED <<status, snap, plans>>
      BY <1>9 DEF VerifyRead
    <3> QED
      BY <2>1, <3>1, <1>t
  <2>7. \A j \in all : j < i => Good(snap[o], views[o]', j)
    <3> SUFFICES ASSUME NEW j \in all, j < i PROVE Good(snap[o], views[o]', j)
      OBVIOUS
    <3>1. at[o] < j => plans[o][M(j)] = {}
      BY <2>3
    <3>2. Good(snap[o], views[o], j)
      BY <2>2, <3>1, <1>n
    <3>3. j # i
      BY <1>n
    <3> QED
      BY <2>5, <3>2, <3>3, Zenon
  <2>8. \A j \in all : plans[o][M(j)] = {} => Good(snap[o], views[o]', j)
    <3> SUFFICES ASSUME NEW j \in all, plans[o][M(j)] = {} PROVE Good(snap[o], views[o]', j)
      OBVIOUS
    <3>1. j # i /\ Good(snap[o], views[o], j)
      BY <2>2, <2>3
    <3> QED
      BY <2>5, <3>1, Zenon
  <2>9. \A j \in all : Seen(snap[o], views[o]', j)
    BY <2>2, <2>5, Zenon
  <2> HIDE DEF Member, Goto, SetStatus, Fail
  <2> QED
    BY <2>1, <2>2, <2>6, <2>7, <2>8, <2>9 DEF JobOf, JobOk
<1>10. CASE VerifySave(o)
  <2>1. /\ pc[o] = "verify_saving" /\ status[o] # "succeeded" /\ at[o] \in all
        /\ UNCHANGED <<snap, at, views, plans>>
    BY <1>10, <1>j DEF VerifySave, JobOk
  <2>2. CASE Fail(o)
    BY <2>1, <2>2, <1>t DEF JobOf, JobOk
  <2>3. CASE /\ Goto(o, "verifying") /\ UNCHANGED status
             /\ IsInCompliance(snap[o], M(at[o]), SnapMembers(o), views[o][M(at[o])])
    <3>1. Good(snap[o], views[o], at[o])
      BY <2>1, <2>3, <1>j DEF JobOk, Good, Seen, Complies, SnapMembers
    <3>2. \A i \in all : i <= at[o] => Good(snap[o], views[o], i)
      BY <3>1, <2>1, <1>j, <1>t, <1>m DEF JobOk
    <3> QED
      BY <2>1, <2>3, <3>2, <1>j, <1>t DEF JobOf, JobOk
  <2> QED
    BY <1>10, <2>2, <2>3, Zenon DEF VerifySave
<1>11. CASE SaveSuccess(o)
  <2>1. \A i \in all : Good(snap[o], views[o], i)
    <3>1. /\ \A i \in all : plans[o][M(i)] = {} => Good(snap[o], views[o], i)
          /\ \A i \in all : i <= at[o] => Good(snap[o], views[o], i)
      BY <1>11, <1>j DEF SaveSuccess, JobOk
    <3>2. \A i \in (at[o] + 1)..len : plans[o][M(i)] = {}
      BY <1>11 DEF SaveSuccess, NoPlanLeft
    <3> SUFFICES ASSUME NEW i \in all PROVE Good(snap[o], views[o], i)
      OBVIOUS
    <3>3. i <= at[o] \/ i \in (at[o] + 1)..len
      BY <1>n, <1>m
    <3> QED
      BY <3>1, <3>2, <3>3, Zenon
  <2>2. /\ SetStatus(o, "succeeded") /\ UNCHANGED <<snap, at, views, plans>>
        /\ Goto(o, "publishing") \/ Goto(o, "releasing")
    BY <1>11, Zenon DEF SaveSuccess, Record
  <2> QED
    BY <2>1, <2>2, <1>t DEF JobOf, JobOk
<1>12. CASE SaveFailure(o)
  <2>1. /\ SetStatus(o, "failed") /\ UNCHANGED <<snap, at, views, plans>>
        /\ Goto(o, "publishing") \/ Goto(o, "releasing")
    BY <1>12, Zenon DEF SaveFailure, Record
  <2> QED
    BY <2>1, <1>t DEF JobOf, JobOk
<1>13. CASE Publish(o) \/ ReleaseLock(o) \/ Crash(o)
  <2>1. /\ UNCHANGED <<snap, status, at, views, plans>>
        /\ Goto(o, "releasing") \/ Goto(o, "done") \/ Goto(o, "crashed")
    BY <1>13, Zenon DEF Publish, ReleaseLock, Crash
  <2> QED
    BY <2>1, <1>t, <1>j DEF JobOf, JobOk
<1>14. CASE StepRaises(o)
  BY <1>14, <1>t DEF StepRaises, JobOf, JobOk
<1> QED
  BY <1>1, <1>2, <1>3, <1>4, <1>5, <1>6, <1>7, <1>8, <1>9, <1>10, <1>11, <1>12, <1>13, <1>14
     DEF Proceed

(* JobInv is inductive.                                                      *)
LEMMA JobStep == JobInv /\ [Next]_vars => JobInv'
<1> SUFFICES ASSUME JobInv, [Next]_vars PROVE JobInv'
  OBVIOUS
<1>1. TypeOK'
  BY StepType DEF JobInv
<1>2. ASSUME NEW p \in Owners, ReadNetwork(p) \/ AskLock(p) \/ Proceed(p)
                                  \/ StepRaises(p) \/ Crash(p)
      PROVE  JobInv'
  BY <1>1, <1>2, OthersStay, MoverKeeps, SameJobKeeps DEF JobInv
<1>3. ASSUME UNCHANGED jobVars PROVE JobInv'
  BY <1>1, <1>3, SameJobKeeps DEF JobInv, SameJob
<1>4. CASE \E p \in Owners : AgentStep(p) \/ AgentDies(p)
  BY <1>4, <1>3 DEF AgentStep, AgentDies
<1>5. CASE EditIntent \/ AssignNodes \/ Tick
  BY <1>5, <1>3 DEF EditIntent, AssignNodes, Tick
<1>6. CASE \E n \in Nodes : RemoveNode(n) \/ Drift(n)
  BY <1>6, <1>3 DEF RemoveNode, Drift
<1>7. CASE UNCHANGED vars
  BY <1>7, <1>3 DEF vars
<1> QED
  BY <1>2, <1>4, <1>5, <1>6, <1>7 DEF Next

(* An operation ends SUCCEEDED only if it saw every member comply with the   *)
(* intent it works on, whatever happens to the network, the nodes and the    *)
(* other operations meanwhile (planner.py:64, reconcile.py:327).             *)
THEOREM SuccessWasVerified == Spec => []SucceededWasVerified
<1>1. Init => JobInv
  <2> SUFFICES ASSUME Init, NEW o \in Owners PROVE JobOf(o)
    BY InitType DEF JobInv
  <2> QED
    BY DEF Init, JobOf, JobOk
<1>2. JobInv => SucceededWasVerified
  <2> SUFFICES ASSUME JobInv, NEW o \in Owners, status[o] = "succeeded",
                      NEW n \in SnapMembers(o)
               PROVE  Complies(snap[o], n, views[o][n])
    BY DEF SucceededWasVerified
  <2>1. snap[o].members \in Seq(Nodes)
    BY ApplyAssumption DEF JobInv, TypeOK, Intents
  <2>2. PICK i \in 1..Len(snap[o].members) : n = snap[o].members[i]
    BY <2>1 DEF SnapMembers, Members
  <2> QED
    BY <2>2 DEF JobInv, JobOf, JobOk, Good
<1> QED
  BY <1>1, <1>2, JobStep, PTL DEF Spec

-----------------------------------------------------------------------------
(* A published outcome is saved *)

(* Inductive: nothing is published before the row is written, and no row is  *)
(* written after something is published.                                     *)
OutcomeOk(label, s, row_, event) ==
    /\ event # "none" => label \in {"releasing", "done", "crashed"}
    /\ label = "publishing" => s \in {"succeeded", "failed"} /\ row_ = s
    /\ event = "applied" => row_ = "succeeded"
    /\ event = "apply_failed" => row_ = "failed"

OutcomeOf(o) == OutcomeOk(pc[o], status[o], saved[o], published[o])

OutcomeInv == TypeOK /\ \A o \in Owners : OutcomeOf(o)

(* Recording moves one operation, from a row to its event.                   *)
LEMMA RecordKeeps ==
    ASSUME OutcomeInv, TypeOK', NEW p \in Owners, NEW result \in {"succeeded", "failed"},
           Record(p, result), pc[p] \in {"verifying", "failing"}
    PROVE  OutcomeInv'
<1> USE DEF Goto, SetStatus
<1>t. /\ pc \in [Owners -> Control] /\ status \in [Owners -> Statuses]
      /\ saved \in [Owners -> {"none", "succeeded", "failed"}]
  BY DEF OutcomeInv, TypeOK
<1>1. UNCHANGED published /\ status' = [status EXCEPT ![p] = result]
  BY DEF Record
<1>2. \/ pc' = [pc EXCEPT ![p] = "publishing"] /\ saved' = [saved EXCEPT ![p] = result]
      \/ pc' = [pc EXCEPT ![p] = "releasing"]
         /\ (saved' = saved \/ saved' = [saved EXCEPT ![p] = result])
  BY DEF Record
<1>3. ASSUME NEW o \in Owners PROVE OutcomeOf(o)'
  BY <1>t, <1>1, <1>2 DEF OutcomeInv, OutcomeOf, OutcomeOk
<1> QED
  BY <1>3 DEF OutcomeInv

(* OutcomeInv is inductive.                                                  *)
LEMMA OutcomeStep == OutcomeInv /\ [Next]_vars => OutcomeInv'
<1> SUFFICES ASSUME OutcomeInv, [Next]_vars PROVE OutcomeInv'
  OBVIOUS
<1> USE DEF Goto, SetStatus, Fail
<1>0. TypeOK'
  BY StepType DEF OutcomeInv
<1>t. /\ pc \in [Owners -> Control] /\ status \in [Owners -> Statuses]
      /\ published \in [Owners -> {"none", "applied", "apply_failed"}]
  BY DEF OutcomeInv, TypeOK
<1>1. ASSUME NEW p \in Owners, NEW label \in Control, NEW s \in Statuses,
             pc' = [pc EXCEPT ![p] = label], status' = [status EXCEPT ![p] = s],
             pc[p] \notin {"releasing", "done", "crashed"}, label # "publishing",
             UNCHANGED <<saved, published>>
      PROVE  OutcomeInv'
  <2> SUFFICES ASSUME NEW o \in Owners PROVE OutcomeOf(o)'
    BY <1>0 DEF OutcomeInv
  <2> QED
    BY <1>1, <1>t DEF OutcomeInv, OutcomeOf, OutcomeOk
<1>2. ASSUME UNCHANGED <<pc, status, saved, published>> PROVE OutcomeInv'
  BY <1>0, <1>2 DEF OutcomeInv, OutcomeOf
<1>3. ASSUME NEW p \in Owners,
             ReadNetwork(p) \/ AskLock(p) \/ TakeLock(p) \/ RefuseLock(p) \/ ReportConflict(p)
                \/ Observe(p) \/ SaveObserved(p) \/ SendPlan(p) \/ AgentReply(p) \/ CallLost(p)
                \/ StartVerify(p) \/ VerifyRead(p) \/ VerifySave(p) \/ StepRaises(p)
      PROVE  OutcomeInv'
  <2>1. UNCHANGED <<saved, published>> /\ pc[p] \notin {"releasing", "done", "crashed"}
    BY <1>3 DEF ReadNetwork, AskLock, TakeLock, RefuseLock, ReportConflict, Observe,
       SaveObserved, SendPlan, AgentReply, CallLost, StartVerify, VerifyRead, VerifySave, StepRaises
  <2>2. \E label \in Control \ {"publishing"} : pc' = [pc EXCEPT ![p] = label]
    <3> SUFFICES \/ Goto(p, "read") \/ Goto(p, "asking") \/ Goto(p, "conflict")
                 \/ Goto(p, "rejected") \/ Goto(p, "planning") \/ Goto(p, "plan_saving")
                 \/ Goto(p, "running") \/ Goto(p, "awaiting") \/ Goto(p, "verifying")
                 \/ Goto(p, "verify_saving") \/ Goto(p, "failing")
      BY DEF Control, Working
    <3> QED
      BY <1>3, Zenon DEF ReadNetwork, AskLock, TakeLock, RefuseLock, ReportConflict, Observe,
         SaveObserved, SendPlan, AgentReply, CallLost, StartVerify, VerifyRead, VerifySave,
         StepRaises
  <2>3. \E s \in Statuses : status' = [status EXCEPT ![p] = s]
    <3>1. \/ UNCHANGED status \/ SetStatus(p, "planning") \/ SetStatus(p, "running")
          \/ SetStatus(p, "verifying") \/ SetStatus(p, "failed")
      BY <1>3, Zenon DEF ReadNetwork, AskLock, TakeLock, RefuseLock, ReportConflict, Observe,
         SaveObserved, SendPlan, AgentReply, CallLost, StartVerify, VerifyRead, VerifySave,
         StepRaises
    <3>2. UNCHANGED status => status' = [status EXCEPT ![p] = status[p]] /\ status[p] \in Statuses
      BY <1>t
    <3> QED
      BY <3>1, <3>2 DEF Statuses
  <2> QED
    BY <1>1, <2>1, <2>2, <2>3
<1>4. ASSUME NEW p \in Owners, SaveSuccess(p) \/ SaveFailure(p) PROVE OutcomeInv'
  BY <1>0, <1>4, RecordKeeps DEF SaveSuccess, SaveFailure
<1>5. ASSUME NEW p \in Owners, Publish(p) PROVE OutcomeInv'
  <2> SUFFICES ASSUME NEW o \in Owners PROVE OutcomeOf(o)'
    BY <1>0 DEF OutcomeInv
  <2>1. /\ pc[p] = "publishing" /\ pc' = [pc EXCEPT ![p] = "releasing"]
        /\ UNCHANGED <<status, saved>>
        /\ \/ published' = published
           \/ published' = [published EXCEPT ![p] =
                  IF status[p] = "succeeded" THEN "applied" ELSE "apply_failed"]
    BY <1>5 DEF Publish
  <2> QED
    BY <2>1, <1>t DEF OutcomeInv, OutcomeOf, OutcomeOk
<1>6. ASSUME NEW p \in Owners, ReleaseLock(p) \/ Crash(p) PROVE OutcomeInv'
  <2> SUFFICES ASSUME NEW o \in Owners PROVE OutcomeOf(o)'
    BY <1>0 DEF OutcomeInv
  <2>1. /\ pc' = [pc EXCEPT ![p] = "done"] \/ pc' = [pc EXCEPT ![p] = "crashed"]
        /\ UNCHANGED <<status, saved, published>>
    BY <1>6, Zenon DEF ReleaseLock, Crash
  <2> QED
    BY <2>1, <1>t DEF OutcomeInv, OutcomeOf, OutcomeOk
<1>7. CASE \E p \in Owners : AgentStep(p) \/ AgentDies(p)
  BY <1>7, <1>2 DEF AgentStep, AgentDies
<1>8. CASE EditIntent \/ AssignNodes \/ Tick
  BY <1>8, <1>2 DEF EditIntent, AssignNodes, Tick
<1>9. CASE \E n \in Nodes : RemoveNode(n) \/ Drift(n)
  BY <1>9, <1>2 DEF RemoveNode, Drift
<1>10. CASE UNCHANGED vars
  BY <1>10, <1>2 DEF vars
<1> QED
  BY <1>3, <1>4, <1>5, <1>6, <1>7, <1>8, <1>9, <1>10, Zenon DEF Next, Proceed

(* Whatever save or publish fails and wherever the replica dies, an outbox   *)
(* event tells the outcome the operations table has (reconcile.py:164, 183). *)
THEOREM PublishedIsSaved == Spec => []PublishedOutcomeIsSaved
<1>1. Init => OutcomeInv
  <2> SUFFICES ASSUME Init, NEW o \in Owners PROVE OutcomeOf(o)
    BY InitType DEF OutcomeInv
  <2> QED
    BY DEF Init, OutcomeOf, OutcomeOk
<1>2. OutcomeInv => PublishedOutcomeIsSaved
  BY DEF OutcomeInv, OutcomeOf, OutcomeOk, PublishedOutcomeIsSaved
<1> QED
  BY <1>1, <1>2, OutcomeStep, PTL DEF Spec

-----------------------------------------------------------------------------
(* An undisturbed success converged *)

(* What an execution read is what is there, as long as nobody else touched   *)
(* its nodes: its own agent works only while it waits for the answer, and    *)
(* then only on the node it sent a plan to.  HereOk says so for each label,  *)
(* and follows the edge step, which no verification reads, from the plan of  *)
(* the first member through the agent's call to the node.                    *)
Fresh(net, vw, here, i) == vw[net.members[i]] = here[net.members[i]]

Serves(net, served) ==
    net.members # <<>> /\ net.service # NoService => served[net.members[1]] = net.service

PlansServe(net, pl) ==
    \A i \in 1..Len(net.members) :
        /\ EdgeSteps(net, net.members[i]) \subseteq pl[net.members[i]]
        /\ \A s \in pl[net.members[i]] : IsEdgeStep(s) => s.service = net.service

(* Whose call an agent may be executing.                                     *)
CallOk(label, net, s, k, pl, c) ==
    /\ label \in {"idle", "read", "asking", "planning", "plan_saving", "running",
                  "verifying", "verify_saving"} => c = NoCall
    /\ s = "succeeded" => c = NoCall
    /\ label \in {"running", "awaiting"} => PlansServe(net, pl)
    /\ label = "awaiting" =>
          /\ k \in 1..Len(net.members) /\ pl[net.members[k]] # {}
          /\ c # NoCall => c.node = net.members[k] /\ c.steps \subseteq pl[net.members[k]]

HereOk(label, net, s, k, vw, pl, c, here, served) ==
    LET all == 1..Len(net.members) IN
    /\ label = "planning" => \A i \in 1..k : Fresh(net, vw, here, i)
    /\ label = "plan_saving" => \A i \in 1..(k + 1) : Fresh(net, vw, here, i)
    /\ label \in {"running", "awaiting", "verifying", "verify_saving"} =>
          \A i \in all : pl[net.members[i]] = {} => Fresh(net, vw, here, i)
    /\ label = "running" /\ k > 0 => Serves(net, served)
    /\ label = "awaiting" /\ k > 1 => Serves(net, served)
    /\ label = "awaiting" /\ k = 1 /\ c # NoCall /\ c.ok =>
          Serves(net, served) \/ EdgeStep(net.service) \in c.steps
    /\ label \in {"verifying", "verify_saving"} =>
          Serves(net, served) /\ \A i \in all : i <= k => Fresh(net, vw, here, i)
    /\ s = "succeeded" => Serves(net, served) /\ \A i \in all : Fresh(net, vw, here, i)

CallOf(o) == CallOk(pc[o], snap[o], status[o], at[o], plans[o], call[o])

HereOf(o) ==
    ~ disturbed[o] /\ pc[o] \in Working =>
        HereOk(pc[o], snap[o], status[o], at[o], views[o], plans[o], call[o], ovs, edge)

HereInv == JobInv /\ \A o \in Owners : CallOf(o) /\ HereOf(o)

(* A plan asks for the edge services of the intent, at the first member.     *)
LEMMA PlanServes ==
    ASSUME NEW net, NEW n \in Members(net), NEW peers, NEW v
    PROVE  /\ EdgeSteps(net, n) \subseteq DiffForNode(net, n, peers, v)
           /\ \A s \in DiffForNode(net, n, peers, v) : IsEdgeStep(s) => s.service = net.service
<1>1. \A s \in EdgeSteps(net, n) : s.service = net.service
  BY DEF EdgeSteps, EdgeStep
<1>2. \A s \in StructuralSteps(net, n, peers, v) : ~ IsEdgeStep(s)
  BY DEF StructuralSteps, IsEdgeStep, BridgeStep, TunnelStep, DeleteStrayStep
<1> QED
  BY <1>1, <1>2 DEF DiffForNode

(* Where no plan is due to the first member, no edge services are asked for. *)
LEMMA NoPlanNoService ==
    ASSUME NEW net, NEW pl, PlansServe(net, pl), NEW served, Len(net.members) \in Nat,
           net.members # <<>> => 1 \in 1..Len(net.members) /\ pl[net.members[1]] = {}
    PROVE  Serves(net, served)
BY DEF PlansServe, Serves, EdgeSteps, IsEdgeNode

(* The execution that moves keeps CallOk, ... *)
LEMMA MoverKeepsCall ==
    ASSUME TypeOK, NEW o \in Owners, JobOf(o), CallOf(o),
           ReadNetwork(o) \/ AskLock(o) \/ Proceed(o) \/ StepRaises(o) \/ Crash(o)
    PROVE  CallOf(o)'
<1> USE DEF Goto, SetStatus, Fail, CallOf, CallOk
<1>t. /\ pc \in [Owners -> Control] /\ snap \in [Owners -> Intents]
      /\ status \in [Owners -> Statuses] /\ at \in [Owners -> Nat]
      /\ plans \in [Owners -> [Nodes -> SUBSET Steps]]
      /\ call \in [Owners -> Calls \cup {NoCall}]
  BY DEF TypeOK
<1>m. snap[o].members \in Seq(Nodes)
  BY <1>t, ApplyAssumption DEF Intents
<1>1. CASE ReadNetwork(o)
  BY <1>1, <1>t DEF ReadNetwork
<1>2. CASE AskLock(o) \/ RefuseLock(o) \/ ReportConflict(o) \/ TakeLock(o)
  BY <1>2, <1>t DEF AskLock, RefuseLock, ReportConflict, TakeLock
<1>3. CASE Observe(o)
  BY <1>3, <1>t DEF Observe
<1>4. CASE SaveObserved(o)
  <2>1. CASE pc'[o] = "running"
    <3>1. plans'[o] = [m \in Nodes |-> IF m \in SnapMembers(o)
                                       THEN PlanFor(o, m, views[o][m]) ELSE {}]
      BY <1>4, <2>1, <1>t DEF SaveObserved
    <3>2. \A i \in 1..Len(snap[o].members) :
            snap[o].members[i] \in Nodes /\ snap[o].members[i] \in SnapMembers(o)
      BY <1>m DEF SnapMembers, Members
    <3>3. PlansServe(snap[o], plans'[o])
      BY <3>1, <3>2, PlanServes DEF PlansServe, PlanFor, SnapMembers
    <3> QED
      BY <1>4, <2>1, <3>3, <1>t DEF SaveObserved
  <2>2. CASE pc'[o] # "running"
    BY <1>4, <2>2, <1>t DEF SaveObserved
  <2> QED
    BY <2>1, <2>2
<1>5. CASE SendPlan(o)
  <2>1. PICK i \in 1..Len(snap[o].members) :
          /\ NextPlanned(o, i)
          /\ call' = [call EXCEPT ![o] = [node |-> Member(o, i), steps |-> plans[o][Member(o, i)],
                                          ok |-> TRUE]]
          /\ at' = [at EXCEPT ![o] = i]
    BY <1>5 DEF SendPlan
  <2>2. plans[o][snap[o].members[i]] # {}
    BY <2>1 DEF NextPlanned, Member
  <2>3. /\ call'[o] = [node |-> snap[o].members[i], steps |-> plans[o][snap[o].members[i]], ok |-> TRUE]
        /\ at'[o] = i /\ pc'[o] = "awaiting" /\ pc[o] = "running"
        /\ UNCHANGED <<snap, status, plans>>
    BY <2>1, <1>5, <1>t DEF SendPlan, Member
  <2>4. status[o] # "succeeded"
    BY <2>3 DEF JobOf, JobOk
  <2> QED
    BY <2>2, <2>3, <2>4
<1>6. CASE AgentReply(o) \/ CallLost(o)
  BY <1>6, <1>t DEF AgentReply, CallLost, JobOf, JobOk
<1>7. CASE StartVerify(o) \/ VerifyRead(o) \/ VerifySave(o)
  BY <1>7, <1>t DEF StartVerify, VerifyRead, VerifySave
<1>8. CASE SaveSuccess(o) \/ SaveFailure(o)
  BY <1>8, <1>t DEF SaveSuccess, SaveFailure, Record
<1>9. CASE Publish(o) \/ ReleaseLock(o)
  BY <1>9, <1>t DEF Publish, ReleaseLock
<1>10. CASE StepRaises(o) \/ Crash(o)
  BY <1>10, <1>t DEF StepRaises, Crash, Working
<1> QED
  BY <1>1, <1>2, <1>3, <1>4, <1>5, <1>6, <1>7, <1>8, <1>9, <1>10 DEF Proceed

(* ... and what it read is what is there. *)
LEMMA MoverKeepsHere ==
    ASSUME TypeOK, NEW o \in Owners, JobOf(o), CallOf(o), HereOf(o),
           ReadNetwork(o) \/ AskLock(o) \/ Proceed(o) \/ StepRaises(o) \/ Crash(o)
    PROVE  HereOf(o)'
<1> USE DEF Goto, SetStatus, Fail
<1>t. /\ pc \in [Owners -> Control] /\ snap \in [Owners -> Intents]
      /\ status \in [Owners -> Statuses] /\ at \in [Owners -> Nat]
      /\ views \in [Owners -> [Nodes -> View \cup {NoView}]]
      /\ plans \in [Owners -> [Nodes -> SUBSET Steps]]
      /\ call \in [Owners -> Calls \cup {NoCall}]
      /\ ovs \in [Nodes -> View] /\ edge \in [Nodes -> Services \cup {NoService}]
      /\ disturbed \in [Owners -> BOOLEAN]
  BY DEF TypeOK
<1>m. /\ snap[o].members \in Seq(Nodes) /\ Len(snap[o].members) \in Nat /\ at[o] \in Nat
      /\ DOMAIN snap[o].members = 1..Len(snap[o].members)
      /\ \A i \in 1..Len(snap[o].members) : snap[o].members[i] \in Nodes
      /\ \A i, j \in 1..Len(snap[o].members) : snap[o].members[i] = snap[o].members[j] => i = j
  <2>1. snap[o].members \in MemberLists
    BY <1>t DEF Intents
  <2> QED
    BY <2>1, <1>t, ApplyAssumption
<1>u. UNCHANGED <<ovs, edge, disturbed>>
  BY DEF ReadNetwork, AskLock, Proceed, StepRaises, Crash, TakeLock, RefuseLock, ReportConflict,
     Observe, SaveObserved, SendPlan, AgentReply, CallLost, StartVerify, VerifyRead, VerifySave,
     SaveSuccess, SaveFailure, Record, Publish, ReleaseLock
<1> DEFINE Here == HereOk(pc[o], snap[o], status[o], at[o], views[o], plans[o], call[o], ovs, edge)
<1>s. SUFFICES ASSUME ~ disturbed[o], pc'[o] \in Working,
                      pc[o] \in Working => Here
               PROVE  HereOk(pc'[o], snap'[o], status'[o], at'[o], views'[o], plans'[o], call'[o], ovs, edge)
  BY <1>u DEF HereOf
<1> HIDE DEF Here
<1>w. "planning" \in Working /\ "plan_saving" \in Working /\ "running" \in Working
      /\ "awaiting" \in Working /\ "verifying" \in Working /\ "verify_saving" \in Working
      /\ "failing" \in Working /\ "publishing" \in Working /\ "releasing" \in Working
      /\ "idle" \notin Working /\ "read" \notin Working /\ "asking" \notin Working
      /\ "conflict" \notin Working /\ "rejected" \notin Working /\ "done" \notin Working
      /\ "crashed" \notin Working
  BY DEF Working
\* Failed executions promise nothing.
<1>f. ASSUME pc'[o] \in {"failing", "publishing", "releasing"}, status'[o] # "succeeded"
      PROVE  HereOk(pc'[o], snap'[o], status'[o], at'[o], views'[o], plans'[o], call'[o], ovs, edge)
  BY <1>f DEF HereOk
<1>1. CASE ReadNetwork(o) \/ AskLock(o) \/ RefuseLock(o) \/ ReportConflict(o) \/ Crash(o) \/ ReleaseLock(o)
  BY <1>1, <1>s, <1>w, <1>t DEF ReadNetwork, AskLock, RefuseLock, ReportConflict, Crash, ReleaseLock
<1>2. CASE TakeLock(o)
  <2>1. /\ pc[o] = "asking" /\ at[o] = 0 /\ status[o] # "succeeded"
        /\ UNCHANGED <<snap, at, views, plans, call>>
    BY <1>2 DEF TakeLock, JobOf, JobOk
  <2>2. /\ status'[o] # "succeeded"
        /\ \/ snap[o].members = <<>> /\ pc'[o] = "verifying"
           \/ snap[o].members # <<>> /\ pc'[o] = "planning"
    BY <1>2, <1>t DEF TakeLock
  <2>3. CASE pc'[o] = "planning"
    BY <2>1, <2>3, <2>2 DEF HereOk
  <2>4. CASE snap[o].members = <<>> /\ pc'[o] = "verifying"
    <3>1. 1..Len(snap[o].members) = {}
      BY <2>4
    <3> QED
      BY <2>1, <2>2, <2>4, <3>1 DEF HereOk, Serves
  <2> QED
    BY <2>2, <2>3, <2>4
<1>3. CASE Observe(o)
  <2>1. /\ pc[o] = "planning" /\ status[o] # "succeeded" /\ at[o] < Len(snap[o].members)
        /\ UNCHANGED <<snap, at, plans, call>>
    BY <1>3 DEF Observe, JobOf, JobOk
  <2> DEFINE n == snap[o].members[at[o] + 1]
  <2>2. CASE views' = [views EXCEPT ![o][n] = ovs[n]] /\ pc'[o] = "plan_saving" /\ status' = status
    <3>0. at[o] + 1 \in 1..Len(snap[o].members) /\ n \in Nodes
      BY <2>1, <1>t, <1>m
    <3>1. views'[o] = [views[o] EXCEPT ![n] = ovs[n]]
      BY <2>2, <1>t
    <3>2. \A i \in 1..at[o] : Fresh(snap[o], views[o], ovs, i)
      BY <2>1, <1>s, <1>w DEF Here, HereOk
    <3>3. \A i \in 1..(at[o] + 1) : Fresh(snap[o], views'[o], ovs, i)
      <4> SUFFICES ASSUME NEW i \in 1..(at[o] + 1) PROVE Fresh(snap[o], views'[o], ovs, i)
        OBVIOUS
      <4>1. snap[o].members[i] \in Nodes /\ (i = at[o] + 1 \/ i \in 1..at[o])
        BY <2>1, <1>m, <1>t
      <4> QED
        BY <4>1, <3>0, <3>1, <3>2, <1>t DEF Fresh
    <3> QED
      BY <2>1, <2>2, <3>3 DEF HereOk
  <2>3. CASE pc'[o] = "failing" /\ status'[o] = "failed"
    BY <2>3, <1>f
  <2> QED
    BY <1>3, <1>t, <2>2, <2>3 DEF Observe, Member
<1>4. CASE SaveObserved(o)
  <2>1. /\ pc[o] = "plan_saving" /\ status[o] # "succeeded" /\ at[o] < Len(snap[o].members)
        /\ UNCHANGED <<snap, views, call>>
    BY <1>4 DEF SaveObserved, JobOf, JobOk
  <2>2. \A i \in 1..(at[o] + 1) : Fresh(snap[o], views[o], ovs, i)
    BY <2>1, <1>s, <1>w DEF Here, HereOk
  <2>3. CASE pc'[o] = "planning"
    <3>1. at'[o] = at[o] + 1 /\ status'[o] = status[o]
      BY <1>4, <2>3, <1>t DEF SaveObserved
    <3> QED
      BY <2>1, <2>2, <2>3, <3>1 DEF HereOk
  <2>4. CASE pc'[o] = "running"
    <3>1. at'[o] = 0 /\ at[o] + 1 = Len(snap[o].members) /\ status'[o] = "running"
      BY <1>4, <2>4, <1>t DEF SaveObserved
    <3> QED
      BY <2>1, <2>2, <2>4, <3>1 DEF HereOk
  <2>5. CASE pc'[o] = "failing" /\ status'[o] = "failed"
    BY <2>5, <1>f
  <2> QED
    BY <1>4, <1>t, <2>3, <2>4, <2>5 DEF SaveObserved
<1>5. CASE SendPlan(o)
  <2>1. PICK i \in 1..Len(snap[o].members) :
          /\ NextPlanned(o, i)
          /\ call' = [call EXCEPT ![o] = [node |-> Member(o, i), steps |-> plans[o][Member(o, i)],
                                          ok |-> TRUE]]
          /\ at' = [at EXCEPT ![o] = i]
    BY <1>5 DEF SendPlan
  <2>2. /\ call'[o].steps = plans[o][snap[o].members[i]]
        /\ at'[o] = i /\ pc'[o] = "awaiting" /\ pc[o] = "running"
        /\ UNCHANGED <<snap, status, views, plans>>
    BY <2>1, <1>5, <1>t DEF SendPlan, Member
  <2>3. status[o] # "succeeded"
    BY <2>2 DEF JobOf, JobOk
  <2>4. \A j \in 1..Len(snap[o].members) : plans[o][snap[o].members[j]] = {} => Fresh(snap[o], views[o], ovs, j)
    BY <2>2, <1>s, <1>w DEF Here, HereOk
  <2>5. at[o] > 0 => Serves(snap[o], edge)
    BY <2>2, <1>s, <1>w DEF Here, HereOk
  <2>6. PlansServe(snap[o], plans[o])
    BY <2>2 DEF CallOf, CallOk
  <2>7. CASE i = 1
    <3>1. snap[o].service # NoService => EdgeStep(snap[o].service) \in plans[o][snap[o].members[1]]
      <4>1. snap[o].members # <<>>
        BY <2>7, <1>m
      <4> QED
        BY <2>6, <2>7, <4>1 DEF PlansServe, EdgeSteps, IsEdgeNode
    <3>2. Serves(snap[o], edge) \/ EdgeStep(snap[o].service) \in call'[o].steps
      BY <2>2, <2>7, <3>1 DEF Serves
    <3> QED
      BY <2>2, <2>3, <2>4, <2>7, <3>2 DEF HereOk
  <2>8. CASE i # 1
    <3>1. at[o] = 0 => 1 \in 1..Len(snap[o].members) /\ plans[o][snap[o].members[1]] = {}
      BY <2>1, <2>8, <1>t, <1>m DEF NextPlanned, Member
    <3>2. Serves(snap[o], edge)
      BY <2>5, <2>6, <3>1, <1>t, <1>m, NoPlanNoService
    <3> QED
      BY <2>2, <2>3, <2>4, <2>8, <3>2 DEF HereOk
  <2> QED
    BY <2>7, <2>8
<1>6. CASE AgentReply(o)
  <2>1. CASE pc'[o] = "failing" /\ status'[o] = "failed"
    BY <2>1, <1>f
  <2>2. CASE pc'[o] = "running" /\ status' = status /\ call[o].ok
    <3>1. /\ pc[o] = "awaiting" /\ call[o] # NoCall /\ call[o].steps = {}
          /\ UNCHANGED <<snap, at, views, plans>>
      BY <1>6 DEF AgentReply
    <3>2. status[o] # "succeeded" /\ at[o] \in 1..Len(snap[o].members)
      BY <3>1 DEF JobOf, JobOk, CallOf, CallOk
    <3>3. Serves(snap[o], edge)
      BY <2>2, <3>1, <3>2, <1>s, <1>w, <1>m DEF Here, HereOk
    <3>4. \A j \in 1..Len(snap[o].members) : plans[o][snap[o].members[j]] = {} => Fresh(snap[o], views[o], ovs, j)
      BY <3>1, <1>s, <1>w DEF Here, HereOk
    <3> QED
      BY <2>2, <3>1, <3>2, <3>3, <3>4 DEF HereOk
  <2> QED
    BY <1>6, <1>t, <2>1, <2>2 DEF AgentReply
<1>7. CASE CallLost(o) \/ StepRaises(o)
  BY <1>7, <1>t, <1>f DEF CallLost, StepRaises
<1>8. CASE StartVerify(o)
  <2>1. CASE pc'[o] = "failing" /\ status'[o] = "failed"
    BY <2>1, <1>f
  <2>2. CASE pc'[o] = "verifying" /\ status'[o] = "verifying" /\ at'[o] = 0
    <3>1. /\ pc[o] = "running" /\ NoPlanLeft(o)
          /\ UNCHANGED <<snap, views, plans, call>>
      BY <1>8 DEF StartVerify
    <3>2. PlansServe(snap[o], plans[o])
      BY <3>1 DEF CallOf, CallOk
    <3>3. at[o] = 0 /\ snap[o].members # <<>> =>
            1 \in 1..Len(snap[o].members) /\ plans[o][snap[o].members[1]] = {}
      <4> SUFFICES ASSUME at[o] = 0, snap[o].members # <<>>
                   PROVE  1 \in 1..Len(snap[o].members) /\ plans[o][snap[o].members[1]] = {}
        OBVIOUS
      <4>1. 1 \in 1..Len(snap[o].members) /\ 1 \in (at[o] + 1)..Len(snap[o].members)
        BY <1>m
      <4> QED
        BY <3>1, <4>1 DEF NoPlanLeft, Member
    <3>4. at[o] > 0 => Serves(snap[o], edge)
      BY <3>1, <1>s, <1>w DEF Here, HereOk
    <3>5. Serves(snap[o], edge)
      BY <3>2, <3>3, <3>4, <1>t, <1>m, NoPlanNoService
    <3>6. \A j \in 1..Len(snap[o].members) : plans[o][snap[o].members[j]] = {} => Fresh(snap[o], views[o], ovs, j)
      BY <3>1, <1>s, <1>w DEF Here, HereOk
    <3> QED
      BY <2>2, <3>1, <3>5, <3>6 DEF HereOk
  <2> QED
    BY <1>8, <1>t, <2>1, <2>2 DEF StartVerify
<1>9. CASE VerifyRead(o)
  <2>1. PICK i \in 1..Len(snap[o].members) :
          /\ NextPlanned(o, i)
          /\ views' = [views EXCEPT ![o][Member(o, i)] = ovs[Member(o, i)]]
          /\ at' = [at EXCEPT ![o] = i]
    BY <1>9 DEF VerifyRead
  <2>2. /\ views'[o] = [views[o] EXCEPT ![snap[o].members[i]] = ovs[snap[o].members[i]]]
        /\ at'[o] = i /\ pc'[o] = "verify_saving" /\ pc[o] = "verifying"
        /\ UNCHANGED <<snap, status, plans, call>>
    BY <2>1, <1>9, <1>t DEF VerifyRead, Member
  <2>3. status[o] # "succeeded"
    BY <2>2 DEF JobOf, JobOk
  <2>4. /\ Serves(snap[o], edge)
        /\ \A j \in 1..Len(snap[o].members) :
             j <= at[o] \/ plans[o][snap[o].members[j]] = {} => Fresh(snap[o], views[o], ovs, j)
    BY <2>2, <1>s, <1>w DEF Here, HereOk
  <2>5. \A j \in 1..Len(snap[o].members) : Fresh(snap[o], views[o], ovs, j) => Fresh(snap[o], views'[o], ovs, j)
    BY <2>2, <1>t, <1>m DEF Fresh
  <2>6. Fresh(snap[o], views'[o], ovs, i)
    BY <2>2, <1>t, <1>m DEF Fresh
  <2>7. \A j \in 1..Len(snap[o].members) : j <= i => j <= at[o] \/ plans[o][snap[o].members[j]] = {} \/ j = i
    <3>1. \A j \in (at[o] + 1)..(i - 1) : plans[o][snap[o].members[j]] = {}
      BY <2>1 DEF NextPlanned, Member
    <3>2. \A j \in 1..Len(snap[o].members) :
            j <= i => j <= at[o] \/ j = i \/ j \in (at[o] + 1)..(i - 1)
      BY <1>m
    <3> QED
      BY <3>1, <3>2
  <2>8. \A j \in 1..Len(snap[o].members) :
          j <= i \/ plans[o][snap[o].members[j]] = {} => Fresh(snap[o], views'[o], ovs, j)
    BY <2>4, <2>5, <2>6, <2>7
  <2> QED
    BY <2>2, <2>3, <2>4, <2>8 DEF HereOk
<1>10. CASE VerifySave(o)
  <2>1. CASE pc'[o] = "failing" /\ status'[o] = "failed"
    BY <2>1, <1>f
  <2>2. CASE pc'[o] = "verifying" /\ status' = status
    <3>1. pc[o] = "verify_saving" /\ UNCHANGED <<snap, at, views, plans, call>>
      BY <1>10 DEF VerifySave
    <3>2. status[o] # "succeeded"
      BY <3>1 DEF JobOf, JobOk
    <3> QED
      BY <2>2, <3>1, <3>2, <1>s, <1>w DEF Here, HereOk
  <2> QED
    BY <1>10, <1>t, <2>1, <2>2 DEF VerifySave
<1>11. CASE SaveSuccess(o)
  <2>1. /\ pc[o] = "verifying" /\ NoPlanLeft(o) /\ UNCHANGED <<snap, at, views, plans, call>>
        /\ pc'[o] \in {"publishing", "releasing"} /\ status'[o] = "succeeded"
    BY <1>11, <1>t DEF SaveSuccess, Record
  <2>2. /\ Serves(snap[o], edge)
        /\ \A j \in 1..Len(snap[o].members) :
             j <= at[o] \/ plans[o][snap[o].members[j]] = {} => Fresh(snap[o], views[o], ovs, j)
    BY <2>1, <1>s, <1>w DEF Here, HereOk
  <2>3. \A j \in 1..Len(snap[o].members) : j <= at[o] \/ plans[o][snap[o].members[j]] = {}
    <3>1. \A j \in (at[o] + 1)..Len(snap[o].members) : plans[o][snap[o].members[j]] = {}
      BY <2>1 DEF NoPlanLeft, Member
    <3>2. \A j \in 1..Len(snap[o].members) : j <= at[o] \/ j \in (at[o] + 1)..Len(snap[o].members)
      BY <1>m
    <3> QED
      BY <3>1, <3>2
  <2> QED
    BY <2>1, <2>2, <2>3 DEF HereOk
<1>12. CASE SaveFailure(o)
  BY <1>12, <1>t, <1>f DEF SaveFailure, Record
<1>13. CASE Publish(o)
  <2>1. /\ pc[o] = "publishing" /\ pc'[o] = "releasing"
        /\ UNCHANGED <<snap, status, at, views, plans, call>>
    BY <1>13, <1>t DEF Publish
  <2> QED
    BY <2>1, <1>s, <1>w DEF Here, HereOk
<1> QED
  BY <1>1, <1>2, <1>3, <1>4, <1>5, <1>6, <1>7, <1>8, <1>9, <1>10, <1>11, <1>12, <1>13 DEF Proceed

(* An execution touches no node, and no other's call.                        *)
LEMMA OthersKeepCall ==
    ASSUME TypeOK, NEW p \in Owners, ReadNetwork(p) \/ AskLock(p) \/ Proceed(p)
                                        \/ StepRaises(p) \/ Crash(p)
    PROVE  /\ UNCHANGED <<ovs, edge, disturbed>>
           /\ \A o \in Owners \ {p} : call'[o] = call[o]
<1>t. call \in [Owners -> Calls \cup {NoCall}]
  BY DEF TypeOK
<1>1. CASE SendPlan(p)
  BY <1>1, <1>t DEF SendPlan
<1>2. CASE AgentReply(p)
  BY <1>2, <1>t DEF AgentReply
<1>3. CASE CallLost(p)
  BY <1>3, <1>t DEF CallLost
<1>4. ASSUME UNCHANGED nodeVars, UNCHANGED disturbed
      PROVE  /\ UNCHANGED <<ovs, edge, disturbed>>
             /\ \A o \in Owners \ {p} : call'[o] = call[o]
  BY <1>4
<1> QED
  BY <1>1, <1>2, <1>3, <1>4 DEF ReadNetwork, AskLock, Proceed, StepRaises, Crash, TakeLock,
     RefuseLock, ReportConflict, Observe, SaveObserved, StartVerify, VerifyRead, VerifySave,
     SaveSuccess, SaveFailure, Record, Publish, ReleaseLock

(* What happens at nodes outside its network is nothing to an execution.     *)
LEMMA ElsewhereKeeps ==
    ASSUME TypeOK, NEW o \in Owners, JobOf(o), HereOf(o), SameJob(o), call'[o] = call[o],
           disturbed[o] => disturbed'[o], pc[o] \in Working,
           ~ disturbed'[o] => \A m \in SnapMembers(o) : ovs'[m] = ovs[m] /\ edge'[m] = edge[m]
    PROVE  HereOf(o)'
<1> SUFFICES ASSUME ~ disturbed'[o]
             PROVE  HereOk(pc[o], snap[o], status[o], at[o], views[o], plans[o], call[o], ovs', edge')
  BY DEF HereOf, SameJob
<1>1. HereOk(pc[o], snap[o], status[o], at[o], views[o], plans[o], call[o], ovs, edge)
  BY DEF HereOf
<1>m. /\ snap[o].members \in Seq(Nodes) /\ Len(snap[o].members) \in Nat /\ at[o] \in Nat
      /\ DOMAIN snap[o].members = 1..Len(snap[o].members)
  BY ApplyAssumption DEF TypeOK, Intents
<1>2. \A i \in 1..Len(snap[o].members) : snap[o].members[i] \in SnapMembers(o)
  BY <1>m DEF SnapMembers, Members
<1>3. \A i \in 1..Len(snap[o].members) :
        Fresh(snap[o], views[o], ovs, i) => Fresh(snap[o], views[o], ovs', i)
  BY <1>2 DEF Fresh
<1>4. Serves(snap[o], edge) => Serves(snap[o], edge')
  <2>1. snap[o].members # <<>> => 1 \in 1..Len(snap[o].members)
    BY <1>m
  <2> QED
    BY <2>1, <1>2 DEF Serves
<1>5. /\ pc[o] = "planning" => 1..at[o] \subseteq 1..Len(snap[o].members)
      /\ pc[o] = "plan_saving" => 1..(at[o] + 1) \subseteq 1..Len(snap[o].members)
  BY <1>m DEF JobOf, JobOk
<1> QED
  BY <1>1, <1>3, <1>4, <1>5 DEF HereOk

(* The agent that executes a plan works for its operation.                   *)
LEMMA OwnAgentKeeps ==
    ASSUME TypeOK, NEW o \in Owners, JobOf(o), CallOf(o), HereOf(o), AgentStep(o)
    PROVE  CallOf(o)' /\ HereOf(o)'
<1>t. /\ snap \in [Owners -> Intents] /\ at \in [Owners -> Nat] /\ disturbed \in [Owners -> BOOLEAN]
      /\ ovs \in [Nodes -> View] /\ edge \in [Nodes -> Services \cup {NoService}]
      /\ call \in [Owners -> Calls \cup {NoCall}] /\ call[o] # NoCall
  BY DEF TypeOK, AgentStep
<1>c. call[o] \in Calls /\ call[o].node \in Nodes
  BY <1>t DEF Calls
<1> DEFINE n == call[o].node
<1>1. PICK s \in call[o].steps, ok \in BOOLEAN, effect \in BOOLEAN :
        /\ IF StepImpossible(s, ovs[n]) THEN ~ok /\ ~effect ELSE ok => effect
        /\ call' = [call EXCEPT ![o].steps = @ \ {s}, ![o].ok = @ /\ ok]
        /\ IF effect
           THEN /\ ovs' = [ovs EXCEPT ![n] = AfterStep(s, @)]
                /\ edge' = [edge EXCEPT ![n] = EdgeAfterStep(s, @)]
                /\ Disturb(n, o)
           ELSE UNCHANGED <<ovs, edge, disturbed>>
  BY DEF AgentStep
<1>u. SameJob(o)
  BY DEF AgentStep, SameJob
<1>2. call'[o] = [call[o] EXCEPT !.steps = @ \ {s}, !.ok = @ /\ ok]
  BY <1>1, <1>t
<1>3. call'[o].node = n /\ call'[o].steps = call[o].steps \ {s} /\ (call'[o].ok <=> call[o].ok /\ ok)
  BY <1>2, <1>c DEF Calls
<1>4. disturbed'[o] = disturbed[o]
  BY <1>1, <1>t DEF Disturb
<1>5. /\ \A m \in Nodes : m # n => ovs'[m] = ovs[m] /\ edge'[m] = edge[m]
      /\ edge'[n] = edge[n] \/ edge'[n] = EdgeAfterStep(s, edge[n])
      /\ ok => edge'[n] = EdgeAfterStep(s, edge[n])
  BY <1>1, <1>c, <1>t
<1>6. CallOf(o)'
  BY <1>u, <1>3, <1>t DEF CallOf, CallOk, SameJob
<1>7. HereOf(o)'
  <2> SUFFICES ASSUME ~ disturbed[o], pc[o] \in Working
               PROVE  HereOk(pc[o], snap[o], status[o], at[o], views[o], plans[o], call'[o], ovs', edge')
    BY <1>4, <1>u DEF HereOf, SameJob
  <2>1. HereOk(pc[o], snap[o], status[o], at[o], views[o], plans[o], call[o], ovs, edge)
    BY DEF HereOf
  <2>2. /\ status[o] # "succeeded"
        /\ pc[o] \notin {"planning", "plan_saving", "running", "verifying", "verify_saving"}
    BY <1>t DEF CallOf, CallOk
  <2>3. CASE pc[o] # "awaiting"
    BY <2>2, <2>3 DEF HereOk
  <2>4. CASE pc[o] = "awaiting"
    <3>1. /\ at[o] \in 1..Len(snap[o].members) /\ n = snap[o].members[at[o]]
          /\ plans[o][n] # {} /\ call[o].steps \subseteq plans[o][n]
          /\ PlansServe(snap[o], plans[o])
      BY <2>4, <1>t DEF CallOf, CallOk
    <3>2. /\ Len(snap[o].members) \in Nat /\ at[o] \in Nat
          /\ \A i \in 1..Len(snap[o].members) : snap[o].members[i] \in Nodes
          /\ \A i, j \in 1..Len(snap[o].members) : snap[o].members[i] = snap[o].members[j] => i = j
      <4>1. snap[o].members \in MemberLists
        BY <1>t DEF Intents
      <4> QED
        BY <4>1, <1>t, ApplyAssumption
    <3>3. \A i \in 1..Len(snap[o].members) :
            plans[o][snap[o].members[i]] = {} => Fresh(snap[o], views[o], ovs', i)
      <4> SUFFICES ASSUME NEW i \in 1..Len(snap[o].members), plans[o][snap[o].members[i]] = {}
                   PROVE  Fresh(snap[o], views[o], ovs', i)
        OBVIOUS
      <4>1. snap[o].members[i] # n /\ snap[o].members[i] \in Nodes
        BY <3>1, <3>2
      <4>2. Fresh(snap[o], views[o], ovs, i)
        BY <2>1, <2>4 DEF HereOk
      <4> QED
        BY <4>1, <4>2, <1>5 DEF Fresh
    <3>4. IsEdgeStep(s) => s.service = snap[o].service
      BY <3>1 DEF PlansServe
    <3>5. Serves(snap[o], edge) => Serves(snap[o], edge')
      <4> SUFFICES ASSUME Serves(snap[o], edge), snap[o].members # <<>>, snap[o].service # NoService
                   PROVE  edge'[snap[o].members[1]] = snap[o].service
        BY DEF Serves
      <4>1. snap[o].members[1] \in Nodes /\ edge[snap[o].members[1]] = snap[o].service
        BY <3>1, <3>2 DEF Serves
      <4> QED
        BY <4>1, <3>4, <1>5 DEF EdgeAfterStep
    <3>6. ASSUME at[o] = 1, call'[o].ok
          PROVE  Serves(snap[o], edge') \/ EdgeStep(snap[o].service) \in call'[o].steps
      <4>1. Serves(snap[o], edge) \/ EdgeStep(snap[o].service) \in call[o].steps
        BY <3>6, <2>1, <2>4, <1>3, <1>t DEF HereOk
      <4>2. CASE s = EdgeStep(snap[o].service)
        <5>1. IsEdgeStep(s) /\ edge'[n] = s.service /\ s.service = snap[o].service
          BY <4>2, <3>4, <3>6, <1>3, <1>5 DEF IsEdgeStep, EdgeStep, EdgeAfterStep
        <5> QED
          BY <5>1, <3>1, <3>6 DEF Serves
      <4>3. CASE s # EdgeStep(snap[o].service)
        BY <4>1, <4>3, <3>5, <1>3
      <4> QED
        BY <4>2, <4>3
    <3> QED
      BY <2>1, <2>2, <2>4, <3>3, <3>5, <3>6 DEF HereOk
  <2> QED
    BY <2>3, <2>4
<1> QED
  BY <1>6, <1>7

(* HereInv is inductive.                                                     *)
LEMMA HereStep == HereInv /\ [Next]_vars => HereInv'
<1> SUFFICES ASSUME HereInv, [Next]_vars PROVE HereInv'
  OBVIOUS
<1>t. TypeOK /\ \A o \in Owners : JobOf(o) /\ CallOf(o) /\ HereOf(o)
  BY DEF HereInv, JobInv
<1>y. /\ disturbed \in [Owners -> BOOLEAN] /\ call \in [Owners -> Calls \cup {NoCall}]
      /\ ovs \in [Nodes -> View] /\ snap \in [Owners -> Intents]
      /\ \A o \in Owners : SnapMembers(o) \subseteq Nodes
  <2>1. \A o \in Owners : snap[o].members \in Seq(Nodes)
    BY <1>t, ApplyAssumption DEF TypeOK, Intents
  <2> QED
    BY <1>t, <2>1 DEF TypeOK, SnapMembers, Members
<1>j. JobInv'
  BY JobStep DEF HereInv
<1>s. ASSUME NEW o \in Owners, SameJob(o), call'[o] \in {call[o], NoCall}
      PROVE  CallOf(o)'
  BY <1>s, <1>t DEF CallOf, CallOk, SameJob
<1>q. ASSUME NEW o \in Owners, SameJob(o), call'[o] = call[o], UNCHANGED <<ovs, edge, disturbed>>
      PROVE  CallOf(o)' /\ HereOf(o)'
  <2>1. HereOf(o)'
    BY <1>q, <1>t DEF HereOf, SameJob
  <2> QED
    BY <2>1, <1>s, <1>q
<1>1. ASSUME NEW p \in Owners, ReadNetwork(p) \/ AskLock(p) \/ Proceed(p)
                                  \/ StepRaises(p) \/ Crash(p)
      PROVE  HereInv'
  <2>1. CallOf(p)' /\ HereOf(p)'
    BY <1>1, <1>t, MoverKeepsCall, MoverKeepsHere
  <2>2. ASSUME NEW o \in Owners, o # p PROVE CallOf(o)' /\ HereOf(o)'
    <3>1. SameJob(o)
      BY <1>1, <1>t, <2>2, OthersStay
    <3>2. call'[o] = call[o] /\ UNCHANGED <<ovs, edge, disturbed>>
      BY <1>1, <1>t, <2>2, OthersKeepCall
    <3> QED
      BY <3>1, <3>2, <1>q
  <2> QED
    BY <2>1, <2>2, <1>j DEF HereInv
<1>2. ASSUME NEW p \in Owners, AgentStep(p) PROVE HereInv'
  <2>1. CallOf(p)' /\ HereOf(p)'
    BY <1>2, <1>t, OwnAgentKeeps
  <2>2. ASSUME NEW o \in Owners, o # p PROVE CallOf(o)' /\ HereOf(o)'
    <3> DEFINE n == call[p].node
    <3>1. SameJob(o)
      BY <1>2 DEF AgentStep, SameJob
    <3>2. call'[o] = call[o]
      BY <1>2, <2>2, <1>y DEF AgentStep
    <3>3. CallOf(o)'
      BY <3>1, <3>2, <1>s
    <3>4. CASE UNCHANGED <<ovs, edge, disturbed>>
      BY <3>1, <3>2, <3>4, <1>q
    <3>5. CASE /\ \E s : /\ ovs' = [ovs EXCEPT ![n] = AfterStep(s, ovs[n])]
                         /\ edge' = [edge EXCEPT ![n] = EdgeAfterStep(s, edge[n])]
               /\ Disturb(n, p)
      <4>1. disturbed'[o] <=> disturbed[o] \/ (pc[o] \in Working /\ n \in SnapMembers(o))
        BY <3>5, <2>2, <1>y DEF Disturb
      <4>2. CASE pc[o] \in Working
        <5>1. ~ disturbed'[o] => \A m \in SnapMembers(o) : ovs'[m] = ovs[m] /\ edge'[m] = edge[m]
          <6> SUFFICES ASSUME ~ disturbed'[o], NEW m \in SnapMembers(o)
                       PROVE  ovs'[m] = ovs[m] /\ edge'[m] = edge[m]
            OBVIOUS
          <6>1. m # n /\ m \in Nodes
            BY <4>1, <4>2, <1>y
          <6> QED
            BY <6>1, <3>5, <1>t DEF TypeOK
        <5> QED
          BY <5>1, <4>1, <4>2, <3>1, <3>2, <3>3, <1>t, ElsewhereKeeps
      <4>3. CASE pc[o] \notin Working
        BY <4>3, <3>1, <3>3 DEF HereOf, SameJob
      <4> QED
        BY <4>2, <4>3
    <3> QED
      BY <1>2, <3>4, <3>5 DEF AgentStep
  <2> QED
    BY <2>1, <2>2, <1>j DEF HereInv
<1>3. ASSUME NEW p \in Owners, AgentDies(p) PROVE HereInv'
  <2> SUFFICES ASSUME NEW o \in Owners PROVE CallOf(o)' /\ HereOf(o)'
    BY <1>j DEF HereInv
  <2>1. SameJob(o) /\ call'[o] \in {call[o], NoCall} /\ UNCHANGED <<ovs, edge, disturbed>>
    BY <1>3, <1>y DEF AgentDies, SameJob
  <2>2. HereOf(o)'
    BY <2>1, <1>t DEF HereOf, HereOk, SameJob
  <2> QED
    BY <2>1, <2>2, <1>s
<1>4. ASSUME NEW n \in Nodes, Drift(n) PROVE HereInv'
  <2> SUFFICES ASSUME NEW o \in Owners PROVE CallOf(o)' /\ HereOf(o)'
    BY <1>j DEF HereInv
  <2>1. SameJob(o) /\ call'[o] = call[o] /\ UNCHANGED edge
    BY <1>4 DEF Drift, SameJob
  <2>2. \A m \in Nodes : m # n => ovs'[m] = ovs[m]
    BY <1>4, <1>y DEF Drift
  <2>3. disturbed'[o] <=> disturbed[o] \/ (pc[o] \in Working /\ n \in SnapMembers(o))
    BY <1>4, <1>y, LockAssumption DEF Drift, Disturb
  <2>4. CASE pc[o] \in Working
    <3>1. ~ disturbed'[o] => \A m \in SnapMembers(o) : ovs'[m] = ovs[m] /\ edge'[m] = edge[m]
      BY <2>1, <2>2, <2>3, <2>4, <1>y
    <3> QED
      BY <3>1, <2>1, <2>3, <2>4, <1>s, <1>t, ElsewhereKeeps
  <2>5. CASE pc[o] \notin Working
    BY <2>5, <2>1, <1>s DEF HereOf, SameJob
  <2> QED
    BY <2>4, <2>5
<1>5. ASSUME UNCHANGED jobVars, UNCHANGED nodeVars, UNCHANGED disturbed PROVE HereInv'
  <2>1. \A o \in Owners : SameJob(o) /\ call'[o] = call[o]
    BY <1>5 DEF SameJob
  <2> QED
    BY <2>1, <1>5, <1>q, <1>j DEF HereInv
<1>6. CASE EditIntent \/ AssignNodes \/ Tick \/ UNCHANGED vars \/ \E n \in Nodes : RemoveNode(n)
  BY <1>6, <1>5 DEF EditIntent, AssignNodes, Tick, RemoveNode, vars
<1> QED
  BY <1>1, <1>2, <1>3, <1>4, <1>6 DEF Next

(* If nothing but its own plans touched its nodes, a success means they are  *)
(* as the intent says, edge services included (reconcile.py:138-189).        *)
THEOREM SuccessConverges == Spec => []UndisturbedSuccessConverged
<1>1. Init => HereInv
  <2> SUFFICES ASSUME Init PROVE HereInv
    OBVIOUS
  <2>1. JobInv
    BY InitType DEF Init, JobInv, JobOf, JobOk
  <2>2. \A o \in Owners : CallOf(o) /\ HereOf(o)
    BY DEF Init, CallOf, CallOk, HereOf, Working
  <2> QED
    BY <2>1, <2>2 DEF HereInv
<1>2. HereInv => UndisturbedSuccessConverged
  <2> SUFFICES ASSUME HereInv, NEW o \in Owners, status[o] = "succeeded", pc[o] \in Working,
                      ~ disturbed[o], NEW n \in SnapMembers(o)
               PROVE  /\ Complies(snap[o], n, ovs[n])
                      /\ IsEdgeNode(snap[o], n) /\ snap[o].service # NoService
                            => edge[n] = snap[o].service
    BY DEF UndisturbedSuccessConverged
  <2>1. snap[o].members \in Seq(Nodes)
    BY ApplyAssumption DEF HereInv, JobInv, TypeOK, Intents
  <2>2. PICK i \in 1..Len(snap[o].members) : n = snap[o].members[i]
    BY <2>1 DEF SnapMembers, Members
  <2>3. JobOf(o) /\ HereOf(o)
    BY DEF HereInv, JobInv
  <2>4. Complies(snap[o], n, views[o][n])
    BY <2>2, <2>3 DEF JobOf, JobOk, Good
  <2>5. Fresh(snap[o], views[o], ovs, i) /\ Serves(snap[o], edge)
    BY <2>2, <2>3 DEF HereOf, HereOk
  <2>6. Complies(snap[o], n, ovs[n])
    BY <2>2, <2>4, <2>5 DEF Fresh
  <2> QED
    BY <2>5, <2>6 DEF Serves, IsEdgeNode
<1> QED
  BY <1>1, <1>2, HereStep, PTL DEF Spec

=============================================================================
