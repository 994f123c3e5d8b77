------------------------- MODULE NodeLifecycle_proofs -------------------------
(***************************************************************************)
(* Whatever whole rows are saved over each other, by any number of         *)
(* requests and reapers: only an agent that redeemed a token is on record, *)
(* and its token is spent.                                                 *)
(***************************************************************************)
EXTENDS NodeLifecycle, TLAPS

-----------------------------------------------------------------------------
(* Types *)

\* The row a redeemed token will bring online.
EnrollingRow(state) ==
    state # Idle /\ state.at \in {"checking", "redeeming", "admitting"} =>
        state.row.status = "online" /\ state.row.agent \in Agents

TypeInv == TypeOK /\ \A j \in Jobs : EnrollingRow(job[j])

\* A job that is not idle, by where it is.
LEMMA JobInHand ==
  ASSUME TypeOK, NEW j \in Jobs, job[j] # Idle
  PROVE  /\ job[j] \in JobStates
         /\ job[j].at \in {"issuing", "checking", "redeeming", "admitting", "orphaned",
                           "removing", "saving", "publishing"}
         /\ job[j].at \in {"issuing", "checking", "redeeming"} =>
               job[j].token \in Tokens /\ job[j].cred \in TokenRows
         /\ job[j].at \in {"checking", "redeeming", "admitting", "saving"} =>
               job[j].row \in NodeRows
         /\ job[j].at \in {"admitting", "orphaned", "removing", "saving"} =>
               job[j].node \in Nodes
         /\ job[j].at = "admitting" => job[j].token \in Tokens
  BY DEF TypeOK, JobStates

\* The age of a heartbeat is a status.
LEMMA DerivedType ==
  ASSUME NEW row \in NodeRows, NEW t \in Nat
  PROVE  /\ DerivedStatus(row, t) \in Statuses
         /\ DerivedStatus(row, t) = "pending" <=> row.status = "pending"
<1>1. row.seen \in Nat /\ StaleAfter \in Nat /\ OfflineAfter \in Nat
  BY NodeAssumption DEF NodeRows
<1>2. CASE row.status = "pending"
  BY <1>2 DEF DerivedStatus, Statuses
<1>3. CASE row.status # "pending"
  BY <1>1, <1>3 DEF DerivedStatus, Statuses
<1> QED BY <1>2, <1>3

\* Rows that are written are rows.
LEMMA RowTypes ==
  /\ PendingRow \in NodeRows
  /\ \A row \in NodeRows, t \in Nat : Heard(row, t) \in NodeRows
  /\ \A row \in NodeRows, a \in Agents : [row EXCEPT !.agent = a] \in NodeRows
  /\ \A row \in NodeRows, flag \in BOOLEAN : [row EXCEPT !.maintenance = flag] \in NodeRows
  BY DEF PendingRow, Heard, NodeRows, Statuses

\* Removing tokens leaves a table of tokens.
LEMMA WithoutTokensType ==
  ASSUME TypeOK, NEW n
  PROVE  WithoutTokensOf(n) \in [Tokens -> TokenRows \cup {NoRow}]
  BY DEF WithoutTokensOf, TypeOK

\* A request that comes in keeps the types.
LEMMA ArrivalType ==
  ASSUME TypeOK, NEW j \in Jobs, Arrival(j)
  PROVE  TypeOK'
<1> USE DEF Arrives, Carry
<1>1. ASSUME NEW n \in Nodes, Register(j, n) PROVE TypeOK'
  <2>1. Saving(n, PendingRow, TRUE) \in JobStates
    BY RowTypes DEF Saving, JobStates
  <2> QED BY <1>1, <2>1 DEF Register, TypeOK
<1>2. ASSUME NEW n \in Nodes, Heartbeat(j, n) PROVE TypeOK'
  <2>1. Heard(node[n], now) \in NodeRows
    BY <1>2, RowTypes DEF Heartbeat, TypeOK
  <2>2. Saving(n, Heard(node[n], now), FALSE) \in JobStates
    BY <2>1 DEF Saving, JobStates
  <2> QED BY <1>2, <2>2 DEF Heartbeat, TypeOK
<1>3. ASSUME NEW n \in Nodes, Remove(j, n) PROVE TypeOK'
  BY <1>3 DEF Remove, TypeOK, JobStates
<1>4. ASSUME NEW n \in Nodes, NEW t \in Tokens, Issue(j, n, t) PROVE TypeOK'
  <2>1. [node |-> n, expires |-> now + TokenTTL, used |-> FALSE] \in TokenRows
    BY NodeAssumption DEF TypeOK, TokenRows
  <2>2. [at |-> "issuing", token |-> t,
         cred |-> [node |-> n, expires |-> now + TokenTTL, used |-> FALSE]] \in JobStates
    BY <2>1 DEF JobStates
  <2> QED BY <1>4, <2>2 DEF Issue, TypeOK
<1>5. ASSUME NEW t \in Tokens, NEW a \in Agents, Enroll(j, t, a) PROVE TypeOK'
  <2>1. Heard([PendingRow EXCEPT !.agent = a], now) \in NodeRows
    BY RowTypes DEF TypeOK
  <2>2. [token[t] EXCEPT !.used = TRUE] \in TokenRows
    BY <1>5 DEF Enroll, TypeOK, TokenRows
  <2>3. job' \in [Jobs -> JobStates]
    BY <1>5, <2>1, <2>2 DEF Enroll, JobStates, TypeOK
  <2> QED BY <1>5, <2>3 DEF Enroll, TypeOK
<1>6. ASSUME NEW n \in Nodes, NEW flag \in BOOLEAN, Maintenance(j, n, flag) PROVE TypeOK'
  <2>1. [node[n] EXCEPT !.maintenance = flag] \in NodeRows
    BY <1>6, RowTypes DEF Maintenance, TypeOK
  <2>2. Saving(n, [node[n] EXCEPT !.maintenance = flag], TRUE) \in JobStates
    BY <2>1 DEF Saving, JobStates
  <2> QED BY <1>6, <2>2 DEF Maintenance, TypeOK
<1> QED BY <1>1, <1>2, <1>3, <1>4, <1>5, <1>6 DEF Arrival

\* The calls of a request keep the types.
LEMMA ProceedType ==
  ASSUME TypeInv, NEW j \in Jobs, Proceed(j) \/ RequestDies(j)
  PROVE  TypeOK'
<1> USE DEF At, Carry, TypeInv
<1>0. Idle \in JobStates /\ Publishing \in JobStates
  BY DEF JobStates, Publishing
<1>1. CASE SaveNewToken(j)
  <2>1. job[j].token \in Tokens /\ job[j].cred \in TokenRows
    BY <1>1, JobInHand DEF SaveNewToken
  <2> QED BY <1>0, <1>1, <2>1 DEF SaveNewToken, TypeOK
<1>2. CASE CheckNode(j)
  <2>1. /\ job[j].token \in Tokens /\ job[j].cred \in TokenRows /\ job[j].row \in NodeRows
        /\ job[j].cred.node \in Nodes
    BY <1>2, JobInHand DEF CheckNode, TokenRows
  <2> DEFINE n == job[j].cred.node
  <2>2. [at |-> "orphaned", node |-> n] \in JobStates
    BY <2>1 DEF JobStates
  <2>3. ASSUME node[n] # NoRow
        PROVE  [at |-> "redeeming", token |-> job[j].token, cred |-> job[j].cred,
                row |-> [job[j].row EXCEPT !.maintenance = node[n].maintenance]] \in JobStates
    <3>1. node[n].maintenance \in BOOLEAN
      BY <2>1, <2>3 DEF TypeOK, NodeRows
    <3>2. [job[j].row EXCEPT !.maintenance = node[n].maintenance] \in NodeRows
      BY <2>1, <3>1, RowTypes
    <3> QED BY <2>1, <3>2 DEF JobStates
  <2>4. \E state \in JobStates : job' = [job EXCEPT ![j] = state]
    BY <1>0, <1>2, <2>2, <2>3 DEF CheckNode
  <2>5. job' \in [Jobs -> JobStates]
    BY <2>4 DEF TypeOK
  <2> QED BY <1>2, <2>5 DEF CheckNode, TypeOK
<1>3. CASE DropOrphans(j)
  BY <1>0, <1>3, WithoutTokensType DEF DropOrphans, TypeOK
<1>4. CASE Redeem(j)
  <2>1. /\ job[j].token \in Tokens /\ job[j].cred \in TokenRows /\ job[j].row \in NodeRows
        /\ job[j].cred.node \in Nodes
    BY <1>4, JobInHand DEF Redeem, TokenRows
  <2>2. [at |-> "admitting", token |-> job[j].token, node |-> job[j].cred.node,
         row |-> job[j].row] \in JobStates
    BY <2>1 DEF JobStates
  <2> QED BY <1>0, <1>4, <2>1, <2>2 DEF Redeem, TypeOK
<1>5. CASE Admit(j)
  <2>1. /\ job[j].token \in Tokens /\ job[j].node \in Nodes /\ job[j].row \in NodeRows
        /\ job[j].row.agent \in Agents
    BY <1>5, JobInHand DEF Admit, EnrollingRow
  <2> QED BY <1>0, <1>5, <2>1 DEF Admit, TypeOK
<1>6. CASE SaveNode(j)
  <2>1. job[j].node \in Nodes /\ job[j].row \in NodeRows
    BY <1>6, JobInHand DEF SaveNode
  <2> QED BY <1>0, <1>6, <2>1 DEF SaveNode, TypeOK
<1>7. CASE DeleteNode(j)
  BY <1>0, <1>7, WithoutTokensType DEF DeleteNode, TypeOK
<1>8. CASE Publish(j)
  BY <1>0, <1>8 DEF Publish, TypeOK
<1>9. CASE RequestDies(j)
  BY <1>0, <1>9 DEF RequestDies, TypeOK
<1> QED BY <1>1, <1>2, <1>3, <1>4, <1>5, <1>6, <1>7, <1>8, <1>9 DEF Proceed

\* The reaper keeps the types, and only touches nodes and its own sweep.
LEMMA ReapType ==
  ASSUME TypeOK, NEW r \in Reapers, Reap(r)
  PROVE  TypeOK'
<1>0. Idle \in SweepStates
  BY DEF SweepStates
<1>1. CASE ReaperWakes(r)
  BY <1>1 DEF ReaperWakes, TypeOK, SweepStates
<1>2. CASE ReaperLists(r)
  <2>1. sweep[r].now \in Nat
    BY <1>2 DEF ReaperLists, TypeOK, SweepStates
  <2>2. \A n \in Nodes : node[n] # NoRow =>
           [node[n] EXCEPT !.status = DerivedStatus(node[n], sweep[r].now)] \in NodeRows
    <3>1. \A row \in NodeRows, s \in Statuses : [row EXCEPT !.status = s] \in NodeRows
      BY DEF NodeRows
    <3> QED BY <2>1, <3>1, DerivedType DEF TypeOK
  <2> DEFINE rows == [n \in Nodes |->
               IF node[n] # NoRow /\ node[n].status # DerivedStatus(node[n], sweep[r].now)
               THEN [node[n] EXCEPT !.status = DerivedStatus(node[n], sweep[r].now)]
               ELSE NoRow]
  <2>3. rows \in [Nodes -> NodeRows \cup {NoRow}]
    BY <2>2
  <2>4. [at |-> "saving", rows |-> rows] \in SweepStates
    BY <2>3 DEF SweepStates
  <2> QED BY <1>0, <1>2, <2>4 DEF ReaperLists, TypeOK
<1>3. CASE ReaperSaves(r)
  <2>1. sweep[r].rows \in [Nodes -> NodeRows \cup {NoRow}]
    BY <1>3 DEF ReaperSaves, TypeOK, SweepStates
  <2>2. PICK n \in Nodes :
          /\ sweep[r].rows[n] # NoRow
          /\ node' = [node EXCEPT ![n] = sweep[r].rows[n]]
          /\ LET rows == [sweep[r].rows EXCEPT ![n] = NoRow] IN
             sweep' = [sweep EXCEPT ![r] = IF \A m \in Nodes : rows[m] = NoRow THEN Idle
                                           ELSE [at |-> "saving", rows |-> rows]]
    BY <1>3 DEF ReaperSaves
  <2>3. [at |-> "saving", rows |-> [sweep[r].rows EXCEPT ![n] = NoRow]] \in SweepStates
    BY <2>1 DEF SweepStates
  <2>4. sweep' \in [Reapers -> SweepStates]
    BY <1>0, <2>2, <2>3 DEF TypeOK
  <2>5. node' \in [Nodes -> NodeRows \cup {NoRow}]
    BY <2>1, <2>2 DEF TypeOK
  <2> QED BY <1>3, <2>4, <2>5 DEF ReaperSaves, TypeOK
<1> QED BY <1>1, <1>2, <1>3 DEF Reap

\* What a request that comes in will write comes from a token or from the table.
LEMMA ArrivalEnrolling ==
  ASSUME TypeInv, NEW j \in Jobs, Arrival(j)
  PROVE  \A k \in Jobs : EnrollingRow(job'[k])
<1> USE DEF EnrollingRow, TypeInv, TypeOK, Arrives, Carry
<1>1. ASSUME NEW n \in Nodes, Register(j, n) \/ Heartbeat(j, n) \/ Remove(j, n)
      PROVE  \A k \in Jobs : EnrollingRow(job'[k])
  BY <1>1 DEF Register, Heartbeat, Remove, Saving
<1>2. ASSUME NEW n \in Nodes, NEW t \in Tokens, Issue(j, n, t)
      PROVE  \A k \in Jobs : EnrollingRow(job'[k])
  BY <1>2 DEF Issue
<1>3. ASSUME NEW t \in Tokens, NEW a \in Agents, Enroll(j, t, a)
      PROVE  \A k \in Jobs : EnrollingRow(job'[k])
  <2>1. Heard([PendingRow EXCEPT !.agent = a], now).status = "online"
        /\ Heard([PendingRow EXCEPT !.agent = a], now).agent = a
    BY DEF Heard, PendingRow
  <2> QED BY <1>3, <2>1 DEF Enroll
<1>4. ASSUME NEW n \in Nodes, NEW flag \in BOOLEAN, Maintenance(j, n, flag)
      PROVE  \A k \in Jobs : EnrollingRow(job'[k])
  BY <1>4 DEF Maintenance, Saving
<1> QED BY <1>1, <1>2, <1>3, <1>4 DEF Arrival

\* The calls of a request do not change whom it lets in.
LEMMA ProceedEnrolling ==
  ASSUME TypeInv, NEW j \in Jobs, Proceed(j) \/ RequestDies(j)
  PROVE  \A k \in Jobs : EnrollingRow(job'[k])
<1> USE DEF EnrollingRow, TypeInv, TypeOK, At, Carry
<1>1. CASE CheckNode(j)
  <2>1. job[j].row \in NodeRows
    BY <1>1, JobInHand DEF CheckNode
  <2>2. \A flag : /\ [job[j].row EXCEPT !.maintenance = flag].status = job[j].row.status
                  /\ [job[j].row EXCEPT !.maintenance = flag].agent = job[j].row.agent
    BY <2>1 DEF NodeRows
  <2> QED BY <1>1, <2>2 DEF CheckNode
<1>2. CASE SaveNewToken(j) \/ DropOrphans(j) \/ Admit(j) \/ SaveNode(j) \/ DeleteNode(j)
           \/ Publish(j) \/ RequestDies(j)
  BY <1>2 DEF SaveNewToken, DropOrphans, Admit, SaveNode, DeleteNode, Publish, RequestDies,
              Publishing
<1>3. CASE Redeem(j)
  BY <1>3 DEF Redeem
<1> QED BY <1>1, <1>2, <1>3 DEF Proceed

\* The initial states are typed.
LEMMA InitTypeInv ==
  ASSUME Init
  PROVE  TypeInv
<1>1. Idle \in JobStates /\ Idle \in SweepStates
  BY DEF JobStates, SweepStates
<1>2. unused \in [nodes : SUBSET Nodes, tokens : SUBSET Tokens]
  BY DEF Init
<1>3. /\ now \in Nat /\ faults \in Nat /\ overlapped \in BOOLEAN
      /\ redeemed \subseteq [token : Tokens, node : Nodes, agent : Agents]
      /\ node \in [Nodes -> NodeRows \cup {NoRow}]
      /\ token \in [Tokens -> TokenRows \cup {NoRow}]
  BY DEF Init
<1>4. job \in [Jobs -> JobStates] /\ sweep \in [Reapers -> SweepStates]
  BY <1>1 DEF Init
<1>5. \A j \in Jobs : EnrollingRow(job[j])
  BY DEF Init, EnrollingRow
<1> QED BY <1>2, <1>3, <1>4, <1>5 DEF TypeInv, TypeOK

\* Types and the rows under enrollment are an invariant.
LEMMA TypeInvHolds == Spec => []TypeInv
<1>1. Init => TypeInv
  BY InitTypeInv
<1>2. TypeInv /\ [Next]_nodeVars => TypeInv'
  <2> SUFFICES ASSUME TypeInv, [Next]_nodeVars PROVE TypeInv'
    OBVIOUS
  <2>1. ASSUME NEW j \in Jobs, Arrival(j) PROVE TypeInv'
    BY <2>1, ArrivalType, ArrivalEnrolling DEF TypeInv
  <2>2. ASSUME NEW j \in Jobs, Proceed(j) \/ RequestDies(j) PROVE TypeInv'
    BY <2>2, ProceedType, ProceedEnrolling DEF TypeInv
  <2>3. ASSUME NEW r \in Reapers, Reap(r) PROVE TypeInv'
    BY <2>3, ReapType DEF TypeInv, Reap, ReaperWakes, ReaperLists, ReaperSaves
  <2>4. CASE Tick
    BY <2>4 DEF Tick, TypeInv, TypeOK
  <2>5. CASE UNCHANGED nodeVars
    BY <2>5 DEF nodeVars, TypeInv, TypeOK
  <2> QED BY <2>1, <2>2, <2>3, <2>4, <2>5 DEF Next
<1> QED BY <1>1, <1>2, PTL DEF Spec

(* Types hold in every behaviour: a request and a sweep carry well-formed     *)
(* rows over each of their awaits (enrollment.py, nodes.py, background.py).   *)
THEOREM NodeTypeCorrect == Spec => []TypeOK
<1>1. TypeInv => TypeOK
  BY DEF TypeInv
<1> QED BY <1>1, TypeInvHolds, PTL

-----------------------------------------------------------------------------
(* Who is on record *)

\* A row of node n that may be on record when these have enrolled: out of
\* pending only with an agent, and with an agent only if it enrolled.
Backed(n, row, enrolled) ==
    /\ row.status # "pending" => row.agent # NoAgent
    /\ row.agent # NoAgent => \E e \in enrolled : e.node = n /\ e.agent = row.agent

JobBacked(j) ==
    job[j] # Idle /\ job[j].at = "saving" => Backed(job[j].node, job[j].row, redeemed)

SweepBacked(r) ==
    sweep[r] # Idle /\ sweep[r].at = "saving" =>
        \A n \in Nodes : sweep[r].rows[n] # NoRow => Backed(n, sweep[r].rows[n], redeemed)

\* Every copy of a row that some request or reaper will yet save is backed.
NodeInv ==
    /\ TypeInv
    /\ \A n \in Nodes : node[n] # NoRow => Backed(n, node[n], redeemed)
    /\ \A j \in Jobs : JobBacked(j)
    /\ \A r \in Reapers : SweepBacked(r)

\* What is backed stays so: enrollments are never undone.
LEMMA BackedStays ==
  ASSUME NEW n, NEW row, NEW before, NEW after, before \subseteq after,
         Backed(n, row, before)
  PROVE  Backed(n, row, after)
  BY DEF Backed

\* What a step leaves alone stays backed.
LEMMA OthersStayBacked ==
  ASSUME NodeInv, redeemed \subseteq redeemed'
  PROVE  /\ \A n \in Nodes : node'[n] = node[n] /\ node[n] # NoRow =>
               Backed(n, node'[n], redeemed')
         /\ \A j \in Jobs : job'[j] = job[j] => JobBacked(j)'
         /\ \A r \in Reapers : sweep'[r] = sweep[r] => SweepBacked(r)'
<1>1. \A n \in Nodes : node'[n] = node[n] /\ node[n] # NoRow =>
         Backed(n, node'[n], redeemed')
  BY BackedStays DEF NodeInv, Backed
<1>2. \A j \in Jobs : job'[j] = job[j] => JobBacked(j)'
  BY DEF NodeInv, JobBacked, Backed
<1>3. \A r \in Reapers : sweep'[r] = sweep[r] => SweepBacked(r)'
  BY DEF NodeInv, SweepBacked, Backed
<1> QED BY <1>1, <1>2, <1>3

\* A request writes a row that is new or that it read in the table.
LEMMA ArrivalBacked ==
  ASSUME NodeInv, TypeInv', NEW j \in Jobs, Arrival(j)
  PROVE  NodeInv'
<1> USE DEF Arrives, Carry
<1>1. node' = node /\ sweep' = sweep /\ redeemed' = redeemed
  BY DEF Arrival, Register, Heartbeat, Remove, Issue, Enroll, Maintenance
<1>2. \A k \in Jobs : k # j => job'[k] = job[k]
  BY DEF Arrival, Register, Heartbeat, Remove, Issue, Enroll, Maintenance, NodeInv, TypeInv,
         TypeOK
<1>3. \A n, row : Backed(n, row, redeemed) => Backed(n, row, redeemed')
  BY <1>1 DEF Backed
<1>4. JobBacked(j)'
  <2>1. ASSUME NEW n \in Nodes, Register(j, n) PROVE JobBacked(j)'
    BY <2>1 DEF Register, Saving, PendingRow, JobBacked, Backed, NodeInv, TypeInv, TypeOK
  <2>2. ASSUME NEW n \in Nodes, Heartbeat(j, n) PROVE JobBacked(j)'
    <3>1. Backed(n, Heard(node[n], now), redeemed)
      BY <2>2 DEF Heartbeat, NodeInv, Backed, Heard
    <3>2. job'[j] = Saving(n, Heard(node[n], now), FALSE)
      BY <2>2 DEF Heartbeat, NodeInv, TypeInv, TypeOK
    <3> QED BY <1>1, <3>1, <3>2 DEF JobBacked, Backed, Saving
  <2>3. ASSUME NEW n \in Nodes, NEW flag \in BOOLEAN, Maintenance(j, n, flag)
        PROVE  JobBacked(j)'
    <3>1. node[n] \in NodeRows /\ Backed(n, node[n], redeemed)
      BY <2>3 DEF Maintenance, NodeInv, TypeInv, TypeOK
    <3>2. PICK row : row = [node[n] EXCEPT !.maintenance = flag]
      OBVIOUS
    <3>3. job'[j] = Saving(n, row, TRUE) /\ Backed(n, row, redeemed)
      BY <2>3, <3>1, <3>2 DEF Maintenance, NodeInv, TypeInv, TypeOK, Backed, NodeRows
    <3> QED BY <1>1, <3>3 DEF JobBacked, Backed, Saving
  <2>4. ASSUME NEW n \in Nodes, NEW t \in Tokens, NEW a \in Agents,
               Remove(j, n) \/ Issue(j, n, t) \/ Enroll(j, t, a)
        PROVE  JobBacked(j)'
    BY <2>4 DEF Remove, Issue, Enroll, JobBacked, NodeInv, TypeInv, TypeOK
  <2> QED
    <3>1. CASE \E n \in Nodes : Remove(j, n)
      BY <3>1 DEF Remove, JobBacked, NodeInv, TypeInv, TypeOK
    <3>2. CASE \E n \in Nodes, t \in Tokens : Issue(j, n, t)
      BY <3>2 DEF Issue, JobBacked, NodeInv, TypeInv, TypeOK
    <3>3. CASE \E t \in Tokens, a \in Agents : Enroll(j, t, a)
      BY <3>3 DEF Enroll, JobBacked, NodeInv, TypeInv, TypeOK
    <3> QED BY <2>1, <2>2, <2>3, <3>1, <3>2, <3>3 DEF Arrival
<1> QED BY <1>1, <1>2, <1>4, OthersStayBacked DEF NodeInv, Backed

\* The calls of a request write that row, or the row of an agent whose
\* enrollment they complete.
LEMMA ProceedBacked ==
  ASSUME NodeInv, TypeInv', NEW j \in Jobs, Proceed(j) \/ RequestDies(j)
  PROVE  NodeInv'
<1> USE DEF At, Carry
<1>1. redeemed \subseteq redeemed' /\ sweep' = sweep
  BY DEF Proceed, SaveNewToken, CheckNode, DropOrphans, Redeem, Admit, SaveNode, DeleteNode,
         Publish, RequestDies
<1>2. \A k \in Jobs : k # j => job'[k] = job[k]
  BY DEF Proceed, SaveNewToken, CheckNode, DropOrphans, Redeem, Admit, SaveNode, DeleteNode,
         Publish, RequestDies, NodeInv, TypeInv, TypeOK
<1>3. JobBacked(j)'
  BY DEF Proceed, SaveNewToken, CheckNode, DropOrphans, Redeem, Admit, SaveNode, DeleteNode,
         Publish, Publishing, RequestDies, NodeInv, TypeInv, TypeOK, JobBacked
<1>4. \A n \in Nodes : node'[n] # NoRow => Backed(n, node'[n], redeemed')
  <2>1. CASE node' = node
    BY <1>1, <2>1, OthersStayBacked
  <2>2. CASE Admit(j)
    <3>1. /\ job[j].node \in Nodes /\ job[j].row \in NodeRows
          /\ job[j].row.agent \in Agents
      BY <2>2, JobInHand DEF Admit, EnrollingRow, NodeInv, TypeInv
    <3>2. [token |-> job[j].token, node |-> job[j].node, agent |-> job[j].row.agent]
             \in redeemed'
      BY <2>2 DEF Admit
    <3> DEFINE n == job[j].node
               row == job[j].row
    <3>3. row.agent # NoAgent /\ \E e \in redeemed' : e.node = n /\ e.agent = row.agent
      BY <3>1, <3>2, NodeAssumption
    <3>4. node' = [node EXCEPT ![n] = row]
      BY <2>2 DEF Admit
    <3>5. node'[n] = row
      BY <3>1, <3>4 DEF NodeInv, TypeInv, TypeOK
    <3>6. Backed(n, node'[n], redeemed')
      BY <3>3, <3>5 DEF Backed
    <3>7. ASSUME NEW m \in Nodes, m # n, node'[m] # NoRow
          PROVE  Backed(m, node'[m], redeemed')
      BY <1>1, <3>4, <3>7, OthersStayBacked DEF NodeInv, TypeInv, TypeOK, Backed
    <3> QED BY <3>6, <3>7
  <2>3. CASE SaveNode(j)
    <3>1. job[j].node \in Nodes /\ Backed(job[j].node, job[j].row, redeemed)
      BY <2>3, JobInHand DEF SaveNode, NodeInv, TypeInv, JobBacked
    <3>2. node' = [node EXCEPT ![job[j].node] = job[j].row] /\ redeemed' = redeemed
      BY <2>3 DEF SaveNode
    <3> QED BY <3>1, <3>2 DEF NodeInv, TypeInv, TypeOK, Backed
  <2>4. CASE DeleteNode(j)
    BY <2>4 DEF DeleteNode, NodeInv, TypeInv, TypeOK, Backed
  <2> QED BY <2>1, <2>2, <2>3, <2>4 DEF Proceed, SaveNewToken, CheckNode, DropOrphans, Redeem,
             Publish, RequestDies
<1> QED BY <1>1, <1>2, <1>3, <1>4, OthersStayBacked DEF NodeInv, Backed

\* The reaper only changes a status, and never to or from pending.
LEMMA ReapBacked ==
  ASSUME NodeInv, TypeInv', NEW r \in Reapers, Reap(r)
  PROVE  NodeInv'
<1>1. redeemed' = redeemed /\ job' = job
  BY DEF Reap, ReaperWakes, ReaperLists, ReaperSaves
<1>2. \A q \in Reapers : q # r => sweep'[q] = sweep[q]
  BY DEF Reap, ReaperWakes, ReaperLists, ReaperSaves, NodeInv, TypeInv, TypeOK
<1>3. CASE ReaperWakes(r)
  <2>1. node' = node /\ SweepBacked(r)'
    BY <1>3 DEF ReaperWakes, SweepBacked, NodeInv, TypeInv, TypeOK
  <2> QED BY <1>1, <1>2, <2>1, OthersStayBacked DEF NodeInv, Backed
<1>4. CASE ReaperLists(r)
  <2>1. sweep[r].now \in Nat
    BY <1>4 DEF ReaperLists, NodeInv, TypeInv, TypeOK, SweepStates
  <2>2. \A n \in Nodes : node[n] # NoRow =>
           Backed(n, [node[n] EXCEPT !.status = DerivedStatus(node[n], sweep[r].now)],
                  redeemed)
    <3>1. \A row \in NodeRows, s \in Statuses : /\ [row EXCEPT !.status = s].status = s
                                               /\ [row EXCEPT !.status = s].agent = row.agent
      BY DEF NodeRows
    <3>2. \A n \in Nodes : node[n] # NoRow => node[n] \in NodeRows
      BY DEF NodeInv, TypeInv, TypeOK
    <3> QED BY <2>1, <3>1, <3>2, DerivedType DEF NodeInv, Backed
  <2>3. SweepBacked(r)'
    <3>1. \A n, row : Backed(n, row, redeemed) => Backed(n, row, redeemed')
      BY <1>1 DEF Backed
    <3> DEFINE rows == [n \in Nodes |->
               IF node[n] # NoRow /\ node[n].status # DerivedStatus(node[n], sweep[r].now)
               THEN [node[n] EXCEPT !.status = DerivedStatus(node[n], sweep[r].now)]
               ELSE NoRow]
    <3>2. sweep'[r] = Idle \/ sweep'[r] = [at |-> "saving", rows |-> rows]
      BY <1>4 DEF ReaperLists, NodeInv, TypeInv, TypeOK
    <3>3. \A n \in Nodes : rows[n] # NoRow => Backed(n, rows[n], redeemed)
      BY <2>2
    <3> HIDE DEF rows
    <3> QED BY <1>1, <3>2, <3>3 DEF SweepBacked, Backed
  <2>4. node' = node
    BY <1>4 DEF ReaperLists
  <2> QED BY <1>1, <1>2, <2>3, <2>4, OthersStayBacked DEF NodeInv, Backed
<1>5. CASE ReaperSaves(r)
  <2>1. /\ sweep[r].rows \in [Nodes -> NodeRows \cup {NoRow}]
        /\ sweep[r] # Idle /\ sweep[r].at = "saving"
    BY <1>5 DEF ReaperSaves, NodeInv, TypeInv, TypeOK, SweepStates
  <2>2. PICK n \in Nodes :
          /\ sweep[r].rows[n] # NoRow
          /\ node' = [node EXCEPT ![n] = sweep[r].rows[n]]
          /\ LET rows == [sweep[r].rows EXCEPT ![n] = NoRow] IN
             sweep' = [sweep EXCEPT ![r] = IF \A m \in Nodes : rows[m] = NoRow THEN Idle
                                           ELSE [at |-> "saving", rows |-> rows]]
    BY <1>5 DEF ReaperSaves
  <2>3. \A m \in Nodes : sweep[r].rows[m] # NoRow => Backed(m, sweep[r].rows[m], redeemed)
    BY <2>1 DEF NodeInv, SweepBacked
  <2>4. \A m \in Nodes : node'[m] # NoRow => Backed(m, node'[m], redeemed')
    BY <1>1, <2>2, <2>3 DEF NodeInv, TypeInv, TypeOK, Backed
  <2>5. SweepBacked(r)'
    <3> DEFINE rows == [sweep[r].rows EXCEPT ![n] = NoRow]
    <3>1. sweep'[r] = Idle \/ sweep'[r] = [at |-> "saving", rows |-> rows]
      BY <2>2 DEF NodeInv, TypeInv, TypeOK
    <3>2. \A m \in Nodes : rows[m] # NoRow => Backed(m, rows[m], redeemed)
      BY <2>1, <2>3
    <3> HIDE DEF rows
    <3> QED BY <1>1, <3>1, <3>2 DEF SweepBacked, Backed
  <2> QED BY <1>1, <1>2, <2>4, <2>5, OthersStayBacked DEF NodeInv, Backed
<1> QED BY <1>3, <1>4, <1>5 DEF Reap

(* Whatever stale rows are saved over each other, only an agent that redeemed *)
(* a token of the node is on record, and without one it stays pending         *)
(* (node.py:124, enrollment.py:159).                                          *)
THEOREM OnlyRedeemersGetOnline == Spec => []OnlyRedeemersOnline
<1>1. Init => NodeInv
  <2> SUFFICES ASSUME Init PROVE NodeInv
    OBVIOUS
  <2>1. TypeInv
    BY InitTypeInv
  <2> QED BY <2>1 DEF Init, NodeInv, JobBacked, SweepBacked
<1>2. NodeInv /\ TypeInv' /\ [Next]_nodeVars => NodeInv'
  <2> SUFFICES ASSUME NodeInv, TypeInv', [Next]_nodeVars PROVE NodeInv'
    OBVIOUS
  <2>1. CASE Tick
    BY <2>1, OthersStayBacked DEF Tick, NodeInv, Backed
  <2>2. CASE UNCHANGED nodeVars
    BY <2>2, OthersStayBacked DEF nodeVars, NodeInv, Backed
  <2> QED BY <2>1, <2>2, ArrivalBacked, ProceedBacked, ReapBacked DEF Next
<1>3. NodeInv => OnlyRedeemersOnline
  BY DEF NodeInv, Backed, OnlyRedeemersOnline
<1> QED BY <1>1, <1>2, <1>3, TypeInvHolds, PTL DEF Spec

-----------------------------------------------------------------------------
(* What it costs to be let in *)

Spent(row) == row = NoRow \/ row.used

\* A job has token t in hand.
Carries(state, t) ==
    /\ state # Idle /\ state.at \in {"issuing", "checking", "redeeming", "admitting"}
    /\ state.token = t

\* Nobody was let in by t, and it is not in the table.
Untried(t) == token[t] = NoRow /\ \A e \in redeemed : e.token # t

Fresh(t) == Untried(t) /\ \A j \in Jobs : ~Carries(job[j], t)

JobTokenOk(j) ==
    job[j] # Idle =>
        /\ job[j].at = "issuing" =>
              Untried(job[j].token) /\ \A k \in Jobs \ {j} : ~Carries(job[k], job[j].token)
        /\ job[j].at \in {"checking", "redeeming"} => job[j].cred.used
        /\ job[j].at = "admitting" => Spent(token[job[j].token])

TokenInv ==
    /\ TypeInv
    /\ \A t \in unused.tokens : Fresh(t)
    /\ \A j \in Jobs : JobTokenOk(j)
    /\ \A e \in redeemed : Spent(token[e.token])

\* A token that comes in hand is fresh or in the table.
LEMMA ArrivalTokens ==
  ASSUME TokenInv, TypeInv', NEW j \in Jobs, Arrival(j)
  PROVE  TokenInv'
<1> USE DEF Arrives, Carry
<1>1. token' = token /\ redeemed' = redeemed /\ unused'.tokens \subseteq unused.tokens
  <2>1. token' = token /\ redeemed' = redeemed
    BY DEF Arrival, Register, Heartbeat, Remove, Issue, Enroll, Maintenance
  <2>2. unused \in [nodes : SUBSET Nodes, tokens : SUBSET Tokens]
    BY DEF TokenInv, TypeInv, TypeOK
  <2>3. ASSUME NEW n \in Nodes, Register(j, n) PROVE unused'.tokens = unused.tokens
    BY <2>2, <2>3 DEF Register
  <2>4. ASSUME NEW n \in Nodes, NEW t \in Tokens, Issue(j, n, t)
        PROVE  unused'.tokens \subseteq unused.tokens
    BY <2>2, <2>4 DEF Issue
  <2>5. unused' = unused \/ (\E n \in Nodes : Register(j, n))
        \/ (\E n \in Nodes, t \in Tokens : Issue(j, n, t))
    BY DEF Arrival, Heartbeat, Remove, Enroll, Maintenance
  <2> QED BY <2>1, <2>3, <2>4, <2>5
<1>2. \A k \in Jobs : k # j => job'[k] = job[k]
  BY DEF Arrival, Register, Heartbeat, Remove, Issue, Enroll, Maintenance, TokenInv, TypeInv,
         TypeOK
<1>3. \A t : Untried(t) => Untried(t)'
  BY <1>1 DEF Untried
<1>4. CASE \A t : ~Carries(job'[j], t)
  <2>1. \A t \in Tokens : Fresh(t) => Fresh(t)'
    BY <1>2, <1>3, <1>4 DEF Fresh
  <2>2. job'[j] # Idle => job'[j].at \notin {"issuing", "checking", "redeeming", "admitting"}
    BY <1>4 DEF Carries
  <2>3. \A k \in Jobs : JobTokenOk(k)'
    BY <1>1, <1>2, <1>3, <1>4, <2>2 DEF JobTokenOk, TokenInv
  <2>4. unused.tokens \subseteq Tokens
    BY DEF TokenInv, TypeInv, TypeOK
  <2> QED BY <1>1, <2>1, <2>3, <2>4 DEF TokenInv
<1>5. ASSUME NEW n \in Nodes, Register(j, n) \/ Heartbeat(j, n) \/ Remove(j, n)
      PROVE  \A t : ~Carries(job'[j], t)
  BY <1>5 DEF Register, Heartbeat, Remove, Saving, Carries, TokenInv, TypeInv, TypeOK
<1>6. ASSUME NEW n \in Nodes, NEW flag \in BOOLEAN, Maintenance(j, n, flag)
      PROVE  \A t : ~Carries(job'[j], t)
  BY <1>6 DEF Maintenance, Saving, Carries, TokenInv, TypeInv, TypeOK
<1>7. ASSUME NEW n \in Nodes, NEW s \in Tokens, Issue(j, n, s)
      PROVE  TokenInv'
  <2>1. job'[j].at = "issuing" /\ job'[j].token = s
    BY <1>7 DEF Issue, TokenInv, TypeInv, TypeOK
  <2>2. s \in unused.tokens /\ unused'.tokens = unused.tokens \ {s} /\ Fresh(s)
    BY <1>7 DEF Issue, TokenInv, TypeInv, TypeOK
  <2>3. \A t \in unused'.tokens : Fresh(t)'
    BY <1>2, <1>3, <2>1, <2>2 DEF Fresh, Carries, TokenInv
  <2>4. JobTokenOk(j)'
    BY <1>2, <1>3, <2>1, <2>2 DEF JobTokenOk, Fresh
  <2>5. ASSUME NEW k \in Jobs, k # j PROVE JobTokenOk(k)'
    <3>1. Carries(job[k], job[k].token) => job[k].token # s
      BY <2>2 DEF Fresh, Carries
    <3> QED BY <1>1, <1>2, <1>3, <2>1, <2>5, <3>1 DEF JobTokenOk, Carries, TokenInv
  <2> QED BY <1>1, <2>3, <2>4, <2>5 DEF TokenInv
<1>8. ASSUME NEW s \in Tokens, NEW a \in Agents, Enroll(j, s, a)
      PROVE  TokenInv'
  <2>1. /\ job'[j].at = "checking" /\ job'[j].token = s
        /\ job'[j].cred = [token[s] EXCEPT !.used = TRUE]
    BY <1>8 DEF Enroll, TokenInv, TypeInv, TypeOK
  <2>2. token[s] # NoRow /\ job'[j].cred.used
    BY <1>8, <2>1 DEF Enroll, TokenInv, TypeInv, TypeOK, TokenRows
  <2>3. \A t \in unused'.tokens : Fresh(t)'
    <3>1. \A t \in unused'.tokens : Fresh(t) /\ t # s
      BY <1>1, <2>2 DEF Fresh, Untried, TokenInv
    <3>2. \A t : t # s => ~Carries(job'[j], t)
      BY <2>1 DEF Carries
    <3> QED BY <1>2, <1>3, <3>1, <3>2 DEF Fresh
  <2>4. JobTokenOk(j)'
    BY <2>1, <2>2 DEF JobTokenOk
  <2>5. ASSUME NEW k \in Jobs, k # j PROVE JobTokenOk(k)'
    <3>1. job[k] # Idle /\ job[k].at = "issuing" => job[k].token # s
      BY <2>2 DEF TokenInv, JobTokenOk, Untried
    <3>2. \A t : t # s => ~Carries(job'[j], t)
      BY <2>1 DEF Carries
    <3> QED BY <1>1, <1>2, <1>3, <2>5, <3>1, <3>2 DEF JobTokenOk, TokenInv
  <2> QED BY <1>1, <2>3, <2>4, <2>5 DEF TokenInv
<1> QED BY <1>4, <1>5, <1>6, <1>7, <1>8 DEF Arrival

\* A token that is spent stays spent, and one in hand is only written as it is
\* first issued or as consumed.
LEMMA ProceedTokens ==
  ASSUME TokenInv, TypeInv', NEW j \in Jobs, Proceed(j) \/ RequestDies(j)
  PROVE  TokenInv'
<1> USE DEF At, Carry
<1>1. unused' = unused /\ unused.tokens \subseteq Tokens
  BY DEF Proceed, SaveNewToken, CheckNode, DropOrphans, Redeem, Admit, SaveNode, DeleteNode,
         Publish, RequestDies, TokenInv, TypeInv, TypeOK
<1>2. /\ job \in [Jobs -> JobStates] /\ job' \in [Jobs -> JobStates]
      /\ token \in [Tokens -> TokenRows \cup {NoRow}]
      /\ redeemed \subseteq [token : Tokens, node : Nodes, agent : Agents]
  BY DEF TokenInv, TypeInv, TypeOK
<1>3. \A k \in Jobs : k # j => job'[k] = job[k]
  BY <1>2 DEF Proceed, SaveNewToken, CheckNode, DropOrphans, Redeem, Admit, SaveNode,
              DeleteNode, Publish, RequestDies
<1>4. \A k \in Jobs : \A t : Carries(job'[k], t) => Carries(job[k], t)
  BY <1>2, <1>3 DEF Proceed, SaveNewToken, CheckNode, DropOrphans, Redeem, Admit, SaveNode,
              DeleteNode, Publish, RequestDies, Carries, Publishing
<1>5. ASSUME \A t \in Tokens : token'[t] = token[t] \/ token'[t] = NoRow,
             redeemed' = redeemed, JobTokenOk(j)'
      PROVE  TokenInv'
  <2>1. \A t \in Tokens : /\ Untried(t) => Untried(t)'
                          /\ Spent(token[t]) => Spent(token'[t])
    BY <1>5 DEF Untried, Spent
  <2>2. \A t \in unused.tokens : Fresh(t)'
    BY <1>1, <1>4, <2>1 DEF Fresh, TokenInv
  <2>3. ASSUME NEW k \in Jobs, k # j PROVE JobTokenOk(k)'
    <3>1. job[k] # Idle /\ job[k].at \in {"issuing", "admitting"} => job[k].token \in Tokens
      BY JobInHand DEF TokenInv, TypeInv
    <3> QED BY <1>3, <1>4, <2>1, <2>3, <3>1 DEF JobTokenOk, TokenInv
  <2> QED BY <1>1, <1>2, <1>5, <2>1, <2>2, <2>3 DEF TokenInv
<1>6. CASE SaveNewToken(j)
  <2>1. /\ job[j].token \in Tokens /\ Untried(job[j].token) /\ job'[j] = Idle
        /\ redeemed' = redeemed
        /\ \A k \in Jobs \ {j} : ~Carries(job[k], job[j].token)
    BY <1>2, <1>6, JobInHand DEF SaveNewToken, TokenInv, TypeInv, JobTokenOk
  <2>2. Carries(job[j], job[j].token)
    BY <1>6 DEF SaveNewToken, Carries
  <2>3. \A t \in Tokens : t # job[j].token => token'[t] = token[t]
    BY <1>2, <1>6 DEF SaveNewToken
  <2>4. \A t \in unused.tokens : Fresh(t)'
    BY <1>1, <1>4, <2>1, <2>2, <2>3 DEF Fresh, Untried, TokenInv
  <2>5. \A e \in redeemed : Spent(token'[e.token])
    BY <1>2, <2>1, <2>3 DEF Untried, TokenInv
  <2>6. ASSUME NEW k \in Jobs, k # j PROVE JobTokenOk(k)'
    <3>1. job[k] # Idle /\ job[k].at \in {"issuing", "admitting"} =>
             job[k].token \in Tokens /\ job[k].token # job[j].token
      BY <2>1, <2>6, JobInHand DEF TokenInv, TypeInv, Carries
    <3>2. \A t \in Tokens : t # job[j].token /\ Untried(t) => Untried(t)'
      BY <2>1, <2>3 DEF Untried
    <3> QED BY <1>3, <1>4, <2>3, <2>6, <3>1, <3>2 DEF JobTokenOk, TokenInv
  <2> QED BY <1>1, <2>1, <2>4, <2>5, <2>6 DEF TokenInv, JobTokenOk
<1>7. CASE CheckNode(j)
  <2>1. JobTokenOk(j)'
    BY <1>2, <1>7 DEF CheckNode, JobTokenOk, TokenInv
  <2> QED BY <1>5, <1>7, <2>1 DEF CheckNode
<1>8. CASE DropOrphans(j) \/ DeleteNode(j)
  <2>1. JobTokenOk(j)'
    BY <1>2, <1>8 DEF DropOrphans, DeleteNode, Publishing, JobTokenOk
  <2> QED BY <1>5, <1>8, <2>1 DEF DropOrphans, DeleteNode, WithoutTokensOf
<1>9. CASE SaveNode(j) \/ Publish(j) \/ RequestDies(j)
  <2>1. JobTokenOk(j)'
    BY <1>2, <1>9 DEF SaveNode, Publish, RequestDies, Publishing, JobTokenOk
  <2> QED BY <1>5, <1>9, <2>1 DEF SaveNode, Publish, RequestDies
<1>10. CASE Redeem(j)
  <2>1. /\ job[j].token \in Tokens /\ job[j].cred.used /\ Carries(job[j], job[j].token)
        /\ redeemed' = redeemed
    BY <1>10, JobInHand DEF Redeem, TokenInv, TypeInv, JobTokenOk, Carries
  <2>2. CASE node[job[j].cred.node] = NoRow
    BY <1>2, <1>5, <1>10, <2>2 DEF Redeem, JobTokenOk
  <2>3. CASE node[job[j].cred.node] # NoRow
    <3>1. /\ token' = [token EXCEPT ![job[j].token] = job[j].cred]
          /\ job'[j].at = "admitting" /\ job'[j].token = job[j].token
      BY <1>2, <1>10, <2>3 DEF Redeem
    <3>2. Spent(token'[job[j].token])
      BY <1>2, <2>1, <3>1 DEF Spent
    <3>3. \A t \in Tokens : t # job[j].token => token'[t] = token[t]
      BY <1>2, <3>1
    <3>4. JobTokenOk(j)'
      BY <3>1, <3>2 DEF JobTokenOk
    <3>5. \A t \in unused.tokens : Fresh(t)'
      BY <1>1, <1>4, <2>1, <3>3 DEF Fresh, Untried, TokenInv
    <3>6. ASSUME NEW k \in Jobs, k # j PROVE JobTokenOk(k)'
      <4>1. job[k] # Idle /\ job[k].at \in {"issuing", "admitting"} => job[k].token \in Tokens
        BY JobInHand DEF TokenInv, TypeInv
      <4>2. job[k] # Idle /\ job[k].at = "issuing" => job[k].token # job[j].token
        BY <2>1, <3>6 DEF TokenInv, JobTokenOk
      <4> QED BY <1>3, <1>4, <2>1, <3>2, <3>3, <3>6, <4>1, <4>2
              DEF JobTokenOk, TokenInv, Untried
    <3>7. \A e \in redeemed : Spent(token'[e.token])
      BY <1>2, <3>2, <3>3 DEF TokenInv
    <3> QED BY <1>1, <2>1, <3>4, <3>5, <3>6, <3>7 DEF TokenInv
  <2> QED BY <2>2, <2>3
<1>11. CASE Admit(j)
  <2>1. /\ job[j].token \in Tokens /\ Spent(token[job[j].token]) /\ token' = token
        /\ Carries(job[j], job[j].token) /\ job'[j] = Publishing
        /\ redeemed' = redeemed \cup
              {[token |-> job[j].token, node |-> job[j].node, agent |-> job[j].row.agent]}
    BY <1>2, <1>11, JobInHand DEF Admit, TokenInv, TypeInv, JobTokenOk, Carries
  <2>2. \A t : t # job[j].token /\ Untried(t) => Untried(t)'
    BY <2>1 DEF Untried
  <2>3. \A t \in unused.tokens : Fresh(t)'
    BY <1>4, <2>1, <2>2 DEF Fresh, TokenInv
  <2>4. ASSUME NEW k \in Jobs, k # j PROVE JobTokenOk(k)'
    <3>1. job[k] # Idle /\ job[k].at = "issuing" => job[k].token # job[j].token
      BY <2>1, <2>4 DEF TokenInv, JobTokenOk
    <3> QED BY <1>3, <1>4, <2>1, <2>2, <2>4, <3>1 DEF JobTokenOk, TokenInv
  <2>5. \A e \in redeemed' : Spent(token'[e.token])
    BY <2>1 DEF TokenInv
  <2>6. JobTokenOk(j)'
    BY <2>1 DEF JobTokenOk, Publishing
  <2> QED BY <1>1, <2>3, <2>4, <2>5, <2>6 DEF TokenInv
<1> QED BY <1>6, <1>7, <1>8, <1>9, <1>10, <1>11 DEF Proceed

(* The token is saved before the node and no stale copy makes it unused       *)
(* again: whoever was let in has spent it (enrollment.py:159-160).            *)
THEOREM LetInMeansSpent == Spec => []RedeemedTokenIsSpent
<1>1. Init => TokenInv
  <2> SUFFICES ASSUME Init PROVE TokenInv
    OBVIOUS
  <2>1. TypeInv
    BY InitTypeInv
  <2> QED BY <2>1 DEF Init, TokenInv, Fresh, Untried, Carries, JobTokenOk
<1>2. TokenInv /\ TypeInv' /\ [Next]_nodeVars => TokenInv'
  <2> SUFFICES ASSUME TokenInv, TypeInv', UNCHANGED <<token, unused, job, redeemed>>
      PROVE  TokenInv'
    BY ArrivalTokens, ProceedTokens
       DEF Next, Tick, Reap, ReaperWakes, ReaperLists, ReaperSaves, nodeVars
  <2> QED BY DEF TokenInv, Fresh, Untried, JobTokenOk
<1>3. TokenInv => RedeemedTokenIsSpent
  BY DEF TokenInv, Spent, RedeemedTokenIsSpent
<1> QED BY <1>1, <1>2, <1>3, TypeInvHolds, PTL DEF Spec

-----------------------------------------------------------------------------
(* Enrollment is final *)

Agree(row, other) ==
    row.status # "pending" /\ other.status # "pending" /\ row.agent = other.agent

\* row may be saved over other without taking an enrollment back.
Follows(row, other) == other.status # "pending" => Agree(row, other)

\* A sweep has a copy of n to save.
Swept(r, n) == sweep[r] # Idle /\ sweep[r].at = "saving" /\ sweep[r].rows[n] # NoRow

SweepStays(r) == \A n \in Nodes : Swept(r, n) =>
    /\ sweep[r].rows[n].status # "pending"
    /\ n \notin unused.nodes
    /\ node[n] # NoRow => Agree(node[n], sweep[r].rows[n])

\* Two sweeps may both bring a deleted node back.
SweepsAgree == \A r, s \in Reapers, n \in Nodes :
    Swept(r, n) /\ Swept(s, n) => sweep[r].rows[n].agent = sweep[s].rows[n].agent

\* The request lets an agent in at n: nobody is there yet.
Unenrolled(n) ==
    /\ node[n] # NoRow => node[n].status = "pending"
    /\ \A r \in Reapers : ~ Swept(r, n)

JobStays(j) == job[j] # Idle =>
    /\ job[j].at \in {"saving", "admitting"} => job[j].node \notin unused.nodes
    /\ job[j].at = "saving" =>
          /\ node[job[j].node] # NoRow => Follows(job[j].row, node[job[j].node])
          /\ \A r \in Reapers : Swept(r, job[j].node) => Agree(job[j].row, sweep[r].rows[job[j].node])
    /\ job[j].at = "redeeming" => Unenrolled(job[j].cred.node)
    /\ job[j].at = "admitting" => Unenrolled(job[j].node)

\* What holds of all copies of rows while requests come one at a time.
StayInv ==
    /\ \A j, k \in Jobs : job[j] # Idle /\ job[k] # Idle => j = k
    /\ \A n \in unused.nodes : node[n] = NoRow
    /\ \A r \in Reapers : SweepStays(r)
    /\ SweepsAgree
    /\ \A j \in Jobs : JobStays(j)

\* A request that comes in when no other is in flight saves a row that is new,
\* or what it read in the table with another time or flag.
LEMMA ArrivalStays ==
  ASSUME TypeInv, TypeInv', StayInv, ~ overlapped', NEW j \in Jobs, Arrival(j)
  PROVE  StayInv'
<1> USE DEF Arrives, Carry
<1>1. \A k \in Jobs : job[k] = Idle
  BY DEF Arrival, Register, Heartbeat, Remove, Issue, Enroll, Maintenance
<1>2. node' = node /\ sweep' = sweep
  BY DEF Arrival, Register, Heartbeat, Remove, Issue, Enroll, Maintenance
<1>3. job \in [Jobs -> JobStates] /\ node \in [Nodes -> NodeRows \cup {NoRow}]
      /\ unused \in [nodes : SUBSET Nodes, tokens : SUBSET Tokens]
  BY DEF TypeInv, TypeOK
<1>4. \A k \in Jobs : k # j => job'[k] = Idle
  BY <1>1, <1>3 DEF Arrival, Register, Heartbeat, Remove, Issue, Enroll, Maintenance
<1>5. unused'.nodes \subseteq unused.nodes
  <2>1. ASSUME NEW n \in Nodes, Register(j, n) PROVE unused'.nodes \subseteq unused.nodes
    BY <1>3, <2>1 DEF Register
  <2>2. ASSUME NEW n \in Nodes, NEW t \in Tokens, Issue(j, n, t)
        PROVE  unused'.nodes = unused.nodes
    BY <1>3, <2>2 DEF Issue
  <2>3. unused' = unused \/ (\E n \in Nodes : Register(j, n))
        \/ (\E n \in Nodes, t \in Tokens : Issue(j, n, t))
    BY DEF Arrival, Heartbeat, Remove, Enroll, Maintenance
  <2> QED BY <2>1, <2>2, <2>3
<1>6. /\ \A n \in unused'.nodes : node'[n] = NoRow
      /\ \A r \in Reapers : SweepStays(r)'
      /\ SweepsAgree'
  BY <1>2, <1>5 DEF StayInv, SweepStays, SweepsAgree, Swept
<1>7. ASSUME NEW n \in Nodes, NEW row \in NodeRows, NEW tells,
             job'[j] = Saving(n, row, tells), n \notin unused'.nodes,
             node[n] # NoRow => Follows(row, node[n]),
             node[n] = NoRow => n \in unused.nodes
      PROVE  JobStays(j)'
  <2>1. ASSUME NEW r \in Reapers, Swept(r, n) PROVE Agree(row, sweep[r].rows[n])
    BY <1>7, <2>1 DEF StayInv, SweepStays, Follows, Agree
  <2> QED BY <1>2, <1>7, <2>1 DEF JobStays, Saving, Swept
<1>8. \A n \in Nodes : node[n] # NoRow => n \notin unused'.nodes
  BY <1>5 DEF StayInv
<1>9. JobStays(j)'
  <2>1. ASSUME NEW n \in Nodes, Register(j, n) PROVE JobStays(j)'
    <3>1. job'[j] = Saving(n, PendingRow, TRUE) /\ unused'.nodes = unused.nodes \ {n}
          /\ n \in unused.nodes
      BY <1>3, <2>1 DEF Register
    <3>2. node[n] = NoRow
      BY <3>1 DEF StayInv
    <3> QED BY <1>7, <3>1, <3>2, RowTypes
  <2>2. ASSUME NEW n \in Nodes, Heartbeat(j, n) PROVE JobStays(j)'
    <3>1. job'[j] = Saving(n, Heard(node[n], now), FALSE) /\ node[n] # NoRow
      BY <1>3, <2>2 DEF Heartbeat
    <3>2. Heard(node[n], now) \in NodeRows
      BY <1>3, <3>1, RowTypes DEF TypeInv, TypeOK
    <3>3. Follows(Heard(node[n], now), node[n])
      BY DEF Follows, Agree, Heard
    <3> QED BY <1>7, <1>8, <3>1, <3>2, <3>3
  <2>3. ASSUME NEW n \in Nodes, NEW flag \in BOOLEAN, Maintenance(j, n, flag)
        PROVE  JobStays(j)'
    <3>1. PICK row : row = [node[n] EXCEPT !.maintenance = flag]
      OBVIOUS
    <3>2. job'[j] = Saving(n, row, TRUE) /\ node[n] # NoRow /\ node[n] \in NodeRows
      BY <1>3, <2>3, <3>1 DEF Maintenance
    <3>3. row \in NodeRows /\ Follows(row, node[n])
      BY <3>1, <3>2 DEF Follows, Agree, NodeRows
    <3> QED BY <1>7, <1>8, <3>2, <3>3
  <2>4. ASSUME NEW n \in Nodes, Remove(j, n) PROVE JobStays(j)'
    BY <1>3, <2>4 DEF Remove, JobStays
  <2>5. ASSUME NEW n \in Nodes, NEW t \in Tokens, Issue(j, n, t) PROVE JobStays(j)'
    BY <1>3, <2>5 DEF Issue, JobStays
  <2>6. ASSUME NEW t \in Tokens, NEW a \in Agents, Enroll(j, t, a) PROVE JobStays(j)'
    BY <1>3, <2>6 DEF Enroll, JobStays
  <2> QED BY <2>1, <2>2, <2>3, <2>4, <2>5, <2>6 DEF Arrival
<1>10. \A k \in Jobs : JobStays(k)'
  BY <1>4, <1>9 DEF JobStays
<1> QED BY <1>4, <1>6, <1>10 DEF StayInv

\* Alone, a request lets an agent in at a node that is still pending, and saves
\* over the row that it read.
LEMMA ProceedStays ==
  ASSUME TypeInv, TypeInv', StayInv, NEW j \in Jobs, Proceed(j) \/ RequestDies(j)
  PROVE  StayInv'
<1> USE DEF At, Carry
<1>1. sweep' = sweep /\ unused' = unused
  BY DEF Proceed, SaveNewToken, CheckNode, DropOrphans, Redeem, Admit, SaveNode, DeleteNode,
         Publish, RequestDies
<1>2. job \in [Jobs -> JobStates] /\ node \in [Nodes -> NodeRows \cup {NoRow}]
      /\ unused.nodes \subseteq Nodes
  BY DEF TypeInv, TypeOK
<1>3. job[j] # Idle
  BY DEF Proceed, SaveNewToken, CheckNode, DropOrphans, Redeem, Admit, SaveNode, DeleteNode,
         Publish, RequestDies
<1>4. \A k \in Jobs : k # j => job'[k] = Idle
  <2>1. \A k \in Jobs : k # j => job[k] = Idle
    BY <1>3 DEF StayInv
  <2>2. \A k \in Jobs : k # j => job'[k] = job[k]
    BY <1>2 DEF Proceed, SaveNewToken, CheckNode, DropOrphans, Redeem, Admit, SaveNode,
                DeleteNode, Publish, RequestDies
  <2> QED BY <2>1, <2>2
<1>5. SweepsAgree'
  BY <1>1 DEF StayInv, SweepsAgree, Swept
<1>6. ASSUME JobStays(j)', \A n \in unused.nodes : node'[n] = NoRow,
             \A r \in Reapers : SweepStays(r)'
      PROVE  StayInv'
  BY <1>1, <1>4, <1>5, <1>6 DEF StayInv, JobStays
<1>7. ASSUME node' = node, JobStays(j)' PROVE StayInv'
  <2>1. \A r \in Reapers : SweepStays(r)'
    BY <1>1, <1>7 DEF StayInv, SweepStays, Swept
  <2> QED BY <1>6, <1>7, <2>1 DEF StayInv
<1>8. CASE CheckNode(j)
  <2>1. job[j].cred.node \in Nodes /\ job[j].cred \in TokenRows
    BY <1>8, JobInHand DEF CheckNode, TypeInv, TokenRows
  <2> DEFINE n == job[j].cred.node
  <2>2. CASE node[n] # NoRow /\ node[n].status = "pending"
    <3>1. job'[j].at = "redeeming" /\ job'[j].cred = job[j].cred
      BY <1>2, <1>8, <2>2 DEF CheckNode
    <3>2. \A r \in Reapers : ~ Swept(r, n)
      BY <2>1, <2>2 DEF StayInv, SweepStays, Agree
    <3>3. Unenrolled(n)'
      BY <1>1, <1>8, <2>2, <3>2 DEF CheckNode, Unenrolled, Swept
    <3>4. JobStays(j)'
      BY <3>1, <3>3 DEF JobStays, Unenrolled, Swept
    <3> QED BY <1>7, <1>8, <3>4 DEF CheckNode
  <2>3. CASE ~ (node[n] # NoRow /\ node[n].status = "pending")
    <3>1. job'[j] = Idle \/ job'[j].at = "orphaned"
      BY <1>2, <1>8, <2>3 DEF CheckNode
    <3> QED BY <1>7, <1>8, <3>1 DEF CheckNode, JobStays
  <2> QED BY <2>2, <2>3
<1>9. CASE SaveNewToken(j) \/ DropOrphans(j) \/ Publish(j) \/ RequestDies(j)
  <2>1. job'[j] = Idle /\ node' = node
    BY <1>2, <1>9 DEF SaveNewToken, DropOrphans, Publish, RequestDies
  <2> QED BY <1>7, <2>1 DEF JobStays
<1>10. CASE Redeem(j)
  <2>1. node' = node /\ Unenrolled(job[j].cred.node) /\ job[j].cred.node \in Nodes
    BY <1>3, <1>10, JobInHand DEF Redeem, StayInv, JobStays, TypeInv, TokenRows
  <2>2. CASE node[job[j].cred.node] # NoRow
    <3>1. job'[j].at = "admitting" /\ job'[j].node = job[j].cred.node
      BY <1>2, <1>10, <2>2 DEF Redeem
    <3>2. job[j].cred.node \notin unused.nodes
      BY <2>2 DEF StayInv
    <3>3. JobStays(j)'
      BY <1>1, <2>1, <3>1, <3>2 DEF JobStays, Unenrolled, Swept
    <3> QED BY <1>7, <2>1, <3>3
  <2>3. CASE node[job[j].cred.node] = NoRow
    <3>1. job'[j] = Idle
      BY <1>2, <1>10, <2>3 DEF Redeem
    <3> QED BY <1>7, <2>1, <3>1 DEF JobStays
  <2> QED BY <2>2, <2>3
<1>11. CASE Admit(j) \/ SaveNode(j) \/ DeleteNode(j)
  <2>1. JobStays(j)'
    BY <1>2, <1>11 DEF Admit, SaveNode, DeleteNode, Publishing, JobStays
  <2>2. CASE Admit(j)
    <3>1. /\ job[j].node \in Nodes /\ Unenrolled(job[j].node)
          /\ job[j].node \notin unused.nodes
      BY <2>2, JobInHand DEF Admit, StayInv, JobStays, TypeInv
    <3>2. \A n \in Nodes : n # job[j].node => node'[n] = node[n]
      BY <1>2, <2>2 DEF Admit
    <3>3. \A r \in Reapers : SweepStays(r)'
      BY <1>1, <3>1, <3>2 DEF SweepStays, StayInv, Unenrolled, Swept
    <3> QED BY <1>2, <1>6, <2>1, <3>1, <3>2, <3>3 DEF StayInv
  <2>3. CASE SaveNode(j)
    <3>1. /\ job[j].node \in Nodes /\ job[j].node \notin unused.nodes
          /\ \A r \in Reapers : Swept(r, job[j].node) =>
                Agree(job[j].row, sweep[r].rows[job[j].node])
      BY <2>3, JobInHand DEF SaveNode, StayInv, JobStays, TypeInv
    <3>2. /\ node'[job[j].node] = job[j].row
          /\ \A n \in Nodes : n # job[j].node => node'[n] = node[n]
      BY <1>2, <2>3, <3>1 DEF SaveNode
    <3>3. \A r \in Reapers : SweepStays(r)'
      BY <1>1, <3>1, <3>2 DEF SweepStays, StayInv, Swept
    <3> QED BY <1>2, <1>6, <2>1, <3>1, <3>2, <3>3 DEF StayInv
  <2>4. CASE DeleteNode(j)
    <3>1. \A n \in Nodes : node'[n] = node[n] \/ node'[n] = NoRow
      BY <1>2, <2>4 DEF DeleteNode
    <3>2. \A r \in Reapers : SweepStays(r)'
      BY <1>1, <3>1 DEF SweepStays, StayInv, Swept
    <3> QED BY <1>2, <1>6, <2>1, <3>1, <3>2 DEF StayInv
  <2> QED BY <1>11, <2>2, <2>3, <2>4
<1> QED BY <1>8, <1>9, <1>10, <1>11 DEF Proceed

\* The reaper lists enrolled nodes only and changes nothing but their status.
LEMMA ReapStays ==
  ASSUME TypeInv, TypeInv', StayInv, NEW r \in Reapers, Reap(r)
  PROVE  StayInv'
<1>1. job' = job /\ unused' = unused
  BY DEF Reap, ReaperWakes, ReaperLists, ReaperSaves
<1>2. /\ sweep \in [Reapers -> SweepStates] /\ node \in [Nodes -> NodeRows \cup {NoRow}]
      /\ unused.nodes \subseteq Nodes
  BY DEF TypeInv, TypeOK
<1>3. \A s \in Reapers : s # r => sweep'[s] = sweep[s]
  BY <1>2 DEF Reap, ReaperWakes, ReaperLists, ReaperSaves
<1>4. CASE ReaperWakes(r)
  <2>1. node' = node /\ \A n : ~ Swept(r, n)'
    BY <1>2, <1>4 DEF ReaperWakes, Swept
  <2>2. \A s \in Reapers, n \in Nodes :
           Swept(s, n)' => Swept(s, n) /\ sweep'[s] = sweep[s]
    BY <1>3, <2>1 DEF Swept
  <2>3. \A s \in Reapers : SweepStays(s)'
    BY <1>1, <2>1, <2>2 DEF StayInv, SweepStays
  <2>4. SweepsAgree'
    BY <2>2 DEF StayInv, SweepsAgree
  <2>5. ASSUME NEW k \in Jobs PROVE JobStays(k)'
    <3>1. \A n \in Nodes : Unenrolled(n) => Unenrolled(n)'
      BY <2>1, <2>2 DEF Unenrolled
    <3>2. job[k] # Idle =>
             /\ job[k].at = "redeeming" => job[k].cred.node \in Nodes
             /\ job[k].at \in {"saving", "admitting"} => job[k].node \in Nodes
      BY JobInHand DEF TypeInv, TokenRows
    <3>3. JobStays(k)
      BY DEF StayInv
    <3> QED BY <1>1, <2>1, <2>2, <3>1, <3>2, <3>3 DEF JobStays
  <2> QED BY <1>1, <2>1, <2>3, <2>4, <2>5 DEF StayInv
<1>5. CASE ReaperLists(r)
  <2>1. node' = node /\ sweep[r].now \in Nat
    BY <1>2, <1>5 DEF ReaperLists, SweepStates
  <2>2. ASSUME NEW n \in Nodes, Swept(r, n)'
        PROVE  /\ node[n] # NoRow /\ node[n].status # "pending"
               /\ sweep'[r].rows[n].status # "pending"
               /\ sweep'[r].rows[n].agent = node[n].agent
    <3> DEFINE rows == [m \in Nodes |->
               IF node[m] # NoRow /\ node[m].status # DerivedStatus(node[m], sweep[r].now)
               THEN [node[m] EXCEPT !.status = DerivedStatus(node[m], sweep[r].now)]
               ELSE NoRow]
    <3>1. sweep'[r] = Idle \/ sweep'[r] = [at |-> "saving", rows |-> rows]
      BY <1>2, <1>5 DEF ReaperLists
    <3>2. sweep'[r].rows = rows /\ rows[n] # NoRow
      BY <2>2, <3>1 DEF Swept
    <3>3. /\ node[n] # NoRow /\ node[n] \in NodeRows
          /\ node[n].status # DerivedStatus(node[n], sweep[r].now)
          /\ rows[n] = [node[n] EXCEPT !.status = DerivedStatus(node[n], sweep[r].now)]
      BY <1>2, <3>2
    <3>4. node[n].status # "pending"
      BY <3>3 DEF DerivedStatus
    <3>5. DerivedStatus(node[n], sweep[r].now) # "pending"
      BY <2>1, <3>3, <3>4, DerivedType
    <3>6. rows[n].status # "pending" /\ rows[n].agent = node[n].agent
      BY <3>3, <3>5 DEF NodeRows
    <3> QED BY <3>2, <3>3, <3>4, <3>6
  <2>3. \A s \in Reapers, n \in Nodes : s # r /\ Swept(s, n)' => Swept(s, n)
    BY <1>3 DEF Swept
  <2>4. \A s \in Reapers : SweepStays(s)'
    BY <1>1, <1>3, <2>1, <2>2, <2>3 DEF StayInv, SweepStays, Agree
  <2>5. SweepsAgree'
    BY <1>3, <2>2, <2>3 DEF StayInv, SweepStays, SweepsAgree, Agree
  <2>6. ASSUME NEW k \in Jobs PROVE JobStays(k)'
    <3>1. ASSUME NEW n \in Nodes, Unenrolled(n) PROVE Unenrolled(n)'
      BY <2>1, <2>2, <2>3, <3>1 DEF Unenrolled
    <3>2. ASSUME job[k] # Idle, job[k].at = "saving"
          PROVE  \A s \in Reapers : Swept(s, job[k].node)' =>
                    Agree(job[k].row, sweep'[s].rows[job[k].node])
      <4>1. PICK m \in Nodes : m = job[k].node
        BY <3>2, JobInHand DEF TypeInv
      <4>2. /\ node[m] # NoRow => Follows(job[k].row, node[m])
            /\ \A s \in Reapers : Swept(s, m) => Agree(job[k].row, sweep[s].rows[m])
        BY <3>2, <4>1 DEF StayInv, JobStays
      <4>3. Swept(r, m)' => Agree(job[k].row, sweep'[r].rows[m])
        BY <2>2, <4>2 DEF Follows, Agree
      <4>4. \A s \in Reapers : s # r /\ Swept(s, m)' => Agree(job[k].row, sweep'[s].rows[m])
        BY <1>3, <2>3, <4>2
      <4> QED BY <1>1, <4>1, <4>3, <4>4
    <3>3. job[k] # Idle /\ job[k].at = "redeeming" => job[k].cred.node \in Nodes
      BY JobInHand DEF TypeInv, TokenRows
    <3>4. job[k] # Idle /\ job[k].at = "admitting" => job[k].node \in Nodes
      BY JobInHand DEF TypeInv
    <3>5. JobStays(k)
      BY DEF StayInv
    <3> QED BY <1>1, <2>1, <3>1, <3>2, <3>3, <3>4, <3>5 DEF JobStays
  <2> QED BY <1>1, <2>1, <2>4, <2>5, <2>6 DEF StayInv
<1>6. CASE ReaperSaves(r)
  <2>1. PICK n \in Nodes :
          /\ Swept(r, n)
          /\ node' = [node EXCEPT ![n] = sweep[r].rows[n]]
          /\ LET rows == [sweep[r].rows EXCEPT ![n] = NoRow] IN
             sweep' = [sweep EXCEPT ![r] = IF \A m \in Nodes : rows[m] = NoRow THEN Idle
                                           ELSE [at |-> "saving", rows |-> rows]]
    BY <1>6 DEF ReaperSaves, Swept
  <2>2. sweep[r].rows \in [Nodes -> NodeRows \cup {NoRow}]
    BY <1>2, <2>1 DEF Swept, SweepStates
  <2>3. /\ node'[n] = sweep[r].rows[n] /\ node'[n] # NoRow
        /\ \A m \in Nodes : m # n => node'[m] = node[m]
    BY <1>2, <2>1 DEF Swept
  <2>4. /\ ~ Swept(r, n)'
        /\ \A m \in Nodes : Swept(r, m)' =>
              Swept(r, m) /\ sweep'[r].rows[m] = sweep[r].rows[m]
    <3> DEFINE rows == [sweep[r].rows EXCEPT ![n] = NoRow]
    <3>1. sweep'[r] = Idle \/ sweep'[r] = [at |-> "saving", rows |-> rows]
      BY <1>2, <2>1
    <3>2. rows[n] = NoRow /\ \A m \in Nodes : m # n => rows[m] = sweep[r].rows[m]
      BY <2>2
    <3> HIDE DEF rows
    <3>3. sweep[r] # Idle /\ sweep[r].at = "saving"
      BY <2>1 DEF Swept
    <3> QED BY <3>1, <3>2, <3>3 DEF Swept
  <2>5. \A s \in Reapers, m \in Nodes :
           Swept(s, m)' => Swept(s, m) /\ sweep'[s].rows[m] = sweep[s].rows[m]
    BY <1>3, <2>4 DEF Swept
  <2>6. n \notin unused.nodes /\ sweep[r].rows[n].status # "pending"
    BY <2>1 DEF StayInv, SweepStays
  <2>7. \A s \in Reapers : SweepStays(s)'
    BY <1>1, <2>1, <2>3, <2>5, <2>6 DEF StayInv, SweepStays, SweepsAgree, Agree
  <2>8. SweepsAgree'
    BY <2>5 DEF StayInv, SweepsAgree
  <2>9. ASSUME NEW k \in Jobs PROVE JobStays(k)'
    <3>1. ASSUME NEW m \in Nodes, Unenrolled(m) PROVE Unenrolled(m)'
      BY <2>1, <2>3, <2>5, <3>1 DEF Unenrolled
    <3>2. ASSUME job[k] # Idle, job[k].at = "saving"
          PROVE  /\ node'[job[k].node] # NoRow => Follows(job[k].row, node'[job[k].node])
                 /\ \A s \in Reapers : Swept(s, job[k].node)' =>
                       Agree(job[k].row, sweep'[s].rows[job[k].node])
      <4>1. PICK m \in Nodes : m = job[k].node
        BY <3>2, JobInHand DEF TypeInv
      <4>2. /\ node[m] # NoRow => Follows(job[k].row, node[m])
            /\ \A s \in Reapers : Swept(s, m) => Agree(job[k].row, sweep[s].rows[m])
        BY <3>2, <4>1 DEF StayInv, JobStays
      <4>3. node'[m] # NoRow => Follows(job[k].row, node'[m])
        BY <2>1, <2>3, <4>2 DEF Follows
      <4>4. \A s \in Reapers : Swept(s, m)' => Agree(job[k].row, sweep'[s].rows[m])
        BY <2>5, <4>2
      <4> QED BY <1>1, <4>1, <4>3, <4>4
    <3>3. job[k] # Idle /\ job[k].at = "redeeming" => job[k].cred.node \in Nodes
      BY JobInHand DEF TypeInv, TokenRows
    <3>4. job[k] # Idle /\ job[k].at = "admitting" => job[k].node \in Nodes
      BY JobInHand DEF TypeInv
    <3>5. JobStays(k)
      BY DEF StayInv
    <3> QED BY <1>1, <3>1, <3>2, <3>3, <3>4, <3>5 DEF JobStays
  <2>10. \A m \in unused.nodes : node'[m] = NoRow
    BY <1>2, <2>3, <2>6 DEF StayInv
  <2> QED BY <1>1, <2>7, <2>8, <2>9, <2>10 DEF StayInv
<1> QED BY <1>4, <1>5, <1>6 DEF Reap

\* While requests come one at a time, no step takes an enrollment back.
LEMMA StepStays ==
  ASSUME TypeInv, StayInv, [Next]_nodeVars, NEW n \in Nodes,
         node[n] # NoRow, node'[n] # NoRow, node[n].status # "pending"
  PROVE  node'[n].status # "pending" /\ node'[n].agent = node[n].agent
<1>1. node \in [Nodes -> NodeRows \cup {NoRow}]
  BY DEF TypeInv, TypeOK
<1>2. CASE node' = node
  BY <1>2
<1>3. ASSUME NEW j \in Jobs, Admit(j)
      PROVE  node'[n] = node[n]
  <2>1. Unenrolled(job[j].node)
    BY <1>3 DEF Admit, At, StayInv, JobStays
  <2> QED BY <1>1, <1>3, <2>1 DEF Admit, Unenrolled
<1>4. ASSUME NEW j \in Jobs, SaveNode(j)
      PROVE  node'[n] = node[n] \/ Agree(node'[n], node[n])
  BY <1>1, <1>4 DEF SaveNode, At, StayInv, JobStays, Follows
<1>5. ASSUME NEW j \in Jobs, DeleteNode(j)
      PROVE  node'[n] = node[n]
  BY <1>1, <1>5 DEF DeleteNode
<1>6. ASSUME NEW r \in Reapers, ReaperSaves(r)
      PROVE  node'[n] = node[n] \/ Agree(node[n], node'[n])
  <2>1. PICK m \in Nodes : Swept(r, m) /\ node' = [node EXCEPT ![m] = sweep[r].rows[m]]
    BY <1>6 DEF ReaperSaves, Swept
  <2> QED BY <1>1, <2>1 DEF StayInv, SweepStays
<1>7. \/ node' = node
      \/ \E j \in Jobs : Admit(j) \/ SaveNode(j) \/ DeleteNode(j)
      \/ \E r \in Reapers : ReaperSaves(r)
  BY DEF Next, Arrival, Register, Heartbeat, Remove, Issue, Enroll, Maintenance, Proceed,
         SaveNewToken, CheckNode, DropOrphans, Redeem, Publish, RequestDies, Reap,
         ReaperWakes, ReaperLists, Tick, nodeVars
<1> QED BY <1>2, <1>3, <1>4, <1>5, <1>6, <1>7 DEF Agree

(* "Transition from pending to online after agent connects" (node.py:85) is   *)
(* final while requests do not overlap, whatever the reapers of any number of *)
(* replicas save late and wherever a request dies.                            *)
THEOREM EnrollmentIsFinal == Spec => EnrolledStaysEnrolled
<1>1. Init => (overlapped \/ StayInv)
  BY DEF Init, StayInv, SweepStays, SweepsAgree, Swept, JobStays
<1>2. TypeInv /\ TypeInv' /\ (overlapped \/ StayInv) /\ [Next]_nodeVars
      => (overlapped \/ StayInv)'
  <2> SUFFICES ASSUME TypeInv, TypeInv', overlapped \/ StayInv, [Next]_nodeVars,
                      ~ overlapped'
               PROVE  StayInv'
    OBVIOUS
  <2>1. ~ overlapped
    BY DEF Next, Arrival, Register, Heartbeat, Remove, Issue, Enroll, Maintenance, Arrives,
           Proceed, SaveNewToken, CheckNode, DropOrphans, Redeem, Admit, SaveNode, DeleteNode,
           Publish, RequestDies, Reap, ReaperWakes, ReaperLists, ReaperSaves, Tick, nodeVars
  <2>2. CASE UNCHANGED <<node, unused, job, sweep>>
    BY <2>1, <2>2 DEF StayInv, SweepStays, SweepsAgree, Swept, JobStays, Unenrolled
  <2> QED BY <2>1, <2>2, ArrivalStays, ProceedStays, ReapStays DEF Next, Tick, nodeVars
<1>3. TypeInv /\ (overlapped \/ StayInv) /\ (overlapped \/ StayInv)' /\ [Next]_nodeVars
      => [~overlapped' => \A n \in Nodes :
            node[n] # NoRow /\ node'[n] # NoRow /\ node[n].status # "pending"
            => node'[n].status # "pending" /\ node'[n].agent = node[n].agent]_nodeVars
  <2> SUFFICES ASSUME TypeInv, overlapped \/ StayInv, [Next]_nodeVars, ~ overlapped'
               PROVE  \A n \in Nodes :
                        node[n] # NoRow /\ node'[n] # NoRow /\ node[n].status # "pending"
                        => node'[n].status # "pending" /\ node'[n].agent = node[n].agent
    OBVIOUS
  <2>1. ~ overlapped
    BY DEF Next, Arrival, Register, Heartbeat, Remove, Issue, Enroll, Maintenance, Arrives,
           Proceed, SaveNewToken, CheckNode, DropOrphans, Redeem, Admit, SaveNode, DeleteNode,
           Publish, RequestDies, Reap, ReaperWakes, ReaperLists, ReaperSaves, Tick, nodeVars
  <2> QED BY <2>1, StepStays
<1> QED BY <1>1, <1>2, <1>3, TypeInvHolds, PTL DEF Spec, EnrolledStaysEnrolled

=============================================================================
