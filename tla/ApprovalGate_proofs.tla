------------------------ MODULE ApprovalGate_proofs ------------------------
(***************************************************************************)
(* Theorems about ApprovalGate, for every set of tasks, workers and        *)
(* actions.                                                                *)
(***************************************************************************)
EXTENDS ApprovalGate, TLAPS, FiniteSetTheorems

-----------------------------------------------------------------------------
(* Type correctness                                                        *)

\* A pass that finishes has a task in hand, one that is about to request, park
\* or execute has a call in hand, and one that consumes or parks has a row.
InHand ==
  \A w \in Workers :
    /\ pc[w] # "idle" => job[w] \in Tasks
    /\ pc[w] \in {"find", "consume", "request", "insert", "park", "execute"}
         => act[w] \in Acts
    /\ pc[w] \in {"consume", "park"} => grant[w] \in Ids
    /\ pc[w] \notin {"consume", "park", "execute"} => grant[w] = NoRow

TypeInv == TypeOK /\ InHand

LEMMA LeaveType ==
  ASSUME TypeInv, NEW w \in Workers, Leave(w)
  PROVE  /\ pc' \in [Workers -> Steps]
         /\ job' \in [Workers -> Tasks \cup {NoTask}]
         /\ act' \in [Workers -> Acts \cup {NoAct}]
         /\ grant' \in [Workers -> Ids \cup {NoRow}]
         /\ InHand'
BY DEF TypeInv, TypeOK, InHand, Leave, Goto, Steps

LEMMA StatusWriteType ==
  ASSUME StoreType, NEW i \in Ids, NEW s \in RowStatuses,
         row' = [row EXCEPT ![i].status = s], UNCHANGED next
  PROVE  StoreType'
BY DEF StoreType

LEMMA TypeInit == Init => TypeInv
BY ApprovalsAssumption, GateAssumption
   DEF Init, TypeInv, TypeOK, InHand, StoreInit, StoreType, Phases, Steps,
       RowStatuses, Open, Ids

LEMMA TypeNext == TypeInv /\ [Next]_vars => TypeInv'
<1> SUFFICES ASSUME TypeInv, [Next]_vars PROVE TypeInv'
  OBVIOUS
<1> USE ApprovalsAssumption, GateAssumption
<1>1. ASSUME NEW w \in Workers, NEW t \in Tasks, Take(w, t)
      PROVE  TypeInv'
  BY <1>1 DEF Take, TypeInv, TypeOK, InHand, Goto, Steps, Phases, storeVars, StoreType
<1>2. ASSUME NEW w \in Workers, NEW t \in Tasks, ReadParked(w, t)
      PROVE  TypeInv'
  BY <1>2 DEF ReadParked, TypeInv, TypeOK, InHand, Goto, Steps, storeVars, taskVars, StoreType
<1>3. ASSUME NEW t \in Tasks, Rekick(t)
      PROVE  TypeInv'
  BY <1>3 DEF Rekick, TypeInv, TypeOK, InHand, Phases, storeVars, passVars, StoreType
<1>4. ASSUME NEW i \in Ids, Resolve(i)
      PROVE  TypeInv'
  BY <1>4 DEF Resolve, ResolveAs, TypeInv, TypeOK, InHand, taskVars, passVars,
              StoreType, RowStatuses, Open
<1>5. ASSUME NEW w \in Workers, Die(w)
      PROVE  TypeInv'
  BY <1>5, LeaveType DEF Die, TypeInv, TypeOK, storeVars, taskVars, StoreType
<1>6. ASSUME NEW w \in Workers, WorkerStep(w)
      PROVE  TypeInv'
  <2>1. CASE Call(w)
    BY <2>1 DEF Call, Decision, TypeInv, TypeOK, InHand, Goto, Steps, storeVars, taskVars, StoreType
  <2>2. CASE FindGrant(w)
    BY <2>2 DEF FindGrant, TypeInv, TypeOK, InHand, Goto, Steps, storeVars, taskVars, StoreType
  <2>3. CASE ConsumeGrant(w)
    <3>1. grant[w] \in Ids /\ act[w] \in Acts
      BY <2>3 DEF ConsumeGrant, TypeInv, InHand
    <3>2. StoreType'
      <4>1. CASE Consume(grant[w])
        BY <4>1, <3>1, StatusWriteType DEF Consume, TypeInv, TypeOK, RowStatuses
      <4>2. CASE UNCHANGED storeVars
        BY <4>2 DEF storeVars, TypeInv, TypeOK, StoreType
      <4> QED
        BY <2>3, <4>1, <4>2 DEF ConsumeGrant
    <3>3. InHand'
      BY <2>3, <3>1 DEF ConsumeGrant, Consume, TypeInv, TypeOK, InHand, Goto
    <3> QED
      BY <2>3, <3>2, <3>3 DEF ConsumeGrant, TypeInv, TypeOK, Goto, Steps, taskVars
  <2>4. CASE LookUp(w)
    BY <2>4 DEF LookUp, TypeInv, TypeOK, InHand, Goto, Steps, storeVars, taskVars, StoreType
  <2>5. CASE Insert(w)
    BY <2>5 DEF Insert, InsertPending, TypeInv, TypeOK, InHand, Goto, Steps, taskVars,
                StoreType, RowStatuses, Open, Ids
  <2>6. CASE Park(w)
    BY <2>6, LeaveType DEF Park, TypeInv, TypeOK, InHand, storeVars, StoreType, Phases
  <2>7. CASE Execute(w)
    BY <2>7 DEF Execute, TypeInv, TypeOK, InHand, Goto, Steps, storeVars, taskVars, StoreType
  <2>8. CASE Finish(w) \/ Fail(w)
    BY <2>8, LeaveType DEF Finish, Fail, Complete, TypeInv, TypeOK, storeVars, StoreType, Phases
  <2>9. CASE Requeue(w) \/ Deny(w)
    BY <2>9, LeaveType DEF Requeue, Deny, TypeInv, TypeOK, storeVars, StoreType, Phases
  <2> QED
    BY <1>6, <2>1, <2>2, <2>3, <2>4, <2>5, <2>6, <2>7, <2>8, <2>9 DEF WorkerStep
<1>7. CASE UNCHANGED vars
  BY <1>7 DEF vars, storeVars, taskVars, passVars, TypeInv, TypeOK, InHand, StoreType
<1> QED
  BY <1>1, <1>2, <1>3, <1>4, <1>5, <1>6, <1>7 DEF Next

\* Every reachable state is well typed.
THEOREM TypeCorrect == Spec => []TypeOK
<1>1. TypeInv => TypeOK
  BY DEF TypeInv
<1> QED
  BY <1>1, TypeInit, TypeNext, PTL DEF Spec

-----------------------------------------------------------------------------
(* One grant, one execution                                                *)

\* Between consume_grant and the execution the row is spent, not yet used, and
\* in the hands of one pass.
SpentOnce ==
  /\ \A w \in Workers : pc[w] = "execute" /\ grant[w] # NoRow =>
       row[grant[w]].status = "consumed" /\ used[grant[w]] = 0
  /\ \A w, v \in Workers :
       w # v /\ pc[w] = "execute" /\ pc[v] = "execute" /\ grant[w] # NoRow
         => grant[w] # grant[v]

\* A row not yet spent authorizes nothing.
UnspentUnused == \A i \in Ids : row[i].status # "consumed" => used[i] = 0

GrantInv == OneShot /\ UnspentUnused /\ SpentOnce

\* Rows are inserted in order and never removed.
RowsInOrder == \A i \in Ids : row[i].status = "absent" <=> i >= next

LEMMA RowsInOrderNext == TypeInv /\ RowsInOrder /\ [Next]_vars => RowsInOrder'
<1> SUFFICES ASSUME TypeInv, RowsInOrder, [Next]_vars PROVE RowsInOrder'
  OBVIOUS
<1> USE DEF TypeInv, TypeOK, StoreType, RowsInOrder, Ids
<1>1. ASSUME NEW w \in Workers, Insert(w)
      PROVE  RowsInOrder'
  BY <1>1, ApprovalsAssumption DEF Insert, InsertPending
<1>2. ASSUME NEW w \in Workers, ConsumeGrant(w)
      PROVE  RowsInOrder'
  <2>1. grant[w] \in Ids
    BY <1>2 DEF ConsumeGrant, InHand
  <2> QED
    BY <1>2, <2>1 DEF ConsumeGrant, Consume, Consumable, storeVars
<1>3. ASSUME NEW i \in Ids, Resolve(i)
      PROVE  RowsInOrder'
  BY <1>3 DEF Resolve, ResolveAs, Undecided
<1>4. CASE UNCHANGED storeVars
  BY <1>4 DEF storeVars
<1> QED
  BY <1>1, <1>2, <1>3, <1>4
     DEF Next, WorkerStep, Take, ReadParked, Rekick, Die, Call, FindGrant, LookUp,
         Park, Execute, Finish, Fail, Complete, Requeue, Deny, vars

\* The store's own guards: a verdict is never taken back, and a grant is only
\* ever spent.
LEMMA VerdictsStand ==
  ASSUME TypeInv, RowsInOrder, [Next]_vars, NEW i \in Ids
  PROVE  /\ row[i].status \in {"denied", "consumed"} => row'[i] = row[i]
         /\ row[i].status = "approved" => row'[i].status \in {"approved", "consumed"}
<1> USE DEF TypeInv, TypeOK, StoreType, Ids
<1> DEFINE Stands == /\ row[i].status \in {"denied", "consumed"} => row'[i] = row[i]
                     /\ row[i].status = "approved" => row'[i].status \in {"approved", "consumed"}
<1>1. ASSUME NEW w \in Workers, Insert(w)
      PROVE  Stands
  BY <1>1 DEF Insert, InsertPending, RowsInOrder
<1>2. ASSUME NEW w \in Workers, ConsumeGrant(w)
      PROVE  Stands
  BY <1>2 DEF ConsumeGrant, Consume, Consumable, storeVars
<1>3. ASSUME NEW j \in Ids, Resolve(j)
      PROVE  Stands
  BY <1>3 DEF Resolve, ResolveAs, Undecided
<1>4. CASE UNCHANGED storeVars
  BY <1>4 DEF storeVars
<1> QED
  BY <1>1, <1>2, <1>3, <1>4
     DEF Next, WorkerStep, Take, ReadParked, Rekick, Die, Call, FindGrant, LookUp,
         Park, Execute, Finish, Fail, Complete, Requeue, Deny, vars

LEMMA GrantNext == TypeInv /\ RowsInOrder /\ GrantInv /\ [Next]_vars => GrantInv'
<1> SUFFICES ASSUME TypeInv, RowsInOrder, GrantInv, [Next]_vars PROVE GrantInv'
  OBVIOUS
<1> USE DEF TypeInv, TypeOK, StoreType, GrantInv, OneShot, UnspentUnused, SpentOnce
<1>0. NoRow \notin Ids
  BY GateAssumption
<1>1. ASSUME NEW w \in Workers, Execute(w)
      PROVE  GrantInv'
  <2>1. /\ row' = row
        /\ pc'[w] # "execute"
        /\ \A v \in Workers \ {w} : pc'[v] = pc[v] /\ grant'[v] = grant[v]
    BY <1>1 DEF Execute, Goto, storeVars
  <2>2. CASE grant[w] = NoRow
    BY <1>1, <2>1, <2>2 DEF Execute
  <2>3. CASE grant[w] # NoRow
    <3>1. grant[w] \in Ids /\ used[grant[w]] = 0 /\ row[grant[w]].status = "consumed"
      BY <1>1, <2>3 DEF Execute
    <3>2. used' = [used EXCEPT ![grant[w]] = 1]
      BY <1>1, <2>3, <3>1 DEF Execute
    <3>3. \A v \in Workers \ {w} : pc[v] = "execute" /\ grant[v] # NoRow
            => grant[v] \in Ids /\ grant[v] # grant[w]
      BY <1>1, <2>3 DEF Execute
    <3>4. OneShot' /\ UnspentUnused'
      BY <2>1, <3>1, <3>2
    <3>5. ASSUME NEW v \in Workers, pc'[v] = "execute", grant'[v] # NoRow
          PROVE  row'[grant'[v]].status = "consumed" /\ used'[grant'[v]] = 0
      <4>1. v # w /\ pc[v] = "execute" /\ grant'[v] = grant[v] /\ grant[v] # NoRow
        BY <2>1, <3>5
      <4>2. grant[v] \in Ids /\ grant[v] # grant[w]
        BY <3>3, <4>1
      <4>3. row[grant[v]].status = "consumed" /\ used[grant[v]] = 0
        BY <4>1
      <4> QED
        BY <2>1, <3>1, <3>2, <4>1, <4>2, <4>3
    <3>6. \A u, v \in Workers :
            u # v /\ pc'[u] = "execute" /\ pc'[v] = "execute" /\ grant'[u] # NoRow
              => grant'[u] # grant'[v]
      BY <2>1
    <3> QED
      BY <3>4, <3>5, <3>6
  <2> QED
    BY <2>2, <2>3
<1>2. ASSUME NEW w \in Workers, ConsumeGrant(w)
      PROVE  GrantInv'
  <2>1. grant[w] \in Ids /\ used' = used
    BY <1>2 DEF ConsumeGrant, InHand
  <2>2. \A v \in Workers \ {w} : pc'[v] = pc[v] /\ grant'[v] = grant[v]
    BY <1>2 DEF ConsumeGrant, Goto
  <2>3. CASE Consume(grant[w])
    <3>1. /\ row[grant[w]].status = "approved" /\ used[grant[w]] = 0
          /\ row' = [row EXCEPT ![grant[w]].status = "consumed"]
          /\ grant' = grant
      BY <1>2, <2>1, <2>3 DEF ConsumeGrant, Consume, Consumable
    <3> QED
      BY <2>1, <2>2, <3>1, <1>0
  <2>4. CASE ~Consumable(grant[w])
    BY <1>2, <2>1, <2>2, <2>4 DEF ConsumeGrant, Consume, Goto, storeVars
  <2> QED
    BY <1>2, <2>3, <2>4 DEF ConsumeGrant
<1>3. ASSUME NEW w \in Workers, Insert(w)
      PROVE  GrantInv'
  <2>1. /\ next \in Ids /\ row[next].status = "absent"
        /\ row' = [row EXCEPT ![next] = [act |-> act[w], status |-> "pending"]]
        /\ used' = used /\ pc'[w] # "execute"
        /\ \A v \in Workers \ {w} : pc'[v] = pc[v] /\ grant'[v] = grant[v]
    BY <1>3 DEF Insert, InsertPending, RowsInOrder, Goto, Ids
  <2>2. used[next] = 0 /\ row'[next].status = "pending"
    BY <2>1
  <2>3. \A i \in Ids \ {next} : row'[i] = row[i]
    BY <2>1
  <2>4. OneShot' /\ UnspentUnused'
    BY <2>1, <2>2, <2>3
  <2>5. SpentOnce'
    BY <2>1, <2>3, <1>0
  <2> QED
    BY <2>4, <2>5
<1>4. ASSUME NEW i \in Ids, Resolve(i)
      PROVE  GrantInv'
  BY <1>4, <1>0 DEF Resolve, ResolveAs, Undecided, passVars
<1>5. ASSUME NEW w \in Workers, Call(w)
      PROVE  GrantInv'
  <2>1. /\ row' = row /\ used' = used /\ grant' = grant /\ grant[w] = NoRow
        /\ \A v \in Workers \ {w} : pc'[v] = pc[v]
    BY <1>5 DEF Call, storeVars, Goto, InHand
  <2> QED
    BY <2>1
<1>6. CASE /\ row' = row /\ used' = used
           /\ \A v \in Workers : pc'[v] = "execute" => pc[v] = "execute" /\ grant'[v] = grant[v]
  BY <1>6
<1>7. ASSUME NEW w \in Workers,
             \/ FindGrant(w) \/ LookUp(w) \/ Park(w) \/ Finish(w) \/ Fail(w)
             \/ Requeue(w) \/ Deny(w) \/ Die(w)
             \/ \E t \in Tasks : Take(w, t) \/ ReadParked(w, t)
      PROVE  /\ row' = row /\ used' = used
             /\ \A v \in Workers : pc'[v] = "execute" => pc[v] = "execute" /\ grant'[v] = grant[v]
  BY <1>7 DEF FindGrant, LookUp, Park, Finish, Fail, Complete, Requeue, Deny, Die,
              Take, ReadParked, Goto, Leave, storeVars
<1>8. CASE (\E t \in Tasks : Rekick(t)) \/ UNCHANGED vars
  BY <1>6, <1>8 DEF Rekick, storeVars, passVars, vars
<1> QED
  BY <1>1, <1>2, <1>3, <1>4, <1>5, <1>6, <1>7, <1>8 DEF Next, WorkerStep

LEMMA StoreAlways == Spec => [](TypeInv /\ RowsInOrder)
<1>1. Init => RowsInOrder
  BY ApprovalsAssumption DEF Init, StoreInit, RowsInOrder, Ids
<1> QED
  BY <1>1, TypeInit, TypeNext, RowsInOrderNext, PTL DEF Spec

\* enforce.invoke: a row authorizes at most one execution, and only once a
\* human approved it and a pass spent it.
THEOREM GrantIsOneShot == Spec => []OneShot
<1>1. Init => GrantInv
  BY DEF Init, StoreInit, GrantInv, OneShot, UnspentUnused, SpentOnce
<1>2. GrantInv => OneShot
  BY DEF GrantInv
<1> QED
  BY <1>1, <1>2, GrantNext, StoreAlways, PTL DEF Spec

\* resolve_approval and consume_grant: verdicts are final.
THEOREM VerdictStands == Spec => VerdictsAreFinal
<1>1. TypeInv /\ RowsInOrder /\ [Next]_vars =>
        \A i \in Ids :
          /\ row[i].status \in {"denied", "consumed"} => row'[i] = row[i]
          /\ row[i].status = "approved" => row'[i].status \in {"approved", "consumed"}
  BY VerdictsStand
<1> QED
  BY <1>1, StoreAlways, PTL DEF Spec, VerdictsAreFinal

-----------------------------------------------------------------------------
(* One pass per task, one open row per action                              *)

\* A pass works on a task that is running, or was failed by a forced denial in
\* the middle of the pass; two passes work on two tasks.
Exclusive ==
  /\ \A w \in Workers : pc[w] \in Working => phase[job[w]] \in {"running", "abandoned"}
  /\ \A w, v \in Workers :
       w # v /\ pc[w] \in Working /\ pc[v] \in Working => job[w] # job[v]

LEMMA ExclusiveNext ==
  ASSUME AccurateDetector, TypeInv, Exclusive, [Next]_vars
  PROVE  Exclusive'
<1> USE DEF TypeInv, TypeOK, Exclusive, Working, Steps
<1>1. ASSUME NEW w \in Workers, NEW t \in Tasks, Take(w, t)
      PROVE  Exclusive'
  <2>1. \A v \in Workers : pc[v] \in Working => job[v] # t
    BY <1>1 DEF Take
  <2> QED
    BY <1>1, <2>1 DEF Take, Goto, InHand
<1>2. ASSUME NEW t \in Tasks, Rekick(t)
      PROVE  Exclusive'
  BY <1>2 DEF Rekick, Busy, passVars, InHand
<1>3. ASSUME NEW w \in Workers, WorkerStep(w) \/ Die(w)
      PROVE  Exclusive'
  <2>1. \A v \in Workers \ {w} : pc'[v] = pc[v] /\ job'[v] = job[v]
    BY <1>3 DEF WorkerStep, Die, Call, FindGrant, ConsumeGrant, LookUp, Insert, Park,
                Execute, Finish, Fail, Complete, Requeue, Deny, Goto, Leave
  <2>2. pc'[w] \in Working => pc[w] \in Working /\ job'[w] = job[w]
    BY <1>3 DEF WorkerStep, Die, Call, FindGrant, ConsumeGrant, LookUp, Insert, Park,
                Execute, Finish, Fail, Complete, Requeue, Deny, Goto, Leave
  <2>3. \A v \in Workers : pc'[v] \in Working => phase'[job'[v]] \in {"running", "abandoned"}
    <3>1. CASE phase' = phase
      BY <2>1, <2>2, <3>1
    <3>2. CASE Deny(w) \/ Requeue(w)
      BY <2>1, <2>2, <3>2 DEF Deny, Requeue, Leave, Goto, InHand
    <3>3. CASE Park(w) \/ Finish(w) \/ Fail(w)
      <4>1. /\ pc[w] \in Working /\ pc'[w] = "idle"
            /\ \A t \in Tasks \ {job[w]} : phase'[t] = phase[t]
        BY <3>3 DEF Park, Finish, Fail, Complete, Leave, Goto
      <4>2. \A v \in Workers \ {w} : pc[v] \in Working => job[v] \in Tasks \ {job[w]}
        BY <4>1 DEF InHand
      <4> QED
        BY <2>1, <4>1, <4>2
    <3> QED
      BY <1>3, <3>1, <3>2, <3>3
         DEF WorkerStep, Die, Call, FindGrant, ConsumeGrant, LookUp, Insert, Execute, taskVars
  <2> QED
    BY <2>1, <2>2, <2>3
<1>4. ASSUME NEW w \in Workers, NEW t \in Tasks, ReadParked(w, t)
      PROVE  Exclusive'
  BY <1>4 DEF ReadParked, Goto, taskVars
<1>5. CASE (\E i \in Ids : Resolve(i)) \/ UNCHANGED vars
  BY <1>5 DEF Resolve, taskVars, passVars, vars
<1> QED
  BY <1>1, <1>2, <1>3, <1>4, <1>5 DEF Next

\* The call in hand belongs to the task in hand, and so does the row: a row to
\* consume is for that call, a row to park on is still open or was denied.
Holding == {"find", "consume", "request", "insert", "park", "execute"}
CallsOwn ==
  \A w \in Workers :
    /\ pc[w] \in Holding => act[w] \in ActsOf[job[w]]
    /\ pc[w] \in {"consume", "park"} =>
         row[grant[w]].act = act[w] /\ row[grant[w]].status # "absent"
    /\ pc[w] = "park" => row[grant[w]].status # "consumed"

\* Whoever is about to insert a row has seen that there is none.
InsertFresh == \A w \in Workers : pc[w] = "insert" => RowsOf(act[w], Open) = {}

\* A blocked task waits for a row of its own that nobody has spent.
ParkedOwn ==
  \A t \in Tasks : phase[t] = "blocked" =>
    /\ parkedOn[t] \in Ids
    /\ row[parkedOn[t]].act \in ActsOf[t]
    /\ row[parkedOn[t]].status \notin {"absent", "consumed"}

GateInv == Exclusive /\ CallsOwn /\ InsertFresh /\ ParkedOwn /\ NoDuplicateOpen

\* A step of one worker leaves the others where they are, and no step moves two.
LEMMA OthersStay ==
  ASSUME NEW w \in Workers,
         WorkerStep(w) \/ Die(w) \/ \E t \in Tasks : Take(w, t) \/ ReadParked(w, t), TypeInv
  PROVE  \A v \in Workers \ {w} : /\ pc'[v] = pc[v] /\ job'[v] = job[v]
                                  /\ act'[v] = act[v] /\ grant'[v] = grant[v]
BY DEF WorkerStep, Die, Take, ReadParked, Call, FindGrant, ConsumeGrant, LookUp, Insert,
       Park, Execute, Finish, Fail, Complete, Requeue, Deny, Goto, Leave, TypeInv, TypeOK

\* Two passes never have one call in hand.
LEMMA CallsDiffer ==
  ASSUME TypeInv, Exclusive, CallsOwn, NEW w \in Workers, NEW v \in Workers, w # v,
         pc[w] \in Holding, pc[v] \in Holding
  PROVE  act[w] # act[v]
BY GateAssumption DEF TypeInv, InHand, Exclusive, CallsOwn, Holding, Working, Steps

\* A pass and a blocked task never share a call.
LEMMA BlockedCallsDiffer ==
  ASSUME TypeInv, Exclusive, CallsOwn, ParkedOwn, NEW w \in Workers, NEW t \in Tasks,
         pc[w] \in Holding, phase[t] = "blocked"
  PROVE  act[w] # row[parkedOn[t]].act
BY GateAssumption DEF TypeInv, InHand, Exclusive, CallsOwn, ParkedOwn, Holding, Working, Steps

\* The four ways a step can treat the rows.
LEMMA StoreSteps ==
  ASSUME [Next]_vars
  PROVE  \/ UNCHANGED storeVars
         \/ \E w \in Workers : Insert(w)
         \/ \E w \in Workers : pc[w] = "consume" /\ Consume(grant[w])
         \/ \E i \in Ids : Resolve(i)
BY DEF Next, WorkerStep, Take, ReadParked, Rekick, Die, Call, FindGrant, LookUp,
       Park, Execute, Finish, Fail, Complete, Requeue, Deny, vars, storeVars, ConsumeGrant

\* A row keeps its call for ever, and only the pass that has it in hand spends it.
LEMMA RowsStand ==
  ASSUME TypeInv, RowsInOrder, [Next]_vars, NEW i \in Ids, row[i].status # "absent"
  PROVE  /\ row'[i].act = row[i].act /\ row'[i].status # "absent"
         /\ row'[i].status = "consumed" =>
              row[i].status = "consumed" \/ \E w \in Workers : pc[w] = "consume" /\ grant[w] = i
<1> USE DEF TypeInv, TypeOK, StoreType
<1>1. CASE UNCHANGED storeVars
  BY <1>1 DEF storeVars
<1>2. ASSUME NEW w \in Workers, Insert(w)
      PROVE  row'[i] = row[i]
  BY <1>2 DEF Insert, InsertPending, RowsInOrder, Ids
<1>3. ASSUME NEW w \in Workers, pc[w] = "consume", Consume(grant[w])
      PROVE  /\ row'[i].act = row[i].act /\ row'[i].status # "absent"
             /\ grant[w] # i => row'[i] = row[i]
  BY <1>3 DEF Consume
<1>4. ASSUME NEW j \in Ids, Resolve(j)
      PROVE  /\ row'[i].act = row[i].act /\ row'[i].status # "absent"
             /\ row'[i].status = "consumed" => row[i].status = "consumed"
  BY <1>4 DEF Resolve, ResolveAs
<1> QED
  BY <1>1, <1>2, <1>3, <1>4, StoreSteps

\* The policy sends a pass to find a grant, to execute, or to fail.
LEMMA CallGoes ==
  ASSUME TypeInv, NEW w \in Workers, Call(w)
  PROVE  /\ pc'[w] \in {"find", "execute", "fail"} /\ act'[w] \in ActsOf[job[w]]
         /\ UNCHANGED <<storeVars, job, grant>>
<1>1. PICK a \in ActsOf[job[w]] : act' = [act EXCEPT ![w] = a] /\ Goto(w, Decision[Effect[a]])
  BY DEF Call
<1>2. a \in Acts /\ Effect[a] \in {"allow", "ask", "deny"}
  BY GateAssumption DEF Call, TypeInv, InHand
<1>3. Decision[Effect[a]] \in {"find", "execute", "fail"}
  BY <1>2 DEF Decision
<1> QED
  BY <1>1, <1>2, <1>3 DEF Call, TypeInv, TypeOK, Goto

LEMMA CallsOwnNext ==
  ASSUME TypeInv, RowsInOrder, Exclusive, CallsOwn, [Next]_vars
  PROVE  CallsOwn'
<1> DEFINE Own(v) ==
      /\ pc[v] \in Holding => act[v] \in ActsOf[job[v]]
      /\ pc[v] \in {"consume", "park"} =>
           row[grant[v]].act = act[v] /\ row[grant[v]].status # "absent"
      /\ pc[v] = "park" => row[grant[v]].status # "consumed"
<1>1. ASSUME NEW v \in Workers, UNCHANGED <<pc[v], job[v], act[v], grant[v]>>
      PROVE  Own(v)'
  <2>1. CASE pc[v] \notin {"consume", "park"}
    BY <1>1, <2>1 DEF CallsOwn
  <2>2. CASE pc[v] \in {"consume", "park"}
    <3>1. grant[v] \in Ids /\ row[grant[v]].status # "absent" /\ row[grant[v]].act = act[v]
      BY <2>2 DEF TypeInv, InHand, CallsOwn
    <3>2. row'[grant[v]].act = act[v] /\ row'[grant[v]].status # "absent"
      BY <3>1, RowsStand
    <3>3. ASSUME pc[v] = "park", row'[grant[v]].status = "consumed"
          PROVE  FALSE
      <4>1. row[grant[v]].status # "consumed"
        BY <3>3 DEF CallsOwn
      <4>2. PICK w \in Workers : pc[w] = "consume" /\ grant[w] = grant[v]
        BY <3>1, <3>3, <4>1, RowsStand
      <4>3. row[grant[w]].act = act[w] /\ w # v
        BY <3>3, <4>2 DEF CallsOwn
      <4> QED
        BY <3>1, <3>3, <4>2, <4>3, CallsDiffer DEF Holding
    <3> QED
      BY <1>1, <3>2, <3>3 DEF CallsOwn
  <2> QED
    BY <2>1, <2>2
<1>2. ASSUME NEW w \in Workers, WorkerStep(w) \/ Die(w) \/ \E t \in Tasks : Take(w, t) \/ ReadParked(w, t)
      PROVE  Own(w)'
  <2> USE DEF TypeInv, TypeOK, CallsOwn, Goto
  <2>1. CASE Call(w)
    BY <2>1, CallGoes, GateAssumption DEF Holding
  <2>2. CASE FindGrant(w)
    BY <2>2 DEF FindGrant, IsGrantFor, RowsOf, storeVars, Holding, Open
  <2>3. CASE ConsumeGrant(w)
    BY <2>3 DEF ConsumeGrant, Holding
  <2>4. CASE LookUp(w)
    BY <2>4 DEF LookUp, OldestOpen, RowsOf, Reusable, Open, storeVars, Holding
  <2>5. CASE Insert(w)
    BY <2>5 DEF Insert, InsertPending, StoreType, Holding
  <2>6. CASE Park(w) \/ Finish(w) \/ Fail(w) \/ Requeue(w) \/ Deny(w) \/ Die(w) \/ Execute(w)
    BY <2>6 DEF Park, Finish, Fail, Complete, Requeue, Deny, Die, Execute, Leave, Holding
  <2>7. CASE \E t \in Tasks : Take(w, t) \/ ReadParked(w, t)
    BY <2>7 DEF Take, ReadParked, Holding
  <2> QED
    BY <1>2, <2>1, <2>2, <2>3, <2>4, <2>5, <2>6, <2>7 DEF WorkerStep
<1>3. ASSUME NEW w \in Workers, WorkerStep(w) \/ Die(w) \/ \E t \in Tasks : Take(w, t) \/ ReadParked(w, t)
      PROVE  CallsOwn'
  BY <1>1, <1>2, <1>3, OthersStay DEF CallsOwn
<1>4. CASE UNCHANGED passVars
  BY <1>1, <1>4 DEF passVars, CallsOwn
<1> QED
  BY <1>3, <1>4 DEF Next, Rekick, Resolve, vars

LEMMA InsertFreshNext ==
  ASSUME TypeInv, RowsInOrder, Exclusive, CallsOwn, InsertFresh, [Next]_vars
  PROVE  InsertFresh'
<1> USE DEF TypeInv, TypeOK, StoreType
<1> SUFFICES ASSUME NEW v \in Workers, pc'[v] = "insert", NEW i \in Ids,
                    row'[i].act = act'[v], row'[i].status \in Open
             PROVE  FALSE
  BY DEF InsertFresh, RowsOf
<1>1. CASE LookUp(v)
  BY <1>1 DEF LookUp, Goto, RowsOf, Reusable, Open, storeVars
<1>2. CASE pc[v] = "insert" /\ act'[v] = act[v]
  <2>1. i \notin RowsOf(act[v], Open)
    BY <1>2 DEF InsertFresh
  <2>2. CASE UNCHANGED storeVars
    BY <1>2, <2>1, <2>2 DEF storeVars, RowsOf
  <2>3. ASSUME NEW w \in Workers, Insert(w)
        PROVE  FALSE
    <3>1. w # v /\ act[w] # act[v]
      BY <1>2, <2>3, CallsDiffer DEF Insert, Goto, Holding
    <3> QED
      BY <1>2, <2>1, <2>3, <3>1 DEF Insert, InsertPending, RowsOf
  <2>4. ASSUME NEW w \in Workers, pc[w] = "consume", Consume(grant[w])
        PROVE  FALSE
    BY <1>2, <2>1, <2>4 DEF Consume, RowsOf, Open
  <2>5. ASSUME NEW j \in Ids, Resolve(j)
        PROVE  FALSE
    BY <1>2, <2>1, <2>5 DEF Resolve, ResolveAs, Undecided, RowsOf, Open
  <2> QED
    BY <2>2, <2>3, <2>4, <2>5, StoreSteps
<1>3. LookUp(v) \/ (pc[v] = "insert" /\ act'[v] = act[v])
  <2>1. ASSUME NEW w \in Workers,
               WorkerStep(w) \/ Die(w) \/ \E t \in Tasks : Take(w, t) \/ ReadParked(w, t)
        PROVE  LookUp(v) \/ (pc[v] = "insert" /\ act'[v] = act[v])
    <3>1. CASE v # w
      BY <2>1, <3>1, OthersStay
    <3>2. CASE v = w
      BY <2>1, <3>2, CallGoes DEF WorkerStep, Die, Take, ReadParked, FindGrant, ConsumeGrant,
           Insert, Park, Execute, Finish, Fail, Complete, Requeue, Deny, Goto, Leave
    <3> QED
      BY <3>1, <3>2
  <2>2. CASE UNCHANGED passVars
    BY <2>2 DEF passVars
  <2> QED
    BY <2>1, <2>2 DEF Next, Rekick, Resolve, vars
<1> QED
  BY <1>1, <1>2, <1>3

LEMMA NoDuplicateNext ==
  ASSUME TypeInv, RowsInOrder, Exclusive, CallsOwn, InsertFresh, NoDuplicateOpen, [Next]_vars
  PROVE  NoDuplicateOpen'
<1> USE DEF TypeInv, TypeOK, StoreType
<1> SUFFICES ASSUME NEW a \in Acts, NEW i \in Ids, NEW j \in Ids,
                    row'[i].act = a, row'[i].status \in Open,
                    row'[j].act = a, row'[j].status \in Open
             PROVE  i = j
  BY DEF NoDuplicateOpen, RowsOf
<1>1. ASSUME NEW k \in Ids, row[k].act = row'[k].act, row'[k].status \in Open => row[k].status \in Open,
             NEW l \in Ids, row[l].act = row'[l].act, row'[l].status \in Open => row[l].status \in Open,
             k = i, l = j
      PROVE  i = j
  BY <1>1 DEF NoDuplicateOpen, RowsOf
<1>2. CASE UNCHANGED storeVars
  BY <1>1, <1>2 DEF storeVars
<1>3. ASSUME NEW w \in Workers, Insert(w)
      PROVE  i = j
  <2>1. RowsOf(act[w], Open) = {}
    BY <1>3 DEF Insert, InsertFresh
  <2> QED
    BY <1>1, <1>3, <2>1 DEF Insert, InsertPending, RowsOf
<1>4. ASSUME NEW w \in Workers, pc[w] = "consume", Consume(grant[w])
      PROVE  i = j
  BY <1>1, <1>4 DEF Consume, Open
<1>5. ASSUME NEW k \in Ids, Resolve(k)
      PROVE  i = j
  BY <1>1, <1>5 DEF Resolve, ResolveAs, Undecided, Open
<1> QED
  BY <1>2, <1>3, <1>4, <1>5, StoreSteps

LEMMA ParkedOwnNext ==
  ASSUME TypeInv, RowsInOrder, Exclusive, CallsOwn, ParkedOwn, [Next]_vars
  PROVE  ParkedOwn'
<1> USE DEF TypeInv, TypeOK
<1> SUFFICES ASSUME NEW t \in Tasks, phase'[t] = "blocked"
             PROVE  /\ parkedOn'[t] \in Ids
                    /\ row'[parkedOn'[t]].act \in ActsOf[t]
                    /\ row'[parkedOn'[t]].status \notin {"absent", "consumed"}
  BY DEF ParkedOwn
<1>1. ASSUME NEW w \in Workers, Park(w), job[w] = t, phase[t] = "running"
      PROVE  /\ parkedOn'[t] \in Ids
             /\ row'[parkedOn'[t]].act \in ActsOf[t]
             /\ row'[parkedOn'[t]].status \notin {"absent", "consumed"}
  BY <1>1 DEF Park, InHand, CallsOwn, Holding, storeVars
<1>2. CASE phase[t] = "blocked" /\ parkedOn'[t] = parkedOn[t]
  <2>1. /\ parkedOn[t] \in Ids /\ row[parkedOn[t]].act \in ActsOf[t]
        /\ row[parkedOn[t]].status \notin {"absent", "consumed"}
    BY <1>2 DEF ParkedOwn
  <2>2. ASSUME NEW w \in Workers, pc[w] = "consume", grant[w] = parkedOn[t]
        PROVE  FALSE
    <3>1. row[grant[w]].act = act[w]
      BY <2>2 DEF CallsOwn
    <3> QED
      BY <1>2, <2>2, <3>1, BlockedCallsDiffer DEF Holding
  <2> QED
    BY <1>2, <2>1, <2>2, RowsStand
<1>3. \/ phase[t] = "blocked" /\ parkedOn'[t] = parkedOn[t]
      \/ \E w \in Workers : Park(w) /\ job[w] = t /\ phase[t] = "running"
  BY DEF Next, WorkerStep, Take, ReadParked, Rekick, Die, Call, FindGrant, LookUp, Insert,
         ConsumeGrant, Park, Execute, Finish, Fail, Complete, Requeue, Deny, Resolve,
         vars, taskVars, InHand
<1> QED
  BY <1>1, <1>2, <1>3

LEMMA GateAlways ==
  ASSUME AccurateDetector
  PROVE  Spec => []GateInv
<1>1. Init => GateInv
  BY DEF Init, StoreInit, GateInv, Exclusive, CallsOwn, InsertFresh, ParkedOwn,
         NoDuplicateOpen, RowsOf, Open, Working, Steps, Holding
<1>2. TypeInv /\ RowsInOrder /\ GateInv /\ [Next]_vars => GateInv'
  BY ExclusiveNext, CallsOwnNext, InsertFreshNext, NoDuplicateNext, ParkedOwnNext
     DEF GateInv
<1> QED
  BY <1>1, <1>2, StoreAlways, PTL DEF Spec

\* request_approval: when a task is re-kicked only after its worker is gone, no
\* action ever has two open rows.
THEOREM RequestIsIdempotent ==
  ASSUME AccurateDetector
  PROVE  Spec => []NoDuplicateOpen
<1>1. GateInv => NoDuplicateOpen
  BY DEF GateInv
<1> QED
  BY <1>1, GateAlways, PTL

\* resume_approved: under the same assumption the row a blocked task waits for
\* is never spent by anybody else.
THEOREM ParkedStaysResumable ==
  ASSUME AccurateDetector
  PROVE  Spec => []ParkedIsResumable
<1>1. GateInv => ParkedIsResumable
  BY GateAssumption DEF GateInv, ParkedOwn, ParkedIsResumable
<1> QED
  BY <1>1, GateAlways, PTL

-----------------------------------------------------------------------------
(* Asked for a reason.  Of the rows of a call, those not run and not       *)
(* denied are: at most one that is open or in the hand of the pass about   *)
(* to run it (SpendsAlone), and those that were in the hand of a pass that *)
(* died, of which there are no more than deaths (LostToDeaths).            *)

\* A pass about to run its call holds the row that paid for it, and no other row of that
\* call is open.
SpendsAlone ==
  \A w \in Workers : pc[w] = "execute" /\ grant[w] # NoRow =>
    row[grant[w]].act = act[w] /\ RowsOf(act[w], Open) = {}

\* A row spent and not used is in a pass's hand, or lost with one.
InUse(i) == \E w \in Workers : pc[w] = "execute" /\ grant[w] = i
Lost == {i \in Ids : row[i].status = "consumed" /\ used[i] = 0 /\ ~InUse(i)}
LostToDeaths == Cardinality(Lost) <= crashes

AbsentIsBlank == \A i \in Ids : row[i].status = "absent" => row[i].act = NoAct

ReasonInv == SpendsAlone /\ LostToDeaths /\ AbsentIsBlank

LEMMA IdsFinite == \A S \in SUBSET Ids : IsFiniteSet(S) /\ Cardinality(S) \in Nat
<1>1. IsFiniteSet(Ids)
  BY ApprovalsAssumption, FS_Interval DEF Ids
<1>. QED BY <1>1, FS_Subset, FS_CardinalityType

LEMMA CardUnion ==
  ASSUME NEW S \in SUBSET Ids, NEW T \in SUBSET Ids
  PROVE  Cardinality(S \cup T) <= Cardinality(S) + Cardinality(T)
<1>1. IsFiniteSet(S) /\ IsFiniteSet(T) /\ S \cap T \in SUBSET Ids
  BY IdsFinite
<1>2. Cardinality(S \cup T) = Cardinality(S) + Cardinality(T) - Cardinality(S \cap T)
  BY <1>1, FS_Union
<1>3. Cardinality(S) \in Nat /\ Cardinality(T) \in Nat /\ Cardinality(S \cap T) \in Nat
  BY <1>1, IdsFinite
<1>. QED BY <1>2, <1>3

LEMMA AtMostOne ==
  ASSUME NEW S, \A i, j \in S : i = j PROVE IsFiniteSet(S) /\ Cardinality(S) <= 1
<1>1. CASE S = {}
  BY <1>1, FS_EmptySet
<1>2. ASSUME NEW x \in S PROVE IsFiniteSet(S) /\ Cardinality(S) <= 1
  <2>1. S = {x}
    OBVIOUS
  <2>2. IsFiniteSet({x}) /\ Cardinality({x}) = 1
    BY FS_Singleton
  <2>. QED BY <2>1, <2>2
<1>. QED BY <1>1, <1>2

LEMMA AbsentNext ==
  ASSUME TypeInv, RowsInOrder, AbsentIsBlank, [Next]_vars PROVE AbsentIsBlank'
<1> SUFFICES ASSUME NEW i \in Ids, row'[i].status = "absent" PROVE row'[i].act = NoAct
  BY DEF AbsentIsBlank
<1>1. row[i].status = "absent"
  BY RowsStand
<1> USE DEF TypeInv, TypeOK, StoreType
<1>2. CASE UNCHANGED storeVars
  BY <1>1, <1>2 DEF storeVars, AbsentIsBlank
<1>3. ASSUME NEW w \in Workers, Insert(w) PROVE row'[i] = row[i]
  BY <1>3 DEF Insert, InsertPending
<1>4. ASSUME NEW w \in Workers, pc[w] = "consume", Consume(grant[w]) PROVE row'[i] = row[i]
  BY <1>1, <1>4 DEF Consume, Consumable
<1>5. ASSUME NEW j \in Ids, Resolve(j) PROVE row'[i] = row[i]
  BY <1>1, <1>5 DEF Resolve, ResolveAs, Undecided
<1>. QED BY <1>1, <1>2, <1>3, <1>4, <1>5, StoreSteps DEF AbsentIsBlank

\* Only an insertion opens a row.
LEMMA OpensByInsert ==
  ASSUME TypeInv, RowsInOrder, [Next]_vars, NEW i \in Ids, row'[i].status \in Open
  PROVE  \/ row[i].status \in Open /\ row'[i].act = row[i].act
         \/ \E w \in Workers : Insert(w) /\ row'[i].act = act[w]
<1> USE DEF TypeInv, TypeOK, StoreType
<1>1. CASE UNCHANGED storeVars
  BY <1>1 DEF storeVars
<1>2. ASSUME NEW w \in Workers, Insert(w)
      PROVE  row'[i] = row[i] \/ row'[i].act = act[w]
  BY <1>2 DEF Insert, InsertPending
<1>3. ASSUME NEW w \in Workers, pc[w] = "consume", Consume(grant[w])
      PROVE  row'[i].act = row[i].act /\ row[i].status \in Open
  BY <1>3 DEF Consume, Consumable, Open
<1>4. ASSUME NEW j \in Ids, Resolve(j)
      PROVE  row'[i].act = row[i].act /\ row[i].status \in Open
  BY <1>4 DEF Resolve, ResolveAs, Undecided, Open
<1>. QED BY <1>1, <1>2, <1>3, <1>4, StoreSteps

LEMMA SpendsAloneNext ==
  ASSUME TypeInv, RowsInOrder, Exclusive, CallsOwn, NoDuplicateOpen, GrantInv, SpendsAlone, [Next]_vars
  PROVE  SpendsAlone'
<1> SUFFICES ASSUME NEW v \in Workers, pc'[v] = "execute", grant'[v] # NoRow
             PROVE  /\ row'[grant'[v]].act = act'[v]
                    /\ \A i \in Ids : row'[i].act = act'[v] => row'[i].status \notin Open
  BY DEF SpendsAlone, RowsOf
<1>0. grant[v] \in Ids \cup {NoRow}
  BY DEF TypeInv, TypeOK
<1>1. CASE UNCHANGED <<pc[v], act[v], grant[v]>>
  <2>1. row[grant[v]].act = act[v] /\ RowsOf(act[v], Open) = {} /\ row[grant[v]].status = "consumed"
    BY <1>1 DEF SpendsAlone, GrantInv, SpentOnce
  <2>2. row'[grant[v]].act = act[v]
    BY <1>0, <1>1, <2>1, RowsStand
  <2>3. ASSUME NEW i \in Ids, row'[i].act = act[v], row'[i].status \in Open PROVE FALSE
    <3>1. row[i].status \notin Open \/ row[i].act # act[v]
      BY <2>1 DEF RowsOf
    <3>2. PICK w \in Workers : Insert(w) /\ act[w] = act[v]
      BY <2>3, <3>1, OpensByInsert
    <3>3. pc[w] = "insert" /\ w # v
      BY <1>1, <3>2 DEF Insert
    <3>. QED BY <1>1, <3>2, <3>3, CallsDiffer DEF Holding
  <2>. QED BY <1>1, <2>2, <2>3 DEF RowsOf
<1>2. CASE pc[v] = "consume" /\ Consume(grant[v]) /\ UNCHANGED <<act[v], grant[v]>>
  <2>1. grant[v] \in Ids /\ row[grant[v]].act = act[v] /\ row[grant[v]].status = "approved"
    BY <1>2 DEF TypeInv, InHand, CallsOwn, Consume, Consumable
  <2>2. row' = [row EXCEPT ![grant[v]].status = "consumed"]
    BY <1>2 DEF Consume
  <2>3. act[v] \in Acts
    BY <1>2 DEF TypeInv, InHand
  <2>4. \A i \in RowsOf(act[v], Open) : i = grant[v]
    BY <2>1, <2>3 DEF NoDuplicateOpen, RowsOf, Open
  <2>5. row'[grant[v]].act = act[v] /\ row'[grant[v]].status = "consumed"
        /\ \A i \in Ids \ {grant[v]} : row'[i] = row[i]
    BY <2>1, <2>2 DEF TypeInv, TypeOK, StoreType
  <2>. QED BY <1>2, <2>4, <2>5 DEF RowsOf, Open
<1>3. ASSUME NEW w \in Workers, WorkerStep(w) \/ Die(w) \/ \E t \in Tasks : Take(w, t) \/ ReadParked(w, t)
      PROVE  \/ UNCHANGED <<pc[v], act[v], grant[v]>>
             \/ pc[v] = "consume" /\ Consume(grant[v]) /\ UNCHANGED <<act[v], grant[v]>>
  <2>1. CASE v # w
    BY <1>3, <2>1, OthersStay
  <2>2. CASE v = w
    <3> USE DEF TypeInv, TypeOK, InHand, Goto
    <3>1. CASE ConsumeGrant(w)
      BY <2>2, <3>1 DEF ConsumeGrant
    <3>2. CASE Call(w)
      BY <2>2, <3>2, CallGoes DEF Call
    <3>3. CASE FindGrant(w) \/ LookUp(w) \/ Insert(w) \/ Execute(w)
      BY <2>2, <3>3 DEF FindGrant, LookUp, Insert, Execute
    <3>4. CASE Park(w) \/ Finish(w) \/ Fail(w) \/ Requeue(w) \/ Deny(w) \/ Die(w)
      BY <2>2, <3>4 DEF Park, Finish, Fail, Complete, Requeue, Deny, Die, Leave
    <3>5. CASE \E t \in Tasks : Take(w, t) \/ ReadParked(w, t)
      BY <2>2, <3>5 DEF Take, ReadParked
    <3>. QED BY <1>3, <3>1, <3>2, <3>3, <3>4, <3>5 DEF WorkerStep
  <2>. QED BY <2>1, <2>2
<1>4. CASE UNCHANGED passVars
  BY <1>1, <1>4 DEF passVars
<1>. QED BY <1>1, <1>2, <1>3, <1>4 DEF Next, Rekick, Resolve, vars

\* What is lost stays in bounds while no pass dies.
LEMMA LostStays ==
  ASSUME TypeInv, LostToDeaths, crashes' = crashes,
         \A i \in Ids : row'[i].status = "consumed" /\ used'[i] = 0 =>
            \/ row[i].status = "consumed" /\ used[i] = 0 /\ (InUse(i) => InUse(i)')
            \/ InUse(i)'
  PROVE  LostToDeaths'
<1>1. Lost' \subseteq Lost
  BY DEF Lost
<1>2. Lost \in SUBSET Ids /\ Lost' \in SUBSET Lost
  BY <1>1 DEF Lost
<1>3. Cardinality(Lost') <= Cardinality(Lost)
  BY <1>2, IdsFinite, FS_Subset
<1>4. Cardinality(Lost') \in Nat /\ Cardinality(Lost) \in Nat /\ crashes \in Nat
  BY <1>1, <1>2, IdsFinite, GateAssumption DEF TypeInv, TypeOK
<1>. QED BY <1>3, <1>4 DEF LostToDeaths

LEMMA LostNext ==
  ASSUME TypeInv, RowsInOrder, GrantInv, LostToDeaths, [Next]_vars
  PROVE  LostToDeaths'
<1> USE DEF TypeInv, TypeOK, InHand
<1>0. NoRow \notin Ids
  BY GateAssumption
<1>1. ASSUME NEW w \in Workers, Die(w) PROVE LostToDeaths'
  <2>1. /\ UNCHANGED <<row, used>> /\ crashes' = crashes + 1
        /\ \A v \in Workers \ {w} : pc'[v] = pc[v] /\ grant'[v] = grant[v]
    BY <1>1 DEF Die, Leave, Goto, storeVars
  <2>2. \A i \in Ids \ {grant[w]} : InUse(i) => InUse(i)'
    BY <2>1 DEF InUse
  <2>3. Lost' \subseteq Lost \cup ({grant[w]} \cap Ids)
    BY <2>1, <2>2 DEF Lost
  <2>4. Cardinality(Lost') <= Cardinality(Lost \cup ({grant[w]} \cap Ids))
    <3>1. Lost \cup ({grant[w]} \cap Ids) \in SUBSET Ids
      BY DEF Lost
    <3>. QED BY <2>3, <3>1, IdsFinite, FS_Subset
  <2>5. Cardinality(Lost \cup ({grant[w]} \cap Ids)) <= Cardinality(Lost) + Cardinality({grant[w]} \cap Ids)
    <3>1. Lost \in SUBSET Ids /\ ({grant[w]} \cap Ids) \in SUBSET Ids
      BY DEF Lost
    <3>. QED BY <3>1, CardUnion
  <2>6. Cardinality({grant[w]} \cap Ids) <= 1
    BY AtMostOne
  <2>7. /\ Lost \in SUBSET Ids /\ Lost' \in SUBSET Ids /\ ({grant[w]} \cap Ids) \in SUBSET Ids
        /\ Lost \cup ({grant[w]} \cap Ids) \in SUBSET Ids
    BY DEF Lost
  <2>8. /\ Cardinality(Lost) \in Nat /\ Cardinality(Lost') \in Nat
        /\ Cardinality({grant[w]} \cap Ids) \in Nat
        /\ Cardinality(Lost \cup ({grant[w]} \cap Ids)) \in Nat
    BY <2>7, IdsFinite
  <2>9. crashes \in Nat /\ Cardinality(Lost) <= crashes
    BY GateAssumption DEF LostToDeaths
  <2>. QED BY <2>1, <2>4, <2>5, <2>6, <2>8, <2>9 DEF LostToDeaths
<1>2. ASSUME NEW w \in Workers, Execute(w) PROVE LostToDeaths'
  <2>1. /\ UNCHANGED <<row, crashes>>
        /\ used' = IF grant[w] # NoRow THEN [used EXCEPT ![grant[w]] = @ + 1] ELSE used
        /\ \A v \in Workers \ {w} : pc'[v] = pc[v] /\ grant'[v] = grant[v]
    BY <1>2 DEF Execute, Goto, storeVars
  <2>2. ASSUME NEW i \in Ids, used'[i] = 0 PROVE used[i] = 0 /\ i # grant[w]
    BY <1>0, <2>1, <2>2
  <2>3. \A i \in Ids \ {grant[w]} : InUse(i) => InUse(i)'
    BY <2>1 DEF InUse
  <2>. QED BY <2>1, <2>2, <2>3, LostStays
<1>3. ASSUME NEW w \in Workers, ConsumeGrant(w) PROVE LostToDeaths'
  <2>1. /\ UNCHANGED <<used, crashes>> /\ pc[w] = "consume" /\ grant[w] \in Ids
        /\ \A v \in Workers \ {w} : pc'[v] = pc[v] /\ grant'[v] = grant[v]
    BY <1>3 DEF ConsumeGrant, Goto, taskVars
  <2>2. \A i \in Ids : InUse(i) => InUse(i)'
    BY <2>1 DEF InUse
  <2>3. ASSUME NEW i \in Ids, row'[i].status = "consumed"
        PROVE  row[i].status = "consumed" \/ InUse(i)'
    <3>1. CASE Consume(grant[w]) /\ Goto(w, "execute") /\ UNCHANGED grant
      <4>1. pc'[w] = "execute" /\ grant'[w] = grant[w]
        BY <3>1 DEF Goto
      <4>2. i # grant[w] => row'[i] = row[i]
        BY <3>1 DEF Consume, StoreType
      <4>. QED BY <2>3, <4>1, <4>2 DEF InUse
    <3>2. CASE UNCHANGED storeVars
      BY <2>3, <3>2 DEF storeVars
    <3>. QED BY <1>3, <3>1, <3>2 DEF ConsumeGrant
  <2>. QED BY <2>1, <2>2, <2>3, LostStays
<1>4. CASE /\ UNCHANGED <<used, crashes>>
           /\ \A v \in Workers : pc[v] = "execute" => pc'[v] = "execute" /\ grant'[v] = grant[v]
           /\ \A w \in Workers : ~ConsumeGrant(w)
  <2>1. \A i \in Ids : InUse(i) => InUse(i)'
    BY <1>4 DEF InUse
  <2>2. ASSUME NEW i \in Ids, row'[i].status = "consumed" PROVE row[i].status = "consumed"
    <3> USE DEF StoreType
    <3>1. CASE UNCHANGED storeVars
      BY <2>2, <3>1 DEF storeVars
    <3>2. ASSUME NEW w \in Workers, Insert(w) PROVE row[i].status = "consumed"
      BY <2>2, <3>2 DEF Insert, InsertPending
    <3>3. ASSUME NEW j \in Ids, Resolve(j) PROVE row[i].status = "consumed"
      BY <2>2, <3>3 DEF Resolve, ResolveAs
    <3>4. \/ UNCHANGED storeVars \/ (\E w \in Workers : Insert(w)) \/ (\E j \in Ids : Resolve(j))
      BY <1>4 DEF Next, WorkerStep, Take, ReadParked, Rekick, Die, Call, FindGrant, LookUp,
                  Park, Execute, Finish, Fail, Complete, Requeue, Deny, vars, storeVars
    <3>. QED BY <3>1, <3>2, <3>3, <3>4
  <2>. QED BY <1>4, <2>1, <2>2, LostStays
<1>5. ASSUME NEW w \in Workers,
             \/ Call(w) \/ FindGrant(w) \/ LookUp(w) \/ Insert(w) \/ Park(w) \/ Finish(w) \/ Fail(w)
             \/ Requeue(w) \/ Deny(w)
             \/ \E t \in Tasks : Take(w, t) \/ ReadParked(w, t)
      PROVE  /\ UNCHANGED <<used, crashes>>
             /\ \A v \in Workers : pc[v] = "execute" => pc'[v] = "execute" /\ grant'[v] = grant[v]
  BY <1>5 DEF Call, FindGrant, LookUp, Insert, Park, Finish, Fail, Complete, Requeue, Deny,
              Take, ReadParked, Goto, Leave
<1>6. CASE (\E t \in Tasks : Rekick(t)) \/ (\E i \in Ids : Resolve(i)) \/ UNCHANGED vars
  <2>1. UNCHANGED <<used, crashes, pc, grant>>
    BY <1>6 DEF Rekick, Resolve, passVars, vars
  <2>. QED BY <1>3, <1>4, <2>1
<1>. QED BY <1>1, <1>2, <1>3, <1>4, <1>5, <1>6 DEF Next, WorkerStep

LEMMA ReasonCounts ==
  ASSUME TypeInv, RowsInOrder, GrantInv, GateInv, ReasonInv PROVE AskedForAReason
<1> SUFFICES ASSUME NEW a \in Acts
             PROVE  Cardinality(RowsOf(a, RowStatuses))
                      <= Cardinality({i \in RowsOf(a, {"consumed"}) : used[i] = 1})
                         + Cardinality(RowsOf(a, {"denied"})) + crashes + 1
  BY DEF AskedForAReason
<1> DEFINE R == RowsOf(a, RowStatuses)
           U == {i \in RowsOf(a, {"consumed"}) : used[i] = 1}
           D == RowsOf(a, {"denied"})
           H == {i \in Ids : row[i].act = a /\ InUse(i)}
           O == RowsOf(a, Open) \cup H
<1>0. NoRow \notin Ids
  BY GateAssumption
<1>1. \A i \in H : \E w \in Workers : pc[w] = "execute" /\ grant[w] = i /\ act[w] = a
  BY <1>0 DEF InUse, ReasonInv, SpendsAlone
<1>2. \A i, j \in O : i = j
  <2>1. \A i, j \in RowsOf(a, Open) : i = j
    BY DEF GateInv, NoDuplicateOpen
  <2>2. \A i, j \in H : i = j
    BY <1>1, CallsDiffer DEF GateInv, Holding
  <2>3. H # {} => RowsOf(a, Open) = {}
    BY <1>0, <1>1 DEF ReasonInv, SpendsAlone
  <2>. QED BY <2>1, <2>2, <2>3
<1>3. R \subseteq (U \cup D) \cup (Lost \cup O)
  <2> SUFFICES ASSUME NEW i \in R PROVE i \in (U \cup D) \cup (Lost \cup O)
    OBVIOUS
  <2>1. i \in Ids /\ row[i].act = a /\ row[i].status \in RowStatuses /\ row[i].status # "absent"
    BY ApprovalsAssumption DEF RowsOf, ReasonInv, AbsentIsBlank
  <2>2. used[i] = 0 \/ used[i] = 1
    BY <2>1 DEF GrantInv, OneShot, TypeInv, TypeOK
  <2>. QED BY <2>1, <2>2 DEF RowsOf, RowStatuses, Open, Lost
<1>4. /\ R \in SUBSET Ids /\ U \in SUBSET Ids /\ D \in SUBSET Ids /\ Lost \in SUBSET Ids
      /\ O \in SUBSET Ids /\ U \cup D \in SUBSET Ids /\ Lost \cup O \in SUBSET Ids
      /\ (U \cup D) \cup (Lost \cup O) \in SUBSET Ids
  BY DEF RowsOf, Lost
<1>5. Cardinality(O) <= 1
  <2> HIDE DEF O
  <2>. QED BY <1>2, AtMostOne
<1> HIDE DEF R, U, D, O
<1>6. Cardinality(R) <= Cardinality((U \cup D) \cup (Lost \cup O))
  BY <1>3, <1>4, IdsFinite, FS_Subset
<1>7. /\ Cardinality((U \cup D) \cup (Lost \cup O)) <= Cardinality(U \cup D) + Cardinality(Lost \cup O)
      /\ Cardinality(U \cup D) <= Cardinality(U) + Cardinality(D)
      /\ Cardinality(Lost \cup O) <= Cardinality(Lost) + Cardinality(O)
  BY <1>4, CardUnion
<1>8. /\ Cardinality(R) \in Nat /\ Cardinality(U) \in Nat /\ Cardinality(D) \in Nat
      /\ Cardinality(O) \in Nat /\ Cardinality(Lost) \in Nat /\ Cardinality(U \cup D) \in Nat
      /\ Cardinality(Lost \cup O) \in Nat
      /\ Cardinality((U \cup D) \cup (Lost \cup O)) \in Nat
  BY <1>4, IdsFinite
<1>9. crashes \in Nat /\ Cardinality(Lost) <= crashes
  BY GateAssumption DEF TypeInv, TypeOK, ReasonInv, LostToDeaths
<1>10. Cardinality(R) <= Cardinality(U) + Cardinality(D) + crashes + 1
  BY <1>5, <1>6, <1>7, <1>8, <1>9
<1>. QED BY <1>10 DEF R, U, D

\* enforce.invoke: a human is asked again for the same call only after a denial, a run or
\* the death of a pass that had spent its grant, however many passes look for one.
THEOREM HumanIsAskedForAReason ==
  ASSUME AccurateDetector
  PROVE  Spec => []AskedForAReason
<1> DEFINE IInv == GrantInv /\ ReasonInv
<1>1. Init => IInv
  <2> SUFFICES ASSUME Init PROVE IInv
    OBVIOUS
  <2>1. GrantInv /\ SpendsAlone /\ AbsentIsBlank
    BY DEF Init, StoreInit, GrantInv, OneShot, UnspentUnused, SpentOnce, SpendsAlone, AbsentIsBlank
  <2>2. Lost = {}
    BY DEF Init, StoreInit, Lost
  <2>3. LostToDeaths
    BY <2>2, FS_EmptySet DEF Init, LostToDeaths
  <2>. QED BY <2>1, <2>3 DEF ReasonInv
<1>2. TypeInv /\ RowsInOrder /\ GateInv /\ IInv /\ [Next]_vars => IInv'
  BY GrantNext, AbsentNext, SpendsAloneNext, LostNext DEF GateInv, ReasonInv
<1>3. TypeInv /\ RowsInOrder /\ GateInv /\ IInv => AskedForAReason
  BY ReasonCounts
<1>. QED BY <1>1, <1>2, <1>3, StoreAlways, GateAlways, PTL DEF Spec

=============================================================================
