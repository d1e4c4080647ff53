-------------------------- MODULE Planning_proofs --------------------------
(***************************************************************************)
(* Theorems about Planning: a stuck task is replanned at most once, no     *)
(* stuck signal is passed over by the dispatcher's cursor, a finished      *)
(* replan has led on, a plan is carried out once, and its items wait for   *)
(* one another only.  All hold for any number of workers, any answers of   *)
(* the models and any faults; the second for any look-back that is as long *)
(* as the log's transactions, the fourth for a detector that re-kicks a    *)
(* job only once nobody works on it.  The last three take from TopoOrder   *)
(* only that it orders a plan (PlansAreOrdered), which is evaluated for    *)
(* every plan there is.                                                    *)
(***************************************************************************)
EXTENDS Planning, TLAPS, FiniteSetTheorems, SequenceTheorems

-----------------------------------------------------------------------------
(* The tasks table                                                         *)

\* All that the proofs need of a row is that it has the two columns that are never
\* updated.
Labelled(r) == {"kind", "of"} \subseteq DOMAIN r
Table ==
  /\ \E S : task \in Seq(S)
  /\ \A n \in DOMAIN task : Labelled(task[n])

\* What a step may do to the table: update rows, or insert one.
Updates ==
  /\ DOMAIN task' = DOMAIN task
  /\ \A n \in DOMAIN task : task'[n].kind = task[n].kind /\ task'[n].of = task[n].of
Inserts(r) == task' = Append(task, r)

\* An update of a row leaves its labels alone.
LEMMA UpdateKeepsTable ==
  ASSUME Table, NEW n, NEW r,
         task' = [task EXCEPT ![n] = r],
         n \in DOMAIN task => Labelled(r) /\ r.kind = task[n].kind /\ r.of = task[n].of
  PROVE  Table' /\ Updates
<1>1. PICK S : task \in Seq(S)
  BY DEF Table
<1>2. task \in Seq(S \cup {r}) /\ DOMAIN task = 1..Len(task)
  BY <1>1, SeqMonotonic, LenProperties
<1>3. DOMAIN task' = DOMAIN task /\ task' \in Seq(S \cup {r})
  <2>1. CASE n \in DOMAIN task
    BY <1>2, <2>1, ExceptSeq
  <2>2. CASE n \notin DOMAIN task
    <3>1. task' = task
      BY <1>2, <2>2
    <3> QED
      BY <1>2, <3>1
  <2> QED
    BY <2>1, <2>2
<1>4. \A m \in DOMAIN task : task'[m] = IF m = n THEN r ELSE task[m]
  BY <1>1
<1> QED
  BY <1>3, <1>4 DEF Table, Updates

LEMMA InsertKeepsTable ==
  ASSUME Table, NEW r, Inserts(r), Labelled(r)
  PROVE  /\ Table'
         /\ DOMAIN task' = DOMAIN task \cup {Len(task) + 1}
         /\ Len(task) + 1 \notin DOMAIN task
         /\ \A n \in DOMAIN task : task'[n] = task[n]
         /\ task'[Len(task) + 1] = r
<1>1. PICK S : task \in Seq(S)
  BY DEF Table
<1>2. task \in Seq(S \cup {r})
  BY <1>1
<1>3. task' = Append(task, r) /\ r \in S \cup {r}
  BY DEF Inserts
<1>4. task' \in Seq(S \cup {r}) /\ Len(task') = Len(task) + 1 /\ Len(task) \in Nat
  BY <1>2, <1>3
<1>5. /\ DOMAIN task' = DOMAIN task \cup {Len(task) + 1}
      /\ Len(task) + 1 \notin DOMAIN task
  BY <1>2, <1>4
<1>6. \A n \in DOMAIN task : task'[n] = task[n]
  BY <1>2, <1>3
<1>7. task'[Len(task) + 1] = r
  BY <1>2, <1>3
<1>8. Table'
  BY <1>4, <1>5, <1>6, <1>7 DEF Table
<1> QED
  BY <1>5, <1>6, <1>7, <1>8

LEMMA SetKeepsTable ==
  ASSUME Table, NEW n, NEW s, Set(n, s)
  PROVE  Table' /\ Updates
<1> DEFINE r == [task[n] EXCEPT !.status = s]
<1>1. task' = [task EXCEPT ![n] = r]
  BY DEF Set
<1>2. n \in DOMAIN task => Labelled(r) /\ r.kind = task[n].kind /\ r.of = task[n].of
  BY DEF Table, Labelled
<1> HIDE DEF r
<1> QED
  BY <1>1, <1>2, UpdateKeepsTable

\* The rows that plans insert.
LEMMA RowIsLabelled ==
  ASSUME NEW k, NEW o, NEW b, NEW i, NEW d, NEW q
  PROVE  /\ Labelled(Row(k, o, b, i, d, q))
         /\ Row(k, o, b, i, d, q).kind = k
         /\ Row(k, o, b, i, d, q).of = o
BY DEF Row, Labelled

\* Every step updates rows, or inserts a tick or work, or a replan of a task that has
\* none: the labels of a row never change.
TableStep ==
  /\ Table'
  /\ \/ Updates
     \/ \E r : /\ Inserts(r) /\ Labelled(r)
               /\ r.kind = "replan" => ~HasReplan(r.of)

LEMMA UnchangedTable ==
  ASSUME Table, UNCHANGED task
  PROVE  TableStep
BY DEF Table, TableStep, Updates

LEMMA EnqueueKeepsTable ==
  ASSUME Table, NEW k, NEW o, NEW b, NEW i, NEW d, NEW q,
         Enqueue(Row(k, o, b, i, d, q)),
         k = "replan" => ~HasReplan(o)
  PROVE  TableStep
<1> DEFINE r == Row(k, o, b, i, d, q)
<1>1. Labelled(r) /\ r.kind = k /\ r.of = o
  BY RowIsLabelled
<1>2. Inserts(r)
  BY DEF Enqueue, Inserts
<1> HIDE DEF r
<1>3. Table'
  BY <1>1, <1>2, InsertKeepsTable
<1> QED
  BY <1>1, <1>2, <1>3 DEF TableStep

LEMMA NextTable ==
  ASSUME Table, [Next]_vars
  PROVE  TableStep
<1>1. CASE UNCHANGED vars
  BY <1>1, UnchangedTable DEF vars
<1>2. CASE Wake
  <2>1. CASE UNCHANGED task
    BY <2>1, UnchangedTable
  <2>2. CASE Enqueue(Tick)
    BY <2>2, EnqueueKeepsTable DEF Tick
  <2> QED
    BY <1>2, <2>1, <2>2 DEF Wake
<1>3. CASE EnqueueGoal
  BY <1>3, EnqueueKeepsTable DEF EnqueueGoal, Tick
<1>4. CASE Dispatch
  <2>1. PICK e \in batch :
          IF HasReplan(e.of) THEN UNCHANGED task ELSE Enqueue(Row("replan", e.of, 0, 0, 0, {}))
    BY <1>4 DEF Dispatch
  <2>2. CASE HasReplan(e.of)
    BY <2>1, <2>2, UnchangedTable
  <2>3. CASE ~HasReplan(e.of)
    BY <2>1, <2>3, EnqueueKeepsTable
  <2> QED
    BY <2>2, <2>3
<1>5. CASE EndDispatch \/ SchedulerFails \/ OtherEvent \/ (\E i \in 1..MaxRows : Resolve(i))
  BY <1>5, UnchangedTable DEF EndDispatch, SchedulerFails, OtherEvent, Resolve
<1>6. ASSUME NEW w \in Workers,
             WorkerStep(w) \/ PassFails(w) \/ \E n \in DOMAIN task : Take(w, n)
      PROVE  TableStep
  <2>1. CASE Replan(w) \/ Plan(w) \/ Gate(w) \/ Consult(w) \/ Request(w) \/ PassFails(w)
    BY <2>1, UnchangedTable DEF Replan, Plan, Gate, Consult, Request, PassFails
  <2>2. CASE EnqueueItem(w)
    BY <2>2, EnqueueKeepsTable DEF EnqueueItem, ItemRow
  <2>3. CASE Park(w)
    <3> DEFINE n == job[w]  r == ParkedOn(task[n], ask[w])
    <3>1. CASE task' = task
      BY <3>1, UnchangedTable
    <3>2. CASE task' = [task EXCEPT ![n] = r]
      <4>1. n \in DOMAIN task => Labelled(r) /\ r.kind = task[n].kind /\ r.of = task[n].of
        BY DEF Table, Labelled, ParkedOn
      <4> HIDE DEF r
      <4> QED
        BY <3>2, <4>1, UpdateKeepsTable DEF TableStep
    <3> QED
      BY <2>3, <3>1, <3>2 DEF Park
  <2>4. CASE Complete(w)
    BY <2>4, UnchangedTable, SetKeepsTable DEF Complete, TableStep
  <2>5. CASE \E n \in DOMAIN task : Take(w, n)
    BY <2>5, SetKeepsTable DEF Take, TableStep
  <2> QED
    BY <1>6, <2>1, <2>2, <2>3, <2>4, <2>5 DEF WorkerStep
<1>7. ASSUME NEW n \in DOMAIN task, Resume(n) \/ Recover(n) \/ WorkMerges(n) \/ Stall(n)
      PROVE  TableStep
  <2>1. CASE Stall(n)
    BY <2>1, UnchangedTable DEF Stall
  <2>2. CASE Resume(n) \/ GiveUp(n) \/ WorkMerges(n)
    BY <2>2, SetKeepsTable DEF Resume, GiveUp, WorkMerges, TableStep
  <2>3. CASE Rekick(n)
    <3> DEFINE r == Kicked(task[n])
    <3>1. task' = [task EXCEPT ![n] = r]
      BY <2>3 DEF Rekick
    <3>2. Labelled(r) /\ r.kind = task[n].kind /\ r.of = task[n].of
      BY DEF Table, Labelled, Kicked
    <3> HIDE DEF r
    <3> QED
      BY <3>1, <3>2, UpdateKeepsTable DEF TableStep
  <2> QED
    BY <1>7, <2>1, <2>2, <2>3 DEF Recover
<1>8. ASSUME NEW e \in open, CommitStuck(e) \/ RollbackStuck(e)
      PROVE  TableStep
  BY <1>8, UnchangedTable, SetKeepsTable DEF CommitStuck, RollbackStuck, TableStep
<1> QED
  BY <1>1, <1>2, <1>3, <1>4, <1>5, <1>6, <1>7, <1>8 DEF Next, SchedulerStep

LEMMA InitTable ==
  ASSUME Init
  PROVE  Table /\ ReplannedOnce
<1>1. task = <<>> /\ <<>> \in Seq({}) /\ DOMAIN <<>> = {}
  BY EmptySeq DEF Init
<1> QED
  BY <1>1 DEF Table, ReplannedOnce, RowsOf

-----------------------------------------------------------------------------
(* One replan per stuck task                                               *)

LEMMA ReplannedOnceStep ==
  ASSUME Table, ReplannedOnce, TableStep
  PROVE  ReplannedOnce'
<1>1. CASE Updates
  BY <1>1 DEF ReplannedOnce, RowsOf, Updates
<1>2. ASSUME NEW r, Inserts(r), Labelled(r), r.kind = "replan" => ~HasReplan(r.of)
      PROVE  ReplannedOnce'
  <2> DEFINE new == Len(task) + 1
  <2>1. /\ DOMAIN task' = DOMAIN task \cup {new}
        /\ new \notin DOMAIN task
        /\ \A n \in DOMAIN task : task'[n] = task[n]
        /\ task'[new] = r
    BY <1>2, InsertKeepsTable
  <2> HIDE DEF new
  <2>2. RowsOf("replan")' = RowsOf("replan") \cup (IF r.kind = "replan" THEN {new} ELSE {})
    BY <2>1 DEF RowsOf
  <2>3. ASSUME r.kind = "replan", NEW n \in RowsOf("replan")
        PROVE  task[n].of # r.of
    BY <1>2, <2>3 DEF HasReplan
  <2> QED
    BY <2>1, <2>2, <2>3 DEF ReplannedOnce, RowsOf
<1> QED
  BY <1>1, <1>2 DEF TableStep

\* A stuck task has at most one replan, whatever became of the first one and however
\* often the dispatcher reads its event: its cursor may be lost at any time.
THEOREM StuckIsReplannedOnce == Spec => []ReplannedOnce
<1>1. Init => Table /\ ReplannedOnce
  BY InitTable
<1>2. Table /\ ReplannedOnce /\ [Next]_vars => (Table /\ ReplannedOnce)'
  BY NextTable, ReplannedOnceStep DEF TableStep
<1> QED
  BY <1>1, <1>2, PTL DEF Spec

-----------------------------------------------------------------------------
(* The log and the cursor                                                  *)

\* Numbers are drawn in order, and a transaction in flight was overtaken by fewer than
\* Lookback others.
LogInv ==
  /\ drawn \in Nat
  /\ IsFiniteSet(log)
  /\ \A e \in log \cup open : e.seq \in Nat /\ 0 < e.seq /\ e.seq <= drawn
  /\ \A e \in open : drawn < e.seq + Lookback

\* The cursor is behind the numbers drawn, and so is the one the scheduler works on;
\* the batch in hand came out of the window.
CursorInv ==
  /\ cursor \in Nat /\ cursor <= drawn
  /\ high \in Nat /\ high <= drawn
  /\ spc = "asleep" => batch = {}
  /\ batch \subseteq log
  /\ batch \subseteq Log!Window(cursor)

\* What the scheduler's new cursor will have passed is answered or in hand.
Ahead(e) == e.seq + Lookback > high /\ \A b \in batch : e.seq + Lookback > b.seq
NothingPassed ==
  spc = "dispatch" => \A e \in log : Answered(e) \/ e \in batch \/ Ahead(e)

IInv == Table /\ LogInv /\ CursorInv /\ NothingLost /\ NothingPassed

LEMMA InitIInv ==
  ASSUME Init
  PROVE  IInv
<1>1. Table
  BY InitTable
<1>2. LogInv
  BY FS_EmptySet DEF Init, Log!LogInit, LogInv
<1>3. CursorInv /\ NothingLost /\ NothingPassed
  BY DEF Init, Log!LogInit, CursorInv, NothingLost, NothingPassed
<1> QED
  BY <1>1, <1>2, <1>3 DEF IInv

\* A replan once enqueued remains.
LEMMA AnswersRemain ==
  ASSUME Table, TableStep, NEW e, Answered(e)
  PROVE  Answered(e)'
<1>1. PICK m \in RowsOf("replan") : task[m].of = e.of
  BY DEF Answered, HasReplan
<1>2. CASE Updates
  BY <1>1, <1>2 DEF Updates, RowsOf, Answered, HasReplan
<1>3. ASSUME NEW r, Inserts(r), Labelled(r)
      PROVE  Answered(e)'
  BY <1>1, <1>3, InsertKeepsTable DEF RowsOf, Answered, HasReplan
<1> QED
  BY <1>2, <1>3 DEF TableStep

LEMMA SameCardinality == \A S : Log!Cardinality(S) = Cardinality(S)
BY DEF Log!Cardinality, Cardinality

\* A read takes the oldest events of its window: those it leaves are younger.
LEMMA OldestFirst ==
  ASSUME IsFiniteSet(log), \A e \in log : e.seq \in Nat, Limit \in Nat,
         NEW e \in Log!Window(cursor), e \notin Log!ReadEvents(cursor),
         NEW b \in Log!ReadEvents(cursor)
  PROVE  b.seq < e.seq
<1> DEFINE W == Log!Window(cursor)
           Older(x) == {f \in W : f.seq < x.seq}
<1>1. W \subseteq log /\ b \in W /\ e \in W
  BY DEF Log!Window, Log!ReadEvents
<1>2. SUFFICES ASSUME ~(b.seq < e.seq)  PROVE FALSE
  OBVIOUS
<1>3. Older(e) \subseteq Older(b)
  BY <1>1, <1>2 DEF Log!Window
<1>4. IsFiniteSet(Older(b))
  BY <1>1, FS_Subset
<1>5. Cardinality(Older(e)) <= Cardinality(Older(b))
  BY <1>3, <1>4, FS_Subset
<1>6. Cardinality(Older(b)) < Limit /\ ~(Cardinality(Older(e)) < Limit)
  <2>1. Log!ReadEvents(cursor) = {x \in W : Cardinality(Older(x)) < Limit}
    BY SameCardinality DEF Log!ReadEvents
  <2> HIDE DEF Older, W
  <2> QED
    BY <1>1, <2>1, Zenon
<1>7. Cardinality(Older(b)) \in Nat /\ Cardinality(Older(e)) \in Nat
  BY <1>3, <1>4, FS_Subset, FS_CardinalityType
<1> QED
  BY <1>5, <1>6, <1>7

\* The log is touched by four actions.
LEMMA LogStep ==
  ASSUME Lookback > 0, Lookback \in Nat, LogInv, [Next]_vars
  PROVE  /\ LogInv'
         /\ drawn <= drawn'
         /\ \A e \in log' : e \in log \/ drawn < e.seq + Lookback
         /\ log \subseteq log'
<1>1. CASE UNCHANGED <<drawn, open, log>>
  BY <1>1 DEF LogInv
<1>2. ASSUME NEW n, Log!AppendEvent(n)
      PROVE  LogInv' /\ drawn <= drawn' /\ log' = log
  <2> DEFINE e == [seq |-> drawn + 1, of |-> n]
  <2>1. /\ drawn' = drawn + 1 /\ log' = log /\ open' = open \cup {e}
        /\ \A f \in open : drawn + 1 < f.seq + Lookback
    BY <1>2 DEF Log!AppendEvent, Log!Draw
  <2>2. e.seq = drawn + 1
    OBVIOUS
  <2> HIDE DEF e
  <2> QED
    BY <2>1, <2>2 DEF LogInv
<1>3. CASE Log!AppendOther
  BY <1>3 DEF LogInv, Log!AppendOther, Log!Draw
<1>4. ASSUME NEW e \in open, Log!Commit(e)
      PROVE  /\ LogInv' /\ drawn' = drawn /\ log' = log \cup {e}
  <2>1. IsFiniteSet(log \cup {e})
    BY FS_AddElement DEF LogInv
  <2> QED
    BY <1>4, <2>1 DEF LogInv, Log!Commit
<1>5. ASSUME NEW e \in open, Log!Rollback(e)
      PROVE  LogInv' /\ drawn' = drawn /\ log' = log
  BY <1>5 DEF LogInv, Log!Rollback
<1>6. \/ UNCHANGED <<drawn, open, log>>
      \/ \E n : Log!AppendEvent(n)
      \/ Log!AppendOther
      \/ \E e \in open : Log!Commit(e) \/ Log!Rollback(e)
  BY DEF Next, vars, eventVars, SchedulerStep, Wake, Dispatch, EndDispatch, SchedulerFails,
         EnqueueGoal, OtherEvent, WorkerStep, Replan, Plan, Gate, Consult, Request,
         EnqueueItem, Park, Complete, PassFails, Take, Resume, Recover, Rekick, GiveUp,
         WorkMerges, Stall, CommitStuck, RollbackStuck, Resolve
<1> QED
  BY <1>1, <1>2, <1>3, <1>4, <1>5, <1>6 DEF LogInv

\* Only the scheduler's own steps touch its variables, and none of them touches the log.
LEMMA SchedulerMoves ==
  ASSUME [Next]_vars
  PROVE  \/ UNCHANGED schedulerVars
         \/ (Wake \/ Dispatch \/ EndDispatch \/ SchedulerFails) /\ UNCHANGED eventVars
BY DEF Next, vars, eventVars, schedulerVars, SchedulerStep, Wake, Dispatch, EndDispatch,
       SchedulerFails, EnqueueGoal, OtherEvent, WorkerStep, Replan, Plan, Gate, Consult,
       Request, EnqueueItem, Park, Complete, PassFails, Take, Resume, Recover, Rekick,
       GiveUp, WorkMerges, Stall, CommitStuck, RollbackStuck, Resolve

LEMMA NextIInv ==
  ASSUME Lookback > 0, IInv, [Next]_vars
  PROVE  IInv'
<1>0. Lookback \in Nat /\ Limit \in Nat
  BY PlanningAssumption DEF PlanningAssumption
<1>1. TableStep /\ Table'
  BY NextTable DEF IInv, TableStep
<1>2. /\ LogInv' /\ drawn <= drawn' /\ log \subseteq log'
      /\ \A e \in log' : e \in log \/ drawn < e.seq + Lookback
  BY <1>0, LogStep DEF IInv
<1>3. \A e : Answered(e) => Answered(e)'
  BY <1>1, AnswersRemain DEF IInv
<1>4. /\ LogInv /\ CursorInv /\ NothingLost /\ NothingPassed
      /\ drawn' \in Nat
      /\ \A e \in log' : e.seq \in Nat /\ 0 < e.seq /\ e.seq <= drawn'
  BY <1>2 DEF IInv, LogInv
<1>5. CASE UNCHANGED schedulerVars
  <2>1. CursorInv'
    BY <1>0, <1>2, <1>4, <1>5 DEF CursorInv, LogInv, schedulerVars, Log!Window
  <2>2. NothingLost'
    BY <1>0, <1>2, <1>3, <1>4, <1>5 DEF NothingLost, CursorInv, LogInv, schedulerVars, Log!Window
  <2>3. NothingPassed'
    BY <1>0, <1>2, <1>3, <1>4, <1>5 DEF NothingPassed, Ahead, CursorInv, LogInv, schedulerVars
  <2> QED
    BY <1>1, <1>2, <2>1, <2>2, <2>3 DEF IInv
<1>6. CASE Wake /\ UNCHANGED eventVars
  <2>1. /\ batch = {} /\ batch' = Log!ReadEvents(cursor) /\ high' = cursor
        /\ UNCHANGED <<cursor, drawn, open, log>>
    BY <1>4, <1>6 DEF Wake, eventVars, CursorInv
  <2>2. batch' \subseteq Log!Window(cursor) /\ Log!Window(cursor) \subseteq log
    BY <2>1 DEF Log!ReadEvents, Log!Window
  <2>3. CursorInv'
    BY <1>4, <1>6, <2>1, <2>2 DEF CursorInv, Wake, Log!Window
  <2>4. NothingLost'
    BY <1>3, <1>4, <2>1 DEF NothingLost, Log!Window
  <2>5. ASSUME NEW e \in log, ~Answered(e)', e \notin batch'
        PROVE  Ahead(e)'
    <3>1. e \in Log!Window(cursor)
      BY <1>3, <1>4, <2>1, <2>5 DEF NothingLost
    <3>2. \A b \in batch' : b.seq < e.seq
      BY <1>0, <1>4, <2>1, <2>5, <3>1, OldestFirst DEF LogInv
    <3> QED
      BY <1>0, <1>4, <2>1, <2>2, <2>5, <3>1, <3>2 DEF Ahead, Log!Window, LogInv
  <2>6. NothingPassed'
    BY <2>1, <2>5 DEF NothingPassed
  <2> QED
    BY <1>1, <1>2, <2>3, <2>4, <2>6 DEF IInv
<1>7. CASE Dispatch /\ UNCHANGED eventVars
  <2>1. PICK e \in batch :
          /\ batch' = batch \ {e}
          /\ high' = IF e.seq > high THEN e.seq ELSE high
          /\ IF HasReplan(e.of) THEN UNCHANGED task ELSE Enqueue(Row("replan", e.of, 0, 0, 0, {}))
    BY <1>7 DEF Dispatch
  <2>2. spc = "dispatch" /\ UNCHANGED <<spc, cursor, drawn, open, log>>
    BY <1>7 DEF Dispatch, eventVars
  <2>3. Answered(e)'
    <3>1. CASE HasReplan(e.of)
      BY <1>3, <3>1 DEF Answered
    <3>2. CASE Enqueue(Row("replan", e.of, 0, 0, 0, {}))
      <4> DEFINE r == Row("replan", e.of, 0, 0, 0, {})
      <4>1. Labelled(r) /\ r.kind = "replan" /\ r.of = e.of
        BY DEF Row, Labelled
      <4>2. Inserts(r)
        BY <3>2 DEF Enqueue, Inserts
      <4> HIDE DEF r
      <4>3. task'[Len(task) + 1] = r /\ Len(task) + 1 \in DOMAIN task'
        BY <4>1, <4>2, InsertKeepsTable DEF IInv
      <4> QED
        BY <4>1, <4>3 DEF Answered, HasReplan, RowsOf
    <3> QED
      BY <2>1, <3>1, <3>2
  <2>4. e \in log /\ e.seq \in Nat /\ e.seq <= drawn
    BY <1>4, <2>1 DEF CursorInv, LogInv
  <2>5. CursorInv'
    BY <1>4, <2>1, <2>2, <2>4 DEF CursorInv, Log!Window
  <2>6. NothingLost'
    BY <1>3, <1>4, <2>1, <2>2, <2>3 DEF NothingLost, Log!Window
  <2>7. ASSUME NEW f \in log, ~Answered(f)', f \notin batch'
        PROVE  Ahead(f)'
    <3>1. Ahead(f)
      BY <1>3, <1>4, <2>1, <2>2, <2>3, <2>7 DEF NothingPassed
    <3> QED
      BY <2>1, <2>4, <3>1 DEF Ahead
  <2>8. NothingPassed'
    BY <2>2, <2>7 DEF NothingPassed
  <2> QED
    BY <1>1, <1>2, <2>5, <2>6, <2>8 DEF IInv
<1>8. CASE EndDispatch /\ UNCHANGED eventVars
  <2>1. /\ spc = "dispatch" /\ spc' = "asleep" /\ batch = {} /\ batch' = {}
        /\ cursor' = high /\ high' = 0 /\ UNCHANGED <<drawn, open, log>>
    BY <1>8 DEF EndDispatch, eventVars
  <2>2. CursorInv' /\ NothingPassed'
    BY <1>0, <1>4, <2>1 DEF CursorInv, NothingPassed, LogInv, Log!Window
  <2>3. NothingLost'
    BY <1>3, <1>4, <2>1 DEF NothingLost, NothingPassed, Ahead, Log!Window
  <2> QED
    BY <1>1, <1>2, <2>2, <2>3 DEF IInv
<1>9. CASE SchedulerFails /\ UNCHANGED eventVars
  <2>1. /\ spc' = "asleep" /\ batch' = {} /\ high' = 0 /\ cursor' \in {cursor, 0}
        /\ UNCHANGED <<drawn, open, log>>
    BY <1>9 DEF SchedulerFails, eventVars
  <2>2. CursorInv' /\ NothingPassed'
    BY <1>0, <1>4, <2>1 DEF CursorInv, NothingPassed, LogInv, Log!Window
  <2>3. NothingLost'
    BY <1>0, <1>3, <1>4, <2>1 DEF NothingLost, CursorInv, LogInv, Log!Window
  <2> QED
    BY <1>1, <1>2, <2>2, <2>3 DEF IInv
<1> QED
  BY <1>5, <1>6, <1>7, <1>8, <1>9, SchedulerMoves

\* A stuck signal is never passed over by the cursor: whatever the order of commits, the
\* limit of a read, the errors and the restarts, a signal whose task has no replan is in
\* hand or within reach of the next read.  The look-back must be positive, as it is in
\* the scheduler's loop.
THEOREM NoSignalIsLost ==
  ASSUME Lookback > 0
  PROVE  Spec => []NothingLost
<1>1. Init => IInv
  BY InitIInv
<1>2. IInv /\ [Next]_vars => IInv'
  BY NextIInv
<1>3. IInv => NothingLost
  BY DEF IInv
<1> QED
  BY <1>1, <1>2, <1>3, PTL DEF Spec

-----------------------------------------------------------------------------
(* The consensus loop against the studio's own Critic                      *)


\* A revision leaves nothing to revise: _run_consensus may revise a plan in every round but
\* the first revision is all it does.
LEMMA RevisionIsIdempotent ==
  ASSUME NEW f \in PlanFacts
  PROVE  Revise(Revise(f)) = Revise(f)
  BY DEF Revise, PlanFacts

\* Only a missing criterion blocks.
LEMMA BlockingIsAGap ==
  ASSUME NEW f
  PROVE  Blocking(f) <=> f.criteria = 0 \/ f.noCriterion > 0
<1>1. ASSUME Blocking(f) PROVE f.criteria = 0 \/ f.noCriterion > 0
  <2>1. PICK code \in Raised(f) : Severity[code] >= BlockingSeverity
    BY <1>1 DEF Blocking
  <2>2. code \in {"no_success_criteria", "items_missing_criterion"}
    BY <2>1 DEF Raised, Severity, BlockingSeverity
  <2> QED BY <2>1, <2>2 DEF Raised
<1>2. ASSUME f.criteria = 0 PROVE Blocking(f)
  <2>1. "no_success_criteria" \in Raised(f)
    BY <1>2 DEF Raised, Severity
  <2> QED BY <2>1 DEF Blocking, Severity, BlockingSeverity
<1>3. ASSUME f.noCriterion > 0 PROVE Blocking(f)
  <2>1. "items_missing_criterion" \in Raised(f)
    BY <1>3 DEF Raised, Severity
  <2> QED BY <2>1 DEF Blocking, Severity, BlockingSeverity
<1> QED BY <1>1, <1>2, <1>3

\* With two rounds, the default of PM_CRITIC_ROUNDS, a plan that has an item is never
\* escalated on the Critic's word: _revise_plan fills exactly the gaps that block, so the
\* pushback of an unresolved disagreement is left to a critic of another make.
THEOREM TwoRoundsSettle ==
  \A f \in PlanFacts, rounds \in Nat :
    rounds >= 2 /\ f.items > 0 => Consensus(f, rounds) = "agreed"
<1> SUFFICES ASSUME NEW f \in PlanFacts, NEW rounds \in Nat, rounds >= 2, f.items > 0
             PROVE  Consensus(f, rounds) = "agreed"
  OBVIOUS
<1>1. Revise(f).criteria # 0 /\ Revise(f).noCriterion = 0
  BY DEF Revise, PlanFacts
<1>2. ~Blocking(Revise(f))
  BY <1>1, BlockingIsAGap
<1>3. 2 \in 1..rounds /\ Decide(Version(f, 2)) = "proceed"
  BY <1>2 DEF Decide, Version
<1> QED BY <1>3 DEF Consensus

-----------------------------------------------------------------------------
(* What becomes of a plan                                                  *)
(*                                                                         *)
(* The theorems below are about what passes leave in the table, so they    *)
(* need all of a row, and what every worker is in the middle of.           *)

Early == {"replan", "plan", "gate", "consult", "request", "park"}

IsRow(r) ==
  /\ r = [kind |-> r.kind, of |-> r.of, by |-> r.by, item |-> r.item, depth |-> r.depth,
          deps |-> r.deps, status |-> r.status, kicks |-> r.kicks, on |-> r.on]
  /\ r.kicks \in Nat /\ r.depth \in Nat

\* Who enqueued a row, and what it is about, was there before.
HasOrigin(r, ids) ==
  /\ r.kind \in Kinds
  /\ r.kind = "tick" => r.of = 0
  /\ r.kind = "replan" => r.of \in ids
  /\ r.kind = "work" => r.by \in ids /\ r.of \in ids \cup {0}

SameOrigin(r, q) ==
  /\ r.kind = q.kind /\ r.of = q.of /\ r.by = q.by /\ r.item = q.item /\ r.depth = q.depth
  /\ r.deps = q.deps

RowsInv ==
  /\ \E S : task \in Seq(S)
  /\ \A n \in DOMAIN task : IsRow(task[n]) /\ HasOrigin(task[n], DOMAIN task)

\* A step that updates the row n, leaves the rows alone, or inserts one.
Updated(n) ==
  /\ n \in DOMAIN task /\ DOMAIN task' = DOMAIN task
  /\ \A m \in DOMAIN task : m # n => task'[m] = task[m]
  /\ IsRow(task'[n]) /\ SameOrigin(task'[n], task[n])
Moved(n, s) ==
  Updated(n) /\ task'[n].status = s /\ task'[n].kicks = task[n].kicks
KickedRow(n) ==
  Updated(n) /\ task'[n].status = "queued" /\ task'[n].kicks = task[n].kicks + 1
Inserted(r) ==
  LET new == Len(task) + 1 IN
  /\ DOMAIN task' = DOMAIN task \cup {new} /\ new \notin DOMAIN task /\ new # 0
  /\ \A m \in DOMAIN task : task'[m] = task[m]
  /\ task'[new] = r

LEMMA TableIsIndexed ==
  ASSUME RowsInv
  PROVE  DOMAIN task = 1..Len(task) /\ Len(task) \in Nat /\ 0 \notin DOMAIN task
<1>1. PICK S : task \in Seq(S)
  BY DEF RowsInv
<1> QED BY <1>1

LEMMA RowsAreLabelled == RowsInv => Table
BY DEF RowsInv, Table, Labelled, IsRow

LEMMA UpdateKeepsRows ==
  ASSUME RowsInv, NEW n \in DOMAIN task, NEW r, task' = [task EXCEPT ![n] = r],
         IsRow(r), SameOrigin(r, task[n])
  PROVE  RowsInv' /\ Updated(n) /\ task'[n] = r
<1>1. PICK S : task \in Seq(S)
  BY DEF RowsInv
<1>2. task \in Seq(S \cup {r})
  BY <1>1, SeqMonotonic
<1>3. DOMAIN task' = DOMAIN task /\ task' \in Seq(S \cup {r})
  BY <1>2, ExceptSeq
<1>4. task'[n] = r /\ \A m \in DOMAIN task : m # n => task'[m] = task[m]
  BY <1>1
<1>5. ASSUME NEW m \in DOMAIN task PROVE IsRow(task'[m]) /\ HasOrigin(task'[m], DOMAIN task)
  BY <1>4 DEF RowsInv, HasOrigin, SameOrigin
<1> QED
  BY <1>3, <1>4, <1>5 DEF RowsInv, Updated

LEMMA InsertKeepsRows ==
  ASSUME RowsInv, NEW r, Enqueue(r), IsRow(r), HasOrigin(r, DOMAIN task)
  PROVE  RowsInv' /\ Inserted(r)
<1>1. PICK S : task \in Seq(S)
  BY DEF RowsInv
<1>2. task' = Append(task, r)
  BY DEF Enqueue
<1>3. task' \in Seq(S \cup {r})
  BY <1>1, <1>2
<1>4. Inserted(r)
  BY <1>1, <1>2, <1>3 DEF Inserted
<1>5. ASSUME NEW m \in DOMAIN task' PROVE IsRow(task'[m]) /\ HasOrigin(task'[m], DOMAIN task')
  <2>1. IsRow(task'[m]) /\ HasOrigin(task'[m], DOMAIN task)
    BY <1>4 DEF RowsInv, Inserted
  <2> QED BY <1>4, <2>1 DEF HasOrigin, Inserted
<1> QED
  BY <1>3, <1>4, <1>5 DEF RowsInv

\* The four ways the code has of writing a row.
LEMMA SetMoves ==
  ASSUME RowsInv, NEW n \in DOMAIN task, NEW s, Set(n, s)
  PROVE  RowsInv' /\ Moved(n, s)
<1> DEFINE q == task[n]  r == [q EXCEPT !.status = s]
<1>1. task' = [task EXCEPT ![n] = r]
  BY DEF Set
<1>2. IsRow(q)
  BY DEF RowsInv
<1> HIDE DEF q
<1>3. r = [kind |-> q.kind, of |-> q.of, by |-> q.by, item |-> q.item, depth |-> q.depth,
           deps |-> q.deps, status |-> s, kicks |-> q.kicks, on |-> q.on]
  BY <1>2 DEF IsRow
<1> HIDE DEF r
<1>4. IsRow(r) /\ SameOrigin(r, q) /\ r.status = s /\ r.kicks = q.kicks
  BY <1>2, <1>3 DEF IsRow, SameOrigin
<1> QED BY <1>1, <1>4, UpdateKeepsRows DEF Moved, q

LEMMA ParkMoves ==
  ASSUME RowsInv, NEW n \in DOMAIN task, NEW i, task' = [task EXCEPT ![n] = ParkedOn(task[n], i)]
  PROVE  RowsInv' /\ Moved(n, "blocked")
<1> DEFINE q == task[n]  r == ParkedOn(q, i)
<1>1. task' = [task EXCEPT ![n] = r]
  OBVIOUS
<1>2. IsRow(q)
  BY DEF RowsInv
<1> HIDE DEF q
<1>3. q = [kind |-> q.kind, of |-> q.of, by |-> q.by, item |-> q.item, depth |-> q.depth,
           deps |-> q.deps, status |-> q.status, kicks |-> q.kicks, on |-> q.on]
  BY <1>2 DEF IsRow
<1>0. r = [q EXCEPT !.status = "blocked", !.on = i]
  BY DEF ParkedOn
<1> HIDE DEF r
<1>4. r = [kind |-> q.kind, of |-> q.of, by |-> q.by, item |-> q.item, depth |-> q.depth,
           deps |-> q.deps, status |-> "blocked", kicks |-> q.kicks, on |-> i]
  BY <1>0, <1>3
<1>5. IsRow(r) /\ SameOrigin(r, q) /\ r.status = "blocked" /\ r.kicks = q.kicks
  BY <1>2, <1>4 DEF IsRow, SameOrigin
<1> QED BY <1>1, <1>5, UpdateKeepsRows DEF Moved, q

LEMMA KickMoves ==
  ASSUME RowsInv, NEW n \in DOMAIN task, task' = [task EXCEPT ![n] = Kicked(@)]
  PROVE  RowsInv' /\ KickedRow(n)
<1> DEFINE q == task[n]  r == Kicked(q)
<1>1. task' = [task EXCEPT ![n] = r]
  OBVIOUS
<1>2. IsRow(q)
  BY DEF RowsInv
<1> HIDE DEF q
<1>3. q = [kind |-> q.kind, of |-> q.of, by |-> q.by, item |-> q.item, depth |-> q.depth,
           deps |-> q.deps, status |-> q.status, kicks |-> q.kicks, on |-> q.on]
  BY <1>2 DEF IsRow
<1>0. r = [q EXCEPT !.status = "queued", !.kicks = q.kicks + 1]
  BY DEF Kicked
<1> HIDE DEF r
<1>4. r = [kind |-> q.kind, of |-> q.of, by |-> q.by, item |-> q.item, depth |-> q.depth,
           deps |-> q.deps, status |-> "queued", kicks |-> q.kicks + 1, on |-> q.on]
  BY <1>0, <1>3
<1>5. IsRow(r) /\ SameOrigin(r, q) /\ r.status = "queued" /\ r.kicks = q.kicks + 1
  BY <1>2, <1>4 DEF IsRow, SameOrigin
<1> QED BY <1>1, <1>5, UpdateKeepsRows DEF KickedRow, q

LEMMA NewRow ==
  ASSUME NEW k, NEW o, NEW b, NEW i, NEW d \in Nat, NEW q
  PROVE  LET r == Row(k, o, b, i, d, q) IN
         /\ IsRow(r)
         /\ r.kind = k /\ r.of = o /\ r.by = b /\ r.item = i /\ r.depth = d
         /\ r.status = "queued" /\ r.kicks = 0
BY DEF Row, IsRow

\* What is left to enqueue of a plan: some of its items, each once.
IsTodo(t) ==
  /\ t \in Seq(1..3) /\ t # <<>>
  /\ \A k, l \in DOMAIN t : t[k] = t[l] => k = l

LEMMA PlansAreTodo ==
  ASSUME PlansAreOrdered, NEW edges \in Edges, Acyclic(edges), edges # <<>>
  PROVE  IsTodo(TopoOrder(edges)) /\ Len(TopoOrder(edges)) = Len(edges)
<1> DEFINE t == TopoOrder(edges)
<1>1. t \in Seq(DOMAIN edges) /\ IsInjective(t) /\ Len(t) = Len(edges)
  BY DEF PlansAreOrdered, Ordered
<1>2. PICK n \in 0..3 : edges \in [1..n -> SUBSET (1..n)]
  BY DEF Edges
<1>3. DOMAIN edges \subseteq 1..3 /\ Len(edges) = n
  BY <1>2
<1>4. n # 0
  BY <1>2
<1> HIDE DEF t
<1>5. t \in Seq(1..3) /\ t # <<>>
  BY <1>1, <1>3, <1>4
<1> QED BY <1>1, <1>5 DEF IsTodo, IsInjective, t

LEMMA SmallerIsAPlan ==
  ASSUME NEW edges \in Edges
  PROVE  Smaller(edges) \in Edges /\ Len(Smaller(edges)) >= 2 /\ Smaller(edges) # <<>>
<1>1. Split \in [1..2 -> SUBSET (1..2)]
  BY DEF Split
<1>2. Split \in Edges /\ Len(Split) = 2
  BY <1>1 DEF Edges, Split
<1>3. Smaller(edges) \in Edges /\ Len(Smaller(edges)) >= 2
  BY <1>2 DEF Smaller
<1> QED BY <1>3

\* What is left after the first item.
LEMMA TodoShrinks ==
  ASSUME NEW t, IsTodo(t)
  PROVE  /\ Head(t) \in 1..3 /\ Len(t) \in Nat /\ Len(t) >= 1
         /\ Len(t) # 1 => IsTodo(Tail(t)) /\ Len(Tail(t)) = Len(t) - 1
         /\ \A i \in 1..3 : (Len(t) # 1 /\ i \in Range(Tail(t))) => i \in Range(t) /\ i # Head(t)
         /\ Head(t) \in Range(t)
<1>1. t \in Seq(1..3) /\ t # <<>> /\ Len(t) \in Nat /\ Len(t) >= 1 /\ DOMAIN t = 1..Len(t)
  BY DEF IsTodo
<1>2. Tail(t) \in Seq(1..3) /\ Len(Tail(t)) = Len(t) - 1
      /\ \A k \in 1..(Len(t) - 1) : Tail(t)[k] = t[k + 1]
  BY <1>1
<1>3. Head(t) = t[1] /\ 1 \in DOMAIN t
  BY <1>1
<1>4. DOMAIN Tail(t) = 1..(Len(t) - 1)
  BY <1>1, <1>2
<1>5. Len(t) # 1 => IsTodo(Tail(t))
  <2>1. ASSUME Len(t) # 1, NEW k \in DOMAIN Tail(t), NEW l \in DOMAIN Tail(t), Tail(t)[k] = Tail(t)[l]
        PROVE  k = l
    <3>1. t[k + 1] = t[l + 1] /\ k + 1 \in DOMAIN t /\ l + 1 \in DOMAIN t
      BY <1>1, <1>2, <1>4, <2>1
    <3>2. k + 1 = l + 1
      BY <3>1 DEF IsTodo
    <3> QED BY <1>1, <1>4, <3>2
  <2>2. Len(t) # 1 => Tail(t) # <<>>
    <3>1. Len(<<>>) = 0
      OBVIOUS
    <3>2. Len(t) # 1 => Len(Tail(t)) # 0
      BY <1>1, <1>2
    <3> QED BY <3>1, <3>2
  <2> QED BY <1>2, <2>1, <2>2 DEF IsTodo
<1>6. ASSUME NEW i \in Range(Tail(t)) PROVE i \in Range(t) /\ i # Head(t)
  <2>1. PICK k \in DOMAIN Tail(t) : i = Tail(t)[k]
    BY DEF Range
  <2>2. i = t[k + 1] /\ k + 1 \in DOMAIN t /\ k + 1 # 1
    BY <1>1, <1>2, <1>4, <2>1
  <2>3. i \in Range(t)
    BY <2>2 DEF Range
  <2>4. i # t[1]
    BY <1>3, <2>2 DEF IsTodo
  <2> QED BY <1>3, <2>3, <2>4
<1>7. Head(t) \in 1..3 /\ Head(t) \in Range(t)
  BY <1>1, <1>3 DEF Range
<1>8. Len(t) # 1 => IsTodo(Tail(t)) /\ Len(Tail(t)) = Len(t) - 1
  BY <1>2, <1>5
<1> QED BY <1>1, <1>6, <1>7, <1>8

\* What a worker is in the middle of: the job exists, and has come where jobs of its kind
\* come; a plan about to be carried out has items.
InPass(p, j, t, a, rows) ==
  /\ j \in DOMAIN rows /\ rows[j].kind \in Jobs
  /\ p \in Early \cup {"enqueue", "complete"}
  /\ p \in {"plan", "gate", "consult", "park"} => rows[j].kind = "tick"
  /\ p = "replan" => rows[j].kind = "replan"
  /\ p \in {"gate", "consult"} => a.edges \in Edges
  /\ p = "consult" => a.edges # <<>>
  /\ p = "enqueue" => IsTodo(t)

Indexed(f) == f = [w \in Workers |-> f[w]]
PassesInv ==
  /\ Indexed(pc) /\ Indexed(job) /\ Indexed(todo) /\ Indexed(answer)
  /\ \A w \in Workers : pc[w] # "idle" => InPass(pc[w], job[w], todo[w], answer[w], task)

\* A step of the pass of w, which leaves the others where they were.
Turn(w, p, j, t, a) ==
  /\ pc' = [pc EXCEPT ![w] = p] /\ job' = [job EXCEPT ![w] = j]
  /\ todo' = [todo EXCEPT ![w] = t] /\ answer' = [answer EXCEPT ![w] = a]
Turned(w, p, j, t, a) ==
  /\ Indexed(pc') /\ Indexed(job') /\ Indexed(todo') /\ Indexed(answer')
  /\ pc'[w] = p /\ job'[w] = j /\ todo'[w] = t /\ answer'[w] = a
  /\ \A v \in Workers : v # w =>
       pc'[v] = pc[v] /\ job'[v] = job[v] /\ todo'[v] = todo[v] /\ answer'[v] = answer[v]

LEMMA TurnIsTurned ==
  ASSUME PassesInv, NEW w \in Workers, NEW p, NEW j, NEW t, NEW a, Turn(w, p, j, t, a)
  PROVE  Turned(w, p, j, t, a)
BY DEF PassesInv, Indexed, Turn, Turned

LEMMA SameValue ==
  ASSUME NEW f, Indexed(f), NEW w \in Workers
  PROVE  f = [f EXCEPT ![w] = f[w]]
BY DEF Indexed

LEMMA GotoTurns ==
  ASSUME PassesInv, NEW w \in Workers, NEW p, Goto(w, p), UNCHANGED <<job, todo, answer>>
  PROVE  Turned(w, p, job[w], todo[w], answer[w])
BY TurnIsTurned, SameValue DEF PassesInv, Goto, Turn

LEMMA LeaveTurns ==
  ASSUME PassesInv, NEW w \in Workers, Leave(w)
  PROVE  Turned(w, "idle", 0, <<>>, NoAnswer)
BY TurnIsTurned DEF Leave, Goto, Turn

\* Rows keep the columns that say what they are.
Older == DOMAIN task \subseteq DOMAIN task' /\ \A n \in DOMAIN task : SameOrigin(task'[n], task[n])

LEMMA TurnKeepsPasses ==
  ASSUME PassesInv, Older, NEW w \in Workers, NEW p, NEW j, NEW t, NEW a,
         Turned(w, p, j, t, a), p # "idle" => InPass(p, j, t, a, task)
  PROVE  PassesInv'
<1>1. ASSUME NEW v \in Workers, pc'[v] # "idle"
      PROVE  InPass(pc'[v], job'[v], todo'[v], answer'[v], task')
  <2>1. InPass(pc'[v], job'[v], todo'[v], answer'[v], task)
    BY <1>1 DEF PassesInv, Turned
  <2> QED BY <2>1 DEF Older, SameOrigin, InPass
<1> QED BY <1>1 DEF PassesInv, Turned

LEMMA PassesKept ==
  ASSUME PassesInv, Older, UNCHANGED <<pc, job, todo, answer>>
  PROVE  PassesInv'
<1>1. ASSUME NEW v \in Workers, pc[v] # "idle"
      PROVE  InPass(pc[v], job[v], todo[v], answer[v], task')
  BY <1>1 DEF PassesInv, Older, SameOrigin, InPass
<1> QED BY <1>1 DEF PassesInv

\* The approvals table keeps its rows: what has been asked remains asked.
Asked(n, rows, end) ==
  \E i \in 1..MaxRows : /\ i < end /\ rows[i].act = <<"pm.replan", n>>
                        /\ rows[i].status \in Approve!RowStatuses
StoreInv ==
  /\ next \in Nat /\ row = [i \in 1..MaxRows |-> row[i]]
  /\ \A i \in 1..MaxRows :
       /\ row[i] = [act |-> row[i].act, status |-> row[i].status]
       /\ row[i].status \in Approve!RowStatuses
       /\ row[i].status # "absent" => i < next

\* Stuck signals are about tasks.
SignalsInv == \A e \in log \cup open \cup batch : e.of \in DOMAIN task

PlansInv == RowsInv /\ PassesInv /\ StoreInv /\ SignalsInv

\* The kinds of steps there are.
Still == UNCHANGED <<pc, job, todo, answer>>
Quiet == Still /\ UNCHANGED task
NewJob ==
  Still /\ \E r : Inserted(r) /\ r.kind \in Jobs /\ r.status = "queued" /\ r.kicks = 0
Restatused(n) ==
  Still /\ \E s : /\ Moved(n, s)
                  /\ s \in {"queued", "blocked"} => task[n].status = "blocked"
                  /\ s = "merged" => task[n].kind = "work"
Rekicked(n) == Still /\ KickedRow(n) /\ Unattended(n)
Taken(w, n) ==
  /\ pc[w] = "idle" /\ Moved(n, "running") /\ task[n].status = "queued" /\ task[n].kind \in Jobs
  /\ Turned(w, FirstStep[task[n].kind], n, todo[w], answer[w])
\* A replan goes on as the cap on its depth says.
Legal(w, p, t) ==
  task[job[w]].kind = "replan" =>
    LET n == task[job[w]].of IN
    /\ p = "enqueue" => task[n].depth < Cap /\ Len(t) >= 2
    /\ p = "request" => ~(task[n].depth < Cap)
    /\ p = "complete" => pc[w] = "request" /\ Asked(n, row', next')
Onward(w, p, t) ==
  /\ pc[w] \in Early /\ p # "idle" /\ UNCHANGED task /\ Legal(w, p, t)
  /\ \E a : Turned(w, p, job[w], t, a) /\ InPass(p, job[w], t, a, task)
Dropped(w) == UNCHANGED task /\ Turned(w, "idle", 0, <<>>, NoAnswer)
Ended(w, s) ==
  /\ \/ pc[w] = "park" /\ s = "blocked"
     \/ pc[w] = "complete" /\ s = "merged"
  /\ Moved(job[w], s) /\ Turned(w, "idle", 0, <<>>, NoAnswer)
ItemAdded(w) ==
  /\ pc[w] = "enqueue" /\ Inserted(ItemRow(w, Head(todo[w])))
  /\ Turned(w, IF Len(todo[w]) = 1 THEN "complete" ELSE "enqueue", job[w], Tail(todo[w]), answer[w])

\* What each of them keeps, and what the workers' own steps are.
PlanStep ==
  /\ RowsInv'
  /\ \/ Quiet \/ NewJob
     \/ \E n \in DOMAIN task : Restatused(n) \/ Rekicked(n)
     \/ \E w \in Workers : \/ \E n \in DOMAIN task : Taken(w, n)
                           \/ \E p, t : Onward(w, p, t)
                           \/ \E s : Ended(w, s)
                           \/ Dropped(w) \/ ItemAdded(w)

LEMMA QuietStep ==
  ASSUME RowsInv, UNCHANGED <<task, pc, job, todo, answer>>
  PROVE  PlanStep
BY DEF PlanStep, Quiet, Still, RowsInv

LEMMA JobStep ==
  ASSUME RowsInv, NEW k \in Jobs, NEW o, Enqueue(Row(k, o, 0, 0, 0, {})), Still,
         IF k = "tick" THEN o = 0 ELSE o \in DOMAIN task
  PROVE  PlanStep
<1> DEFINE r == Row(k, o, 0, 0, 0, {})
<1>1. IsRow(r) /\ r.kind = k /\ r.of = o /\ r.status = "queued" /\ r.kicks = 0
  BY NewRow
<1>2. Enqueue(r)
  OBVIOUS
<1> HIDE DEF r
<1>3. HasOrigin(r, DOMAIN task)
  BY <1>1 DEF HasOrigin, Jobs, Kinds
<1>4. RowsInv' /\ Inserted(r)
  BY <1>1, <1>2, <1>3, InsertKeepsRows
<1> QED BY <1>1, <1>4 DEF PlanStep, NewJob

LEMMA StatusStep ==
  ASSUME RowsInv, NEW n \in DOMAIN task, NEW s, Set(n, s), Still,
         s \in {"queued", "blocked"} => task[n].status = "blocked",
         s = "merged" => task[n].kind = "work"
  PROVE  PlanStep
BY SetMoves DEF PlanStep, Restatused

LEMMA PassMoves ==
  ASSUME RowsInv, NEW w \in Workers, NEW p, NEW t, Onward(w, p, t)
  PROVE  PlanStep
BY DEF PlanStep, Onward, RowsInv

LEMMA PassDrops ==
  ASSUME RowsInv, PassesInv, NEW w \in Workers, UNCHANGED task, Leave(w)
  PROVE  PlanStep
BY LeaveTurns DEF PlanStep, Dropped, RowsInv

\* A plan that is acyclic and has items is carried out, item by item.
LEMMA DecomposeStep ==
  ASSUME PlansAreOrdered, RowsInv, PassesInv, NEW w \in Workers, NEW a,
         pc[w] \in {"replan", "consult"}, Decompose(w, a), UNCHANGED task,
         a.edges \in Edges, a.edges # <<>>,
         task[job[w]].kind = "replan" =>
           task[task[job[w]].of].depth < Cap /\ Len(a.edges) >= 2
  PROVE  PlanStep
<1>1. CASE Acyclic(a.edges)
  <2> DEFINE t == TopoOrder(a.edges)
  <2>1. IsTodo(t) /\ Len(t) = Len(a.edges)
    BY <1>1, PlansAreTodo
  <2> HIDE DEF t
  <2>2. Goto(w, "enqueue") /\ job' = job /\ answer' = [answer EXCEPT ![w] = a]
        /\ todo' = [todo EXCEPT ![w] = t]
    BY <1>1 DEF Decompose, t
  <2>3. Turned(w, "enqueue", job[w], t, a)
    BY <2>2, TurnIsTurned, SameValue DEF Goto, Turn, PassesInv
  <2>4. InPass(pc[w], job[w], todo[w], answer[w], task) /\ pc[w] \in Early
    BY DEF PassesInv, Early
  <2>5. InPass("enqueue", job[w], t, a, task)
    BY <2>1, <2>4 DEF InPass
  <2>6. Legal(w, "enqueue", t)
    BY <2>1 DEF Legal
  <2>7. Onward(w, "enqueue", t)
    BY <2>3, <2>4, <2>5, <2>6 DEF Onward
  <2> QED BY <2>7, PassMoves
<1>2. CASE ~Acyclic(a.edges)
  BY <1>2, PassDrops DEF Decompose
<1> QED BY <1>1, <1>2

\* A step of a pass that is not a plan's.
LEMMA GotoStep ==
  ASSUME RowsInv, PassesInv, NEW w \in Workers, NEW p, Goto(w, p),
         UNCHANGED <<task, job, todo, answer>>,
         pc[w] \in Early, p \in {"gate", "consult", "request", "park", "complete"},
         p # "gate", p # "consult" \/ (answer[w].edges \in Edges /\ answer[w].edges # <<>>),
         p \in {"consult", "park"} => task[job[w]].kind = "tick",
         Legal(w, p, todo[w])
  PROVE  PlanStep
<1>1. Turned(w, p, job[w], todo[w], answer[w])
  BY GotoTurns
<1>2. InPass(pc[w], job[w], todo[w], answer[w], task)
  BY DEF PassesInv, Early
<1>3. InPass(p, job[w], todo[w], answer[w], task)
  BY <1>2 DEF InPass, Early
<1>4. Onward(w, p, todo[w])
  BY <1>1, <1>3 DEF Onward
<1> QED BY <1>4, PassMoves

LEMMA ReplanStep ==
  ASSUME PlansAreOrdered, PlansInv, NEW w \in Workers, Replan(w)
  PROVE  PlanStep
<1> DEFINE n == task[job[w]].of
<1>0. RowsInv /\ PassesInv /\ pc[w] = "replan" /\ UNCHANGED <<task, row, next>>
  BY DEF PlansInv, Replan
<1>1. InPass(pc[w], job[w], todo[w], answer[w], task)
  BY <1>0 DEF PassesInv
<1>2. IsRow(task[n]) /\ task[job[w]].kind = "replan"
  BY <1>0, <1>1 DEF InPass, RowsInv, HasOrigin
<1>3. task[n].depth \in Nat /\ Cap \in Nat
  BY <1>2, PlanningAssumption DEF IsRow, PlanningAssumption
<1>4. CASE AtCap(task[n].depth)
  <2>1. Goto(w, "request") /\ UNCHANGED <<job, todo, answer>>
    BY <1>4 DEF Replan
  <2>2. Legal(w, "request", todo[w])
    BY <1>3, <1>4 DEF Legal, AtCap
  <2> QED BY <1>0, <2>1, <2>2, GotoStep DEF Early
<1>5. CASE ~AtCap(task[n].depth)
  <2>1. PICK a \in Answers : Decompose(w, Resized(a))
    BY <1>5 DEF Replan
  <2>2. a.edges \in Edges
    BY PlanningAssumption DEF PlanningAssumption
  <2>3. Resized(a).edges = Smaller(a.edges)
    BY DEF Resized
  <2>4. Resized(a).edges \in Edges /\ Len(Resized(a).edges) >= 2 /\ Resized(a).edges # <<>>
    BY <2>2, <2>3, SmallerIsAPlan
  <2>5. task[n].depth < Cap
    BY <1>3, <1>5 DEF AtCap
  <2> QED BY <1>0, <2>1, <2>4, <2>5, DecomposeStep
<1> QED BY <1>4, <1>5

LEMMA TickStep ==
  ASSUME PlansAreOrdered, PlansInv, NEW w \in Workers, Plan(w) \/ Gate(w) \/ Consult(w)
  PROVE  PlanStep
<1>0. RowsInv /\ PassesInv /\ pc[w] \in {"plan", "gate", "consult"} /\ UNCHANGED task
  BY DEF PlansInv, Plan, Gate, Consult
<1>1. InPass(pc[w], job[w], todo[w], answer[w], task)
  BY <1>0 DEF PassesInv
<1>2. task[job[w]].kind = "tick" /\ pc[w] \in Early
  BY <1>0, <1>1 DEF InPass, Early
<1>3. ASSUME NEW p, NEW t PROVE Legal(w, p, t)
  BY <1>2 DEF Legal
<1>4. CASE Plan(w)
  <2>1. PICK a \in Answers : answer' = [answer EXCEPT ![w] = a]
    BY <1>4 DEF Plan
  <2>2. Goto(w, "gate") /\ UNCHANGED <<job, todo>>
    BY <1>4 DEF Plan
  <2>3. Turned(w, "gate", job[w], todo[w], a)
    BY <1>0, <2>1, <2>2, TurnIsTurned, SameValue DEF Goto, Turn, PassesInv
  <2>4. a.edges \in Edges
    BY PlanningAssumption DEF PlanningAssumption
  <2>5. InPass("gate", job[w], todo[w], a, task)
    BY <1>1, <1>2, <2>4 DEF InPass, Early
  <2>6. Onward(w, "gate", todo[w])
    BY <1>0, <1>2, <1>3, <2>3, <2>5 DEF Onward
  <2> QED BY <1>0, <2>6, PassMoves
<1>5. CASE Gate(w)
  <2>1. CASE Granted(job[w])
    BY <1>0, <1>5, <2>1, PassDrops DEF Gate
  <2>2. CASE ~Granted(job[w])
    <3> DEFINE p == Decision(answer[w])
    <3>1. p \in {"request", "complete", "consult"} /\ (p = "consult" => answer[w].edges # <<>>)
      BY DEF Decision
    <3>2. Goto(w, p) /\ UNCHANGED <<job, todo, answer>>
      BY <1>5, <2>2 DEF Gate
    <3>3. answer[w].edges \in Edges
      BY <1>1, <1>5 DEF InPass, Gate
    <3> HIDE DEF p
    <3> QED BY <1>0, <1>2, <1>3, <3>1, <3>2, <3>3, GotoStep
  <2> QED BY <2>1, <2>2
<1>6. CASE Consult(w)
  <2>1. answer[w].edges \in Edges /\ answer[w].edges # <<>> /\ pc[w] = "consult"
    BY <1>1, <1>6 DEF InPass, Consult
  <2>2. CASE Decompose(w, answer[w])
    BY <1>0, <1>2, <2>1, <2>2, DecomposeStep
  <2>3. CASE Goto(w, "request") /\ UNCHANGED <<job, todo, answer>>
    BY <1>0, <1>2, <1>3, <2>3, GotoStep
  <2> QED BY <1>6, <2>2, <2>3 DEF Consult
<1> QED BY <1>4, <1>5, <1>6

\* A question put to the human is on the table from then on.
LEMMA InsertIsAsked ==
  ASSUME StoreInv, NEW n, NEW a, Approve!InsertPending(a)
  PROVE  /\ a = <<"pm.replan", n>> => Asked(n, row', next')
         /\ StoreInv' /\ \A m : Asked(m, row, next) => Asked(m, row', next')
<1> DEFINE r == [act |-> a, status |-> "pending"]
<1>1. /\ next \in 1..MaxRows /\ row' = [row EXCEPT ![next] = r] /\ next' = next + 1
      /\ next \in Nat /\ row = [i \in 1..MaxRows |-> row[i]]
  BY DEF Approve!InsertPending, Approve!Ids, StoreInv
<1>2. r = [act |-> r.act, status |-> r.status] /\ r.act = a /\ r.status = "pending"
  OBVIOUS
<1> HIDE DEF r
<1>3. /\ row' = [i \in 1..MaxRows |-> row'[i]] /\ row'[next] = r
      /\ \A i \in 1..MaxRows : i # next => row'[i] = row[i]
  BY <1>1
<1>4. "pending" \in Approve!RowStatuses
  BY DEF Approve!RowStatuses, Approve!Open
<1>5. a = <<"pm.replan", n>> => Asked(n, row', next')
  BY <1>1, <1>2, <1>3, <1>4 DEF Asked
<1>6. \A m : Asked(m, row, next) => Asked(m, row', next')
  BY <1>1, <1>3 DEF Asked
<1>7. ASSUME NEW i \in 1..MaxRows
      PROVE  /\ row'[i] = [act |-> row'[i].act, status |-> row'[i].status]
             /\ row'[i].status \in Approve!RowStatuses
             /\ row'[i].status # "absent" => i < next'
  <2>1. CASE i = next
    BY <1>1, <1>2, <1>3, <1>4, <2>1
  <2>2. CASE i # next
    BY <1>1, <1>3, <2>2 DEF StoreInv
  <2> QED BY <2>1, <2>2
<1>8. StoreInv'
  BY <1>1, <1>3, <1>7 DEF StoreInv
<1> QED BY <1>5, <1>6, <1>8

LEMMA RequestStep ==
  ASSUME PlansInv, NEW w \in Workers, Request(w)
  PROVE  PlanStep
<1> DEFINE p == IF task[job[w]].kind = "tick" THEN "park" ELSE "complete"
           n == task[job[w]].of
<1>0. RowsInv /\ PassesInv /\ StoreInv /\ pc[w] = "request" /\ UNCHANGED <<task, job, answer, todo>>
  BY DEF PlansInv, Request
<1>1. Goto(w, p)
  BY DEF Request
<1>2. ASSUME task[job[w]].kind = "replan" PROVE Asked(n, row', next')
  <2>1. Act(w) = <<"pm.replan", n>>
    BY <1>2 DEF Act
  <2>2. CASE Approve!InsertPending(Act(w))
    BY <1>0, <2>1, <2>2, InsertIsAsked
  <2>3. CASE (\E i \in 1..MaxRows : Approve!OldestOpen(Act(w), i)) /\ UNCHANGED <<row, next>>
    <3>1. PICK i \in 1..MaxRows : row[i].act = <<"pm.replan", n>> /\ row[i].status # "absent"
      BY <2>1, <2>3 DEF Approve!OldestOpen, Approve!RowsOf, Approve!Reusable
    <3> QED BY <1>0, <2>3, <3>1 DEF Asked, StoreInv
  <2> QED BY <2>2, <2>3 DEF Request
<1>3. Legal(w, p, todo[w])
  BY <1>0, <1>2 DEF Legal
<1> HIDE DEF p
<1>4. p \in {"park", "complete"} /\ (p = "park" => task[job[w]].kind = "tick")
  BY DEF p
<1> QED BY <1>0, <1>1, <1>3, <1>4, GotoStep DEF Early

LEMMA ItemStep ==
  ASSUME PlansInv, NEW w \in Workers, EnqueueItem(w)
  PROVE  PlanStep
<1> DEFINE i == Head(todo[w])  r == ItemRow(w, i)  n == job[w]
           p == IF Len(todo[w]) = 1 THEN "complete" ELSE "enqueue"
<1>0. RowsInv /\ PassesInv /\ pc[w] = "enqueue"
  BY DEF PlansInv, EnqueueItem
<1>1. InPass(pc[w], n, todo[w], answer[w], task)
  BY <1>0 DEF PassesInv
<1>2. /\ n \in DOMAIN task /\ task[n].kind \in Jobs /\ IsRow(task[n])
      /\ HasOrigin(task[n], DOMAIN task)
  BY <1>0, <1>1 DEF InPass, RowsInv
<1>3. task[n].of \in DOMAIN task \cup {0}
      /\ (task[n].kind = "replan" => task[task[n].of].depth \in Nat)
  BY <1>0, <1>2 DEF HasOrigin, Jobs, RowsInv, IsRow
<1>4. /\ IsRow(r) /\ r.kind = "work" /\ r.of = task[n].of /\ r.by = n
  <2> DEFINE d == IF task[n].kind = "replan" THEN task[task[n].of].depth + 1 ELSE 0
  <2>1. d \in Nat
    BY <1>3
  <2>2. r = Row("work", task[n].of, n, i, d, Prerequisites(w, i))
    BY DEF ItemRow
  <2> HIDE DEF d, r, i
  <2> QED BY <2>1, <2>2, NewRow
<1>5. Enqueue(r)
  BY DEF EnqueueItem
<1>6. Goto(w, p) /\ todo' = [todo EXCEPT ![w] = Tail(todo[w])] /\ UNCHANGED <<job, answer>>
  BY DEF EnqueueItem
<1> HIDE DEF p, r
<1>7. HasOrigin(r, DOMAIN task)
  BY <1>2, <1>3, <1>4 DEF HasOrigin, Kinds
<1>8. RowsInv' /\ Inserted(r)
  BY <1>0, <1>4, <1>5, <1>7, InsertKeepsRows
<1>9. Turned(w, p, job[w], Tail(todo[w]), answer[w])
  BY <1>0, <1>6, TurnIsTurned, SameValue DEF Goto, Turn, PassesInv
<1> QED BY <1>0, <1>8, <1>9 DEF PlanStep, ItemAdded, p, r

LEMMA EndStep ==
  ASSUME PlansInv, NEW w \in Workers, Park(w) \/ Complete(w)
  PROVE  PlanStep
<1> DEFINE n == job[w]
<1>0. RowsInv /\ PassesInv /\ pc[w] \in {"park", "complete"} /\ Leave(w)
  BY DEF PlansInv, Park, Complete
<1>1. InPass(pc[w], n, todo[w], answer[w], task)
  BY <1>0 DEF PassesInv
<1>2. n \in DOMAIN task /\ Turned(w, "idle", 0, <<>>, NoAnswer)
  BY <1>0, <1>1, LeaveTurns DEF InPass
<1>3. CASE UNCHANGED task
  BY <1>0, <1>3, PassDrops
<1>4. CASE Park(w) /\ task' = [task EXCEPT ![n] = ParkedOn(task[n], ask[w])]
  <2>1. RowsInv' /\ Moved(n, "blocked") /\ pc[w] = "park"
    BY <1>0, <1>2, <1>4, ParkMoves DEF Park
  <2>2. Ended(w, "blocked")
    BY <1>2, <2>1 DEF Ended
  <2> QED BY <2>1, <2>2 DEF PlanStep
<1>5. CASE Complete(w) /\ Set(n, "merged")
  <2>1. RowsInv' /\ Moved(n, "merged") /\ pc[w] = "complete"
    BY <1>0, <1>2, <1>5, SetMoves DEF Complete
  <2>2. Ended(w, "merged")
    BY <1>2, <2>1 DEF Ended
  <2> QED BY <2>1, <2>2 DEF PlanStep
<1> QED BY <1>3, <1>4, <1>5 DEF Park, Complete

LEMMA TakeStep ==
  ASSUME PlansInv, NEW w \in Workers, NEW n \in DOMAIN task, Take(w, n)
  PROVE  PlanStep
<1>0. RowsInv /\ PassesInv
  BY DEF PlansInv
<1>1. RowsInv' /\ Moved(n, "running")
  BY <1>0, SetMoves DEF Take
<1>2. /\ Goto(w, FirstStep[task[n].kind]) /\ job' = [job EXCEPT ![w] = n]
      /\ UNCHANGED <<todo, answer>>
  BY DEF Take
<1>3. Turned(w, FirstStep[task[n].kind], n, todo[w], answer[w])
  BY <1>0, <1>2, TurnIsTurned, SameValue DEF Goto, Turn, PassesInv
<1>4. Taken(w, n)
  BY <1>1, <1>3 DEF Taken, Take
<1> QED BY <1>1, <1>4 DEF PlanStep

LEMMA NextPlanStep ==
  ASSUME PlansAreOrdered, PlansInv, [Next]_vars
  PROVE  PlanStep
<1>0. RowsInv /\ PassesInv /\ SignalsInv
  BY DEF PlansInv
<1>1. CASE UNCHANGED vars
  BY <1>0, <1>1, QuietStep DEF vars, passVars
<1>2. CASE Wake
  <2>1. CASE UNCHANGED task
    BY <1>0, <1>2, <2>1, QuietStep DEF Wake, passVars
  <2>2. CASE Enqueue(Tick)
    BY <1>0, <1>2, <2>2, JobStep DEF Wake, Tick, Still, passVars, Jobs
  <2> QED BY <1>2, <2>1, <2>2 DEF Wake
<1>3. CASE EnqueueGoal
  BY <1>0, <1>3, JobStep DEF EnqueueGoal, Tick, Still, passVars, Jobs
<1>4. CASE Dispatch
  <2>1. PICK e \in batch : UNCHANGED task \/ Enqueue(Row("replan", e.of, 0, 0, 0, {}))
    BY <1>4 DEF Dispatch
  <2>2. UNCHANGED <<pc, job, todo, answer>>
    BY <1>4 DEF Dispatch, passVars
  <2>3. CASE UNCHANGED task
    BY <1>0, <2>2, <2>3, QuietStep
  <2>4. CASE Enqueue(Row("replan", e.of, 0, 0, 0, {}))
    <3>1. e.of \in DOMAIN task
      BY <1>0, <2>1 DEF SignalsInv
    <3> QED BY <1>0, <2>2, <2>4, <3>1, JobStep DEF Still, Jobs
  <2> QED BY <2>1, <2>3, <2>4
<1>5. CASE EndDispatch \/ SchedulerFails \/ OtherEvent \/ (\E i \in 1..MaxRows : Resolve(i))
  BY <1>0, <1>5, QuietStep DEF EndDispatch, SchedulerFails, OtherEvent, Resolve, passVars
<1>6. ASSUME NEW w \in Workers,
             WorkerStep(w) \/ PassFails(w) \/ \E n \in DOMAIN task : Take(w, n)
      PROVE  PlanStep
  <2>1. CASE Replan(w)
    BY <2>1, ReplanStep
  <2>2. CASE Plan(w) \/ Gate(w) \/ Consult(w)
    BY <2>2, TickStep
  <2>3. CASE Request(w)
    BY <2>3, RequestStep
  <2>4. CASE EnqueueItem(w)
    BY <2>4, ItemStep
  <2>5. CASE Park(w) \/ Complete(w)
    BY <2>5, EndStep
  <2>6. CASE PassFails(w)
    BY <1>0, <2>6, PassDrops DEF PassFails
  <2>7. CASE \E n \in DOMAIN task : Take(w, n)
    BY <2>7, TakeStep
  <2> QED BY <1>6, <2>1, <2>2, <2>3, <2>4, <2>5, <2>6, <2>7 DEF WorkerStep
<1>7. ASSUME NEW n \in DOMAIN task, Resume(n) \/ Recover(n) \/ WorkMerges(n) \/ Stall(n)
      PROVE  PlanStep
  <2>0. Still
    BY <1>7 DEF Resume, Recover, Rekick, GiveUp, WorkMerges, Stall, passVars, Still
  <2>1. CASE Stall(n)
    BY <1>0, <2>0, <2>1, QuietStep DEF Stall, Still
  <2>2. CASE Resume(n)
    BY <1>0, <2>0, <2>2, StatusStep DEF Resume
  <2>3. CASE GiveUp(n)
    BY <1>0, <2>0, <2>3, StatusStep DEF GiveUp
  <2>4. CASE WorkMerges(n)
    BY <1>0, <2>0, <2>4, StatusStep DEF WorkMerges, Runs
  <2>5. CASE Rekick(n)
    <3>1. RowsInv' /\ KickedRow(n)
      BY <1>0, <2>5, KickMoves DEF Rekick
    <3> QED BY <2>0, <2>5, <3>1 DEF PlanStep, Rekicked, Rekick, Abandoned
  <2> QED BY <1>7, <2>1, <2>2, <2>3, <2>4, <2>5 DEF Recover
<1>8. ASSUME NEW e \in open, CommitStuck(e) \/ RollbackStuck(e)
      PROVE  PlanStep
  <2>1. e.of \in DOMAIN task
    BY <1>0 DEF SignalsInv
  <2>2. Still
    BY <1>8 DEF CommitStuck, RollbackStuck, passVars, Still
  <2>3. CASE CommitStuck(e)
    BY <1>0, <2>1, <2>2, <2>3, StatusStep DEF CommitStuck
  <2>4. CASE RollbackStuck(e)
    BY <1>0, <2>2, <2>4, QuietStep DEF RollbackStuck, Still
  <2> QED BY <1>8, <2>3, <2>4
<1> QED
  BY <1>1, <1>2, <1>3, <1>4, <1>5, <1>6, <1>7, <1>8 DEF Next, SchedulerStep

LEMMA StepsAreOlder ==
  ASSUME PlanStep
  PROVE  Older
<1>1. ASSUME NEW n, Updated(n) PROVE Older
  <2>1. SameOrigin(task'[n], task[n]) /\ \A m \in DOMAIN task : m # n => task'[m] = task[m]
    BY <1>1 DEF Updated
  <2> QED BY <1>1, <2>1 DEF Older, Updated, SameOrigin
<1>2. ASSUME NEW r, Inserted(r) PROVE Older
  BY <1>2 DEF Older, Inserted, SameOrigin
<1>3. ASSUME UNCHANGED task PROVE Older
  BY <1>3 DEF Older, SameOrigin
<1>4. \/ UNCHANGED task
      \/ \E n : Updated(n)
      \/ \E r : Inserted(r)
  BY DEF PlanStep, Quiet, NewJob, Restatused, Rekicked, Moved, KickedRow, Taken, Onward,
         Ended, Dropped, ItemAdded
<1> QED BY <1>1, <1>2, <1>3, <1>4

\* The store and the signals are written by few.
LEMMA StoreStep ==
  ASSUME StoreInv, [Next]_vars
  PROVE  StoreInv' /\ \A n : Asked(n, row, next) => Asked(n, row', next')
<1>1. CASE UNCHANGED <<row, next>>
  BY <1>1 DEF StoreInv
<1>2. ASSUME NEW a, Approve!InsertPending(a)
      PROVE  StoreInv' /\ \A n : Asked(n, row, next) => Asked(n, row', next')
  BY <1>2, InsertIsAsked
<1>3. ASSUME NEW i \in 1..MaxRows, NEW v \in {"approved", "denied"}, Approve!ResolveAs(i, v)
      PROVE  StoreInv' /\ \A n : Asked(n, row, next) => Asked(n, row', next')
  <2> DEFINE r == [row[i] EXCEPT !.status = v]
  <2>1. row' = [row EXCEPT ![i] = r] /\ next' = next /\ row[i].status = "pending"
    BY <1>3 DEF Approve!ResolveAs, Approve!Undecided
  <2>2. r.act = row[i].act /\ r.status = v /\ r = [act |-> r.act, status |-> r.status]
    BY DEF StoreInv
  <2> HIDE DEF r
  <2>3. row' = [k \in 1..MaxRows |-> row'[k]] /\ row'[i] = r
        /\ \A k \in 1..MaxRows : k # i => row'[k] = row[k]
    BY <2>1 DEF StoreInv
  <2>4. v \in Approve!RowStatuses /\ i < next
    BY <2>1 DEF Approve!RowStatuses, Approve!Open, StoreInv
  <2>5. \A n : Asked(n, row, next) => Asked(n, row', next')
    BY <2>1, <2>2, <2>3, <2>4 DEF Asked
  <2>6. ASSUME NEW k \in 1..MaxRows
        PROVE  /\ row'[k] = [act |-> row'[k].act, status |-> row'[k].status]
               /\ row'[k].status \in Approve!RowStatuses
               /\ row'[k].status # "absent" => k < next'
    <3>1. CASE k = i
      BY <2>1, <2>2, <2>3, <2>4, <3>1
    <3>2. CASE k # i
      BY <2>1, <2>3, <3>2 DEF StoreInv
    <3> QED BY <3>1, <3>2
  <2>7. StoreInv'
    BY <2>1, <2>3, <2>6 DEF StoreInv
  <2> QED BY <2>5, <2>7
<1>4. \/ UNCHANGED <<row, next>>
      \/ \E w \in Workers : Approve!InsertPending(Act(w))
      \/ \E i \in 1..MaxRows : \E v \in {"approved", "denied"} : Approve!ResolveAs(i, v)
  BY DEF Next, vars, SchedulerStep, Wake, Dispatch, EndDispatch, SchedulerFails,
         EnqueueGoal, OtherEvent, WorkerStep, Replan, Plan, Gate, Consult, Request,
         EnqueueItem, Park, Complete, PassFails, Take, Resume, Recover, Rekick, GiveUp,
         WorkMerges, Stall, CommitStuck, RollbackStuck, Resolve
<1> QED BY <1>1, <1>2, <1>3, <1>4

LEMMA SignalsStep ==
  ASSUME SignalsInv, [Next]_vars, Older
  PROVE  SignalsInv'
<1>1. ASSUME NEW e \in log' \cup open' \cup batch'
      PROVE  e \in log \cup open \cup batch \/ e.of \in DOMAIN task
  <2>1. CASE UNCHANGED <<open, log, batch>>
    BY <1>1, <2>1
  <2>2. CASE UNCHANGED <<open, log>> /\ batch' \subseteq batch \cup Log!ReadEvents(cursor)
    BY <1>1, <2>2 DEF Log!ReadEvents, Log!Window
  <2>3. CASE batch' = batch /\ \E n \in DOMAIN task : Log!AppendEvent(n)
    BY <1>1, <2>3 DEF Log!AppendEvent
  <2>4. CASE batch' = batch /\ \E f \in open : Log!Commit(f) \/ Log!Rollback(f)
    BY <1>1, <2>4 DEF Log!Commit, Log!Rollback
  <2> QED
    BY <2>1, <2>2, <2>3, <2>4
    DEF Next, vars, eventVars, schedulerVars, SchedulerStep, Wake, Dispatch, EndDispatch,
        SchedulerFails, EnqueueGoal, OtherEvent, WorkerStep, Replan, Plan, Gate, Consult, Request,
        EnqueueItem, Park, Complete, PassFails, Take, Resume, Recover, Rekick, GiveUp,
        WorkMerges, Stall, CommitStuck, RollbackStuck, Resolve, Log!AppendOther, Log!Draw
<1> QED BY <1>1 DEF SignalsInv, Older

LEMMA PlansStep ==
  ASSUME PlansAreOrdered, PlansInv, [Next]_vars
  PROVE  PlanStep /\ Older /\ PlansInv'
<1>0. RowsInv /\ PassesInv /\ StoreInv /\ SignalsInv
  BY DEF PlansInv
<1>1. PlanStep /\ RowsInv'
  BY NextPlanStep DEF PlanStep
<1>2. Older
  BY <1>1, StepsAreOlder
<1>3. PassesInv'
  <2>1. CASE Still
    BY <1>0, <1>2, <2>1, PassesKept DEF Still
  <2>2. ASSUME NEW w \in Workers, NEW n \in DOMAIN task, Taken(w, n) PROVE PassesInv'
    <3> DEFINE p == FirstStep[task[n].kind]
    <3>1. Turned(w, p, n, todo[w], answer[w]) /\ task[n].kind \in Jobs
      BY <2>2 DEF Taken
    <3>2. /\ task[n].kind = "tick" => p = "plan"
          /\ task[n].kind = "replan" => p = "replan"
      BY DEF FirstStep
    <3> HIDE DEF p
    <3>3. InPass(p, n, todo[w], answer[w], task)
      BY <3>1, <3>2 DEF InPass, Jobs, Early
    <3> QED BY <1>0, <1>2, <3>1, <3>3, TurnKeepsPasses
  <2>3. ASSUME NEW w \in Workers, NEW p, NEW t, Onward(w, p, t) PROVE PassesInv'
    BY <1>0, <1>2, <2>3, TurnKeepsPasses DEF Onward
  <2>4. ASSUME NEW w \in Workers, Turned(w, "idle", 0, <<>>, NoAnswer) PROVE PassesInv'
    BY <1>0, <1>2, <2>4, TurnKeepsPasses
  <2>5. ASSUME NEW w \in Workers, ItemAdded(w) PROVE PassesInv'
    <3> DEFINE p == IF Len(todo[w]) = 1 THEN "complete" ELSE "enqueue"
    <3>1. InPass("enqueue", job[w], todo[w], answer[w], task)
      BY <1>0, <2>5 DEF ItemAdded, PassesInv
    <3>2. IsTodo(todo[w])
      BY <3>1 DEF InPass
    <3>3. Len(todo[w]) # 1 => IsTodo(Tail(todo[w]))
      BY <3>2, TodoShrinks
    <3>4. InPass(p, job[w], Tail(todo[w]), answer[w], task)
      BY <3>1, <3>3 DEF InPass
    <3>5. Turned(w, p, job[w], Tail(todo[w]), answer[w])
      BY <2>5 DEF ItemAdded
    <3> HIDE DEF p
    <3> QED BY <1>0, <1>2, <3>4, <3>5, TurnKeepsPasses
  <2> QED
    BY <1>1, <2>1, <2>2, <2>3, <2>4, <2>5
    DEF PlanStep, Quiet, NewJob, Restatused, Rekicked, Ended, Dropped
<1> QED BY <1>0, <1>1, <1>2, <1>3, StoreStep, SignalsStep DEF PlansInv

LEMMA InitPlans ==
  ASSUME Init
  PROVE  PlansInv /\ task = <<>>
<1>1. task = <<>> /\ <<>> \in Seq({}) /\ DOMAIN <<>> = {}
  BY EmptySeq DEF Init
<1>2. RowsInv
  BY <1>1 DEF RowsInv
<1>3. PassesInv
  BY DEF Init, PassesInv, Indexed
<1>4. StoreInv
  <2>1. row = [i \in 1..MaxRows |-> [act |-> NoAct, status |-> "absent"]] /\ next = 1
    BY DEF Init, Approve!StoreInit, Approve!Ids
  <2> QED BY <2>1 DEF StoreInv, Approve!RowStatuses
<1>5. SignalsInv
  BY DEF Init, Log!LogInit, SignalsInv
<1> QED BY <1>1, <1>2, <1>3, <1>4, <1>5 DEF PlansInv

-----------------------------------------------------------------------------
(* A finished replan has led on                                            *)

\* The work rows of a table that are parts of n.
PartsOf(n, rows) == {m \in DOMAIN rows : rows[m].kind = "work" /\ rows[m].of = n}

LEMMA PartsAreCounted ==
  ASSUME NEW rows, \E S : rows \in Seq(S), NEW n
  PROVE  IsFiniteSet(PartsOf(n, rows)) /\ Cardinality(PartsOf(n, rows)) \in Nat
<1>1. PartsOf(n, rows) \subseteq 1..Len(rows) /\ Len(rows) \in Nat
  BY DEF PartsOf
<1>2. IsFiniteSet(PartsOf(n, rows))
  <2>1. IsFiniteSet(1..Len(rows))
    BY <1>1, FS_Interval
  <2> QED BY <1>1, <2>1, FS_Subset
<1> QED BY <1>2, FS_CardinalityType

\* What the replan of n owes by the time it is finished.
Done(n, rows, asked) ==
  IF rows[n].depth < Cap THEN Cardinality(PartsOf(n, rows)) >= 2 ELSE asked

PartsInv ==
  \A n \in DOMAIN task : \A m \in Parts(n) :
    task[n].depth < Cap /\ task[m].depth = task[n].depth + 1
MergedInv ==
  \A r \in DOMAIN task : task[r].kind = "replan" /\ task[r].status = "merged" =>
    Done(task[r].of, task, Asked(task[r].of, row, next))
\* A pass that decomposes n has enqueued two parts by the time it is through its items.
Delivers(p, t, n, rows, asked) ==
  /\ p = "enqueue" => rows[n].depth < Cap /\ Cardinality(PartsOf(n, rows)) + Len(t) >= 2
  /\ p = "request" => ~(rows[n].depth < Cap)
  /\ p = "complete" => Done(n, rows, asked)
DeliveryInv ==
  \A w \in Workers : pc[w] # "idle" /\ task[job[w]].kind = "replan" =>
    Delivers(pc[w], todo[w], task[job[w]].of, task, Asked(task[job[w]].of, row, next))
DeliverInv == PartsInv /\ MergedInv /\ DeliveryInv

\* Nothing that was delivered is taken back.
LEMMA PartsGrow ==
  ASSUME RowsInv, RowsInv', Older, NEW n \in DOMAIN task
  PROVE  /\ task'[n].depth = task[n].depth
         /\ Cardinality(PartsOf(n, task)) \in Nat /\ Cardinality(PartsOf(n, task')) \in Nat
         /\ Cardinality(PartsOf(n, task)) <= Cardinality(PartsOf(n, task'))
<1>1. PartsOf(n, task) \subseteq PartsOf(n, task') /\ task'[n].depth = task[n].depth
  BY DEF PartsOf, Older, SameOrigin
<1>2. (\E S : task \in Seq(S)) /\ (\E S : task' \in Seq(S))
  BY DEF RowsInv
<1>3. /\ IsFiniteSet(PartsOf(n, task')) /\ Cardinality(PartsOf(n, task')) \in Nat
      /\ Cardinality(PartsOf(n, task)) \in Nat
  BY <1>2, PartsAreCounted
<1> QED BY <1>1, <1>3, FS_Subset

LEMMA DoneLasts ==
  ASSUME RowsInv, RowsInv', Older, NEW n \in DOMAIN task,
         Done(n, task, Asked(n, row, next)), Asked(n, row, next) => Asked(n, row', next')
  PROVE  Done(n, task', Asked(n, row', next'))
BY PartsGrow DEF Done

LEMMA DeliversLasts ==
  ASSUME RowsInv, RowsInv', Older, NEW n \in DOMAIN task, NEW p, NEW t, IsTodo(t) \/ p # "enqueue",
         Delivers(p, t, n, task, Asked(n, row, next)),
         Asked(n, row, next) => Asked(n, row', next')
  PROVE  Delivers(p, t, n, task', Asked(n, row', next'))
<1>1. p = "enqueue" => Len(t) \in Nat
  BY DEF IsTodo
<1> QED BY <1>1, PartsGrow, DoneLasts DEF Delivers

\* Parts are inserted by the pass of a replan, and by nothing else.
LEMMA PartsStep ==
  ASSUME PlansInv, DeliverInv, PlanStep, Older
  PROVE  PartsInv'
<1>0. RowsInv /\ PassesInv
  BY DEF PlansInv
<1>1. ASSUME NEW n \in DOMAIN task', NEW m \in Parts(n)', m \in DOMAIN task
      PROVE  task'[n].depth < Cap /\ task'[m].depth = task'[n].depth + 1
  <2>1. task[m].kind = "work" /\ task[m].of = n
    BY <1>1 DEF Parts, RowsOf, Older, SameOrigin
  <2>2. n \in DOMAIN task
    <3>1. n \in DOMAIN task \cup {0}
      BY <1>0, <1>1, <2>1 DEF RowsInv, HasOrigin
    <3>2. n # 0
      <4>1. \E S : task' \in Seq(S)
        BY DEF PlanStep, RowsInv
      <4> QED BY <1>1, <4>1
    <3> QED BY <3>1, <3>2
  <2>3. m \in Parts(n)
    BY <1>1, <2>1 DEF Parts, RowsOf
  <2> QED BY <1>1, <2>2, <2>3 DEF DeliverInv, PartsInv, Older, SameOrigin
<1>2. CASE DOMAIN task' = DOMAIN task
  BY <1>1, <1>2 DEF PartsInv, Parts, RowsOf
<1>3. ASSUME NEW r, Inserted(r), r.kind \in Jobs
      PROVE  PartsInv'
  <2>1. ASSUME NEW n \in DOMAIN task', NEW m \in Parts(n)' PROVE m \in DOMAIN task
    BY <1>3, <2>1 DEF Parts, RowsOf, Inserted, Jobs
  <2> QED BY <1>1, <2>1 DEF PartsInv
<1>4. ASSUME NEW w \in Workers, ItemAdded(w)
      PROVE  PartsInv'
  <2> DEFINE j == job[w]  r == ItemRow(w, Head(todo[w]))  new == Len(task) + 1  o == task[j].of
  <2>1. InPass("enqueue", j, todo[w], answer[w], task)
    BY <1>0, <1>4 DEF ItemAdded, PassesInv
  <2>2. j \in DOMAIN task /\ task[j].kind \in Jobs
    BY <2>1 DEF InPass
  <2>3. HasOrigin(task[j], DOMAIN task)
    BY <1>0, <2>2 DEF RowsInv
  <2>4. r.of = o /\ r.depth = IF task[j].kind = "replan" THEN task[o].depth + 1 ELSE 0
    BY DEF ItemRow, Row
  <2>5. task[j].kind = "tick" => o = 0
    BY <2>3 DEF HasOrigin
  <2>6. task[j].kind = "replan" => o \in DOMAIN task /\ task[o].depth < Cap
    BY <1>4, <2>3 DEF HasOrigin, DeliverInv, DeliveryInv, Delivers, ItemAdded
  <2>7. Inserted(r)
    BY <1>4 DEF ItemAdded
  <2> HIDE DEF r, o
  <2>8. ASSUME NEW n \in DOMAIN task', NEW m \in Parts(n)', m \notin DOMAIN task
        PROVE  task'[n].depth < Cap /\ task'[m].depth = task'[n].depth + 1
    <3>1. task'[m] = r /\ n = o
      BY <2>4, <2>7, <2>8 DEF Parts, RowsOf, Inserted
    <3>2. n # 0
      <4>1. \E S : task' \in Seq(S)
        BY DEF PlanStep, RowsInv
      <4> QED BY <2>8, <4>1
    <3>3. task[j].kind = "replan"
      BY <2>2, <2>5, <3>1, <3>2 DEF Jobs
    <3> QED BY <2>4, <2>6, <2>7, <3>1, <3>3 DEF Inserted
  <2> QED BY <1>1, <2>8 DEF PartsInv
<1>5. \/ DOMAIN task' = DOMAIN task
      \/ \E r : Inserted(r) /\ r.kind \in Jobs
      \/ \E w \in Workers : ItemAdded(w)
  BY DEF PlanStep, Quiet, NewJob, Restatused, Rekicked, Moved, KickedRow, Updated, Taken, Onward,
         Ended, Dropped
<1> QED BY <1>2, <1>3, <1>4, <1>5

LEMMA MergedStep ==
  ASSUME PlansInv, DeliverInv, PlanStep, Older, RowsInv',
         \A n : Asked(n, row, next) => Asked(n, row', next')
  PROVE  MergedInv'
<1>0. RowsInv /\ PassesInv
  BY DEF PlansInv
<1>1. ASSUME NEW r \in DOMAIN task, task[r].kind = "replan",
             Done(task[r].of, task, Asked(task[r].of, row, next))
      PROVE  Done(task'[r].of, task', Asked(task'[r].of, row', next'))
  <2>1. HasOrigin(task[r], DOMAIN task)
    BY <1>0 DEF RowsInv
  <2>2. PICK n \in DOMAIN task : n = task[r].of
    BY <1>1, <2>1 DEF HasOrigin
  <2>3. Done(n, task', Asked(n, row', next'))
    BY <1>0, <1>1, <2>2, DoneLasts
  <2>4. task'[r].of = n
    BY <2>2 DEF Older, SameOrigin
  <2> QED BY <2>3, <2>4
<1>2. ASSUME NEW r \in DOMAIN task, task[r].kind = "replan", task'[r].status = "merged"
      PROVE  Done(task[r].of, task, Asked(task[r].of, row, next))
  <2>1. CASE task[r].status = "merged"
    BY <1>2, <2>1 DEF DeliverInv, MergedInv
  <2>2. CASE task[r].status # "merged"
    <3>1. PICK w \in Workers : pc[w] = "complete" /\ job[w] = r
      BY <1>2, <2>2 DEF PlanStep, Quiet, NewJob, Inserted, Restatused, Rekicked, Taken, Onward,
                        Ended, Dropped, ItemAdded, Moved, KickedRow, Updated
    <3> QED BY <1>2, <3>1 DEF DeliverInv, DeliveryInv, Delivers
  <2> QED BY <2>1, <2>2
<1>3. ASSUME NEW r \in DOMAIN task', r \notin DOMAIN task, task'[r].status = "merged"
      PROVE  task'[r].kind # "replan"
  <2>1. \A w \in Workers : ItemRow(w, Head(todo[w])).kind = "work"
    BY DEF ItemRow, Row
  <2> QED BY <1>3, <2>1
          DEF PlanStep, Quiet, NewJob, Inserted, Restatused, Rekicked, Taken, Onward,
              Ended, Dropped, ItemAdded, Moved, KickedRow, Updated
<1>4. ASSUME NEW r \in DOMAIN task', task'[r].kind = "replan", task'[r].status = "merged"
      PROVE  Done(task'[r].of, task', Asked(task'[r].of, row', next'))
  <2>1. r \in DOMAIN task
    BY <1>3, <1>4
  <2>2. task[r].kind = "replan"
    BY <1>4, <2>1 DEF Older, SameOrigin
  <2> QED BY <1>1, <1>2, <1>4, <2>1, <2>2
<1> QED BY <1>4 DEF MergedInv

\* The passes that the step is not about, and the one it is.
LEMMA DeliveryOthers ==
  ASSUME PlansInv, DeliverInv, Older, RowsInv', NEW v \in Workers,
         \A n : Asked(n, row, next) => Asked(n, row', next'),
         pc'[v] = pc[v], job'[v] = job[v], todo'[v] = todo[v],
         pc[v] # "idle", task'[job[v]].kind = "replan"
  PROVE  Delivers(pc'[v], todo'[v], task'[job[v]].of, task', Asked(task'[job[v]].of, row', next'))
<1>0. RowsInv /\ PassesInv
  BY DEF PlansInv
<1>1. PICK p, j, t : p = pc[v] /\ j = job[v] /\ t = todo[v]
  OBVIOUS
<1>2. InPass(p, j, t, answer[v], task)
  BY <1>0, <1>1 DEF PassesInv
<1>3. j \in DOMAIN task /\ (p = "enqueue" => IsTodo(t)) /\ task[j].kind = "replan"
  BY <1>1, <1>2 DEF InPass, Older, SameOrigin
<1>4. PICK n \in DOMAIN task : n = task[j].of
  BY <1>0, <1>3 DEF RowsInv, HasOrigin
<1>5. Delivers(p, t, n, task, Asked(n, row, next))
  BY <1>1, <1>3, <1>4 DEF DeliverInv, DeliveryInv
<1>6. Delivers(p, t, n, task', Asked(n, row', next'))
  BY <1>0, <1>3, <1>5, DeliversLasts
<1>7. task'[j].of = n
  BY <1>3, <1>4 DEF Older, SameOrigin
<1> QED BY <1>1, <1>6, <1>7

LEMMA ItemDelivers ==
  ASSUME PlansInv, DeliverInv, Older, RowsInv', NEW w \in Workers, ItemAdded(w),
         task[job[w]].kind = "replan",
         NEW n \in DOMAIN task, n = task[job[w]].of
  PROVE  Delivers(pc'[w], todo'[w], n, task', Asked(n, row', next'))
<1> DEFINE r == ItemRow(w, Head(todo[w]))  new == Len(task) + 1  t == todo[w]
<1>0. RowsInv /\ PassesInv /\ pc[w] = "enqueue"
  BY DEF PlansInv, ItemAdded
<1>1. IsTodo(t)
  BY <1>0 DEF PassesInv, InPass
<1>2. task[n].depth < Cap /\ Cardinality(PartsOf(n, task)) + Len(t) >= 2
  BY <1>0 DEF DeliverInv, DeliveryInv, Delivers
<1>3. Len(t) \in Nat /\ (Len(t) # 1 => Len(Tail(t)) = Len(t) - 1)
  BY <1>1, TodoShrinks
<1>4. r.kind = "work" /\ r.of = n
  BY DEF ItemRow, Row
<1>5. Inserted(r)
  BY DEF ItemAdded
<1> HIDE DEF r
<1>6. PartsOf(n, task') = PartsOf(n, task) \cup {new} /\ new \notin PartsOf(n, task)
  BY <1>4, <1>5 DEF Inserted, PartsOf
<1>7. IsFiniteSet(PartsOf(n, task)) /\ Cardinality(PartsOf(n, task)) \in Nat
  BY <1>0, PartsAreCounted DEF RowsInv
<1>8. Cardinality(PartsOf(n, task')) = Cardinality(PartsOf(n, task)) + 1
  BY <1>6, <1>7, FS_AddElement
<1>9. /\ pc'[w] = IF Len(t) = 1 THEN "complete" ELSE "enqueue"
      /\ todo'[w] = Tail(t)
  BY DEF ItemAdded, Turned
<1>10. task'[n].depth = task[n].depth
  BY DEF Older, SameOrigin
<1>11. CASE Len(t) = 1
  BY <1>2, <1>7, <1>8, <1>9, <1>10, <1>11 DEF Delivers, Done
<1>12. CASE Len(t) # 1
  BY <1>2, <1>3, <1>7, <1>8, <1>9, <1>10, <1>12 DEF Delivers, Done
<1> QED BY <1>11, <1>12

LEMMA OnwardDelivers ==
  ASSUME PlansInv, DeliverInv, Older, RowsInv', NEW w \in Workers, NEW p, NEW t, Onward(w, p, t),
         task[job[w]].kind = "replan",
         NEW n \in DOMAIN task, n = task[job[w]].of
  PROVE  Delivers(pc'[w], todo'[w], n, task', Asked(n, row', next'))
<1>0. RowsInv /\ PassesInv
  BY DEF PlansInv
<1>1. pc'[w] = p /\ todo'[w] = t /\ UNCHANGED task
  BY DEF Onward, Turned
<1>2. PartsOf(n, task') = PartsOf(n, task) /\ Cardinality(PartsOf(n, task)) \in Nat
  BY <1>0, <1>1, PartsAreCounted DEF RowsInv
<1>3. p = "enqueue" => task[n].depth < Cap /\ Len(t) >= 2
  BY DEF Onward, Legal
<1>4. p = "complete" => Asked(n, row', next') /\ ~(task[n].depth < Cap)
  BY DEF Onward, Legal, DeliverInv, DeliveryInv, Delivers
<1>5. p = "request" => ~(task[n].depth < Cap)
  BY DEF Onward, Legal
<1> QED BY <1>1, <1>2, <1>3, <1>4, <1>5 DEF Delivers, Done

LEMMA DeliveryStep ==
  ASSUME PlansInv, DeliverInv, PlanStep, Older, RowsInv',
         \A n : Asked(n, row, next) => Asked(n, row', next')
  PROVE  DeliveryInv'
<1>0. RowsInv /\ PassesInv
  BY DEF PlansInv
<1> SUFFICES ASSUME NEW v \in Workers, pc'[v] # "idle", task'[job'[v]].kind = "replan"
             PROVE  Delivers(pc'[v], todo'[v], task'[job'[v]].of, task',
                             Asked(task'[job'[v]].of, row', next'))
  BY DEF DeliveryInv
<1>1. CASE pc'[v] = pc[v] /\ job'[v] = job[v] /\ todo'[v] = todo[v]
  BY <1>1, DeliveryOthers
<1>2. ASSUME pc[v] # "idle", job'[v] = job[v]
      PROVE  /\ task[job[v]].kind = "replan" /\ task'[job'[v]].of = task[job[v]].of
             /\ task[job[v]].of \in DOMAIN task
  <2>1. job[v] \in DOMAIN task
    BY <1>0, <1>2 DEF PassesInv, InPass
  <2>2. SameOrigin(task'[job[v]], task[job[v]]) /\ HasOrigin(task[job[v]], DOMAIN task)
    BY <1>0, <2>1 DEF Older, RowsInv
  <2> QED BY <1>2, <2>2 DEF SameOrigin, HasOrigin
<1>3. ASSUME NEW n \in DOMAIN task, Taken(v, n)
      PROVE  pc'[v] \in {"plan", "replan"}
  BY <1>3 DEF Taken, Turned, FirstStep, Jobs
<1>4. CASE pc'[v] \in {"plan", "replan"}
  BY <1>4 DEF Delivers
<1>5. ASSUME NEW p, NEW t, Onward(v, p, t)
      PROVE  Delivers(pc'[v], todo'[v], task'[job'[v]].of, task',
                      Asked(task'[job'[v]].of, row', next'))
  <2>1. pc[v] # "idle" /\ job'[v] = job[v]
    BY <1>5 DEF Onward, Turned, Early
  <2>2. PICK n \in DOMAIN task : n = task[job[v]].of
    BY <1>2, <2>1
  <2>3. Delivers(pc'[v], todo'[v], n, task', Asked(n, row', next'))
    BY <1>2, <1>5, <2>1, <2>2, OnwardDelivers
  <2> QED BY <1>2, <2>1, <2>2, <2>3
<1>6. ASSUME ItemAdded(v)
      PROVE  Delivers(pc'[v], todo'[v], task'[job'[v]].of, task',
                      Asked(task'[job'[v]].of, row', next'))
  <2>1. pc[v] # "idle" /\ job'[v] = job[v]
    BY <1>6 DEF ItemAdded, Turned
  <2>2. PICK n \in DOMAIN task : n = task[job[v]].of
    BY <1>2, <2>1
  <2>3. Delivers(pc'[v], todo'[v], n, task', Asked(n, row', next'))
    BY <1>2, <1>6, <2>1, <2>2, ItemDelivers
  <2> QED BY <1>2, <2>1, <2>2, <2>3
<1>7. \/ pc'[v] = pc[v] /\ job'[v] = job[v] /\ todo'[v] = todo[v]
      \/ pc'[v] = "idle"
      \/ \E n \in DOMAIN task : Taken(v, n)
      \/ \E p, t : Onward(v, p, t)
      \/ ItemAdded(v)
  <2>1. CASE Still
    BY <2>1 DEF Still
  <2>2. ASSUME NEW w \in Workers,
               \/ \E n \in DOMAIN task : Taken(w, n)
               \/ \E p, t : Onward(w, p, t)
               \/ \E s : Ended(w, s)
               \/ Dropped(w) \/ ItemAdded(w)
        PROVE  \/ pc'[v] = pc[v] /\ job'[v] = job[v] /\ todo'[v] = todo[v]
               \/ pc'[v] = "idle"
               \/ \E n \in DOMAIN task : Taken(v, n)
               \/ \E p, t : Onward(v, p, t)
               \/ ItemAdded(v)
    <3>1. CASE w = v
      <4>1. Dropped(v) \/ (\E s : Ended(v, s)) => pc'[v] = "idle"
        BY DEF Dropped, Ended, Turned
      <4> QED BY <2>2, <3>1, <4>1
    <3>2. CASE w # v
      BY <2>2, <3>2 DEF Taken, Onward, Ended, Dropped, ItemAdded, Turned
    <3> QED BY <3>1, <3>2
  <2> QED BY <2>1, <2>2 DEF PlanStep, Quiet, NewJob, Restatused, Rekicked
<1> QED BY <1>1, <1>3, <1>4, <1>5, <1>6, <1>7

LEMMA DeliverStep ==
  ASSUME PlansAreOrdered, PlansInv, DeliverInv, [Next]_vars
  PROVE  PlansInv' /\ DeliverInv'
<1>1. PlanStep /\ Older /\ PlansInv'
  BY PlansStep
<1>2. RowsInv'
  BY <1>1 DEF PlansInv
<1>3. \A n : Asked(n, row, next) => Asked(n, row', next')
  BY StoreStep DEF PlansInv
<1> QED BY <1>1, <1>2, <1>3, PartsStep, MergedStep, DeliveryStep DEF DeliverInv

LEMMA DeliverInit ==
  ASSUME Init
  PROVE  PlansInv /\ DeliverInv
<1>1. PlansInv /\ DOMAIN task = {}
  BY InitPlans
<1>2. \A w \in Workers : pc[w] = "idle"
  BY DEF Init
<1> QED BY <1>1, <1>2 DEF DeliverInv, PartsInv, MergedInv, DeliveryInv

\* However often the pass of a replan fails, is re-kicked or overtaken by another one: when the
\* replan is finished its task has at least two parts one level deeper, or, at the cap on
\* the depth, none, and the human has been asked (run_pm_replan, _smaller_subtasks).
THEOREM FinishedReplanLeadsOn ==
  ASSUME PlansAreOrdered
  PROVE  Spec => []ReplanDelivers
<1>1. Init => PlansInv /\ DeliverInv
  BY DeliverInit
<1>2. PlansInv /\ DeliverInv /\ [Next]_vars => (PlansInv /\ DeliverInv)'
  BY DeliverStep
<1>3. PlansInv /\ DeliverInv => ReplanDelivers
  <2> SUFFICES ASSUME PlansInv, DeliverInv, NEW r \in RowsOf("replan"), task[r].status = "merged"
               PROVE  LET n == task[r].of IN
                      IF task[n].depth < Cap
                      THEN /\ Cardinality(Parts(n)) >= 2
                           /\ \A m \in Parts(n) : task[m].depth = task[n].depth + 1
                      ELSE /\ Parts(n) = {}
                           /\ Approve!RowsOf(<<"pm.replan", n>>, Approve!RowStatuses) # {}
    BY DEF ReplanDelivers
  <2>1. r \in DOMAIN task /\ task[r].kind = "replan"
    BY DEF RowsOf
  <2>2. PICK n \in DOMAIN task : n = task[r].of
    BY <2>1 DEF PlansInv, RowsInv, HasOrigin
  <2>3. Done(n, task, Asked(n, row, next))
    BY <2>1, <2>2 DEF DeliverInv, MergedInv
  <2>4. Parts(n) = PartsOf(n, task)
    BY DEF Parts, PartsOf, RowsOf
  <2>5. \A m \in Parts(n) : task[n].depth < Cap /\ task[m].depth = task[n].depth + 1
    BY DEF DeliverInv, PartsInv
  <2>6. Asked(n, row, next) => Approve!RowsOf(<<"pm.replan", n>>, Approve!RowStatuses) # {}
    BY DEF Asked, Approve!RowsOf, Approve!Ids
  <2> QED BY <2>2, <2>3, <2>4, <2>5, <2>6 DEF Done
<1> QED BY <1>1, <1>2, <1>3, PTL DEF Spec

-----------------------------------------------------------------------------
(* A plan is carried out once                                              *)

\* The rows that job j enqueued as its item i.
CopiesOf(j, i, rows) ==
  {n \in DOMAIN rows : rows[n].kind = "work" /\ rows[n].by = j /\ rows[n].item = i}
AtMost(j, i, rows, k) == Cardinality(CopiesOf(j, i, rows)) <= k

Waiting == {"queued", "blocked"}
\* A job that waits for a pass has been paid for by its re-kicks; any other may have had
\* one pass more.
CopiesInv ==
  \A n \in DOMAIN task : \A i \in 1..3 :
    /\ AtMost(n, i, task, 1 + task[n].kicks)
    /\ task[n].status \in Waiting => AtMost(n, i, task, task[n].kicks)
\* A pass is the only one of its job, which nobody else can take, and the items it has
\* still to enqueue are those it has not.
Holds(p, j, t, rows) ==
  /\ rows[j].status \notin Waiting
  /\ \A i \in 1..3 : p \in Early \/ (p = "enqueue" /\ i \in Range(t)) =>
       AtMost(j, i, rows, rows[j].kicks)
HoldInv ==
  \A w \in Workers : pc[w] # "idle" => Holds(pc[w], job[w], todo[w], task)
AloneInv ==
  \A w, v \in Workers : w # v /\ pc[w] # "idle" /\ pc[v] # "idle" => job[w] # job[v]
OnceInv == CopiesInv /\ HoldInv /\ AloneInv

LEMMA CopiesAreCounted ==
  ASSUME RowsInv, NEW j, NEW i
  PROVE  IsFiniteSet(CopiesOf(j, i, task)) /\ Cardinality(CopiesOf(j, i, task)) \in Nat
<1>1. CopiesOf(j, i, task) \subseteq 1..Len(task) /\ Len(task) \in Nat
  BY TableIsIndexed DEF CopiesOf
<1>2. IsFiniteSet(CopiesOf(j, i, task))
  <2>1. IsFiniteSet(1..Len(task))
    BY <1>1, FS_Interval
  <2> QED BY <1>1, <2>1, FS_Subset
<1> QED BY <1>2, FS_CardinalityType

\* Updates and new jobs are no copies.
SameCopies == \A j, i : CopiesOf(j, i, task') = CopiesOf(j, i, task)
LEMMA UpdatesAreNoCopies ==
  ASSUME NEW n, Updated(n)
  PROVE  SameCopies
<1>1. ASSUME NEW m \in DOMAIN task
      PROVE  task'[m].kind = task[m].kind /\ task'[m].by = task[m].by /\ task'[m].item = task[m].item
  BY DEF Updated, SameOrigin
<1> QED BY <1>1 DEF SameCopies, CopiesOf, Updated
LEMMA JobsAreNoCopies ==
  ASSUME NEW r, Inserted(r), r.kind \in Jobs
  PROVE  SameCopies
BY DEF SameCopies, CopiesOf, Inserted, Jobs

\* A pass whose job the step leaves alone.
LEMMA HoldLasts ==
  ASSUME NEW p, NEW j, NEW t, Holds(p, j, t, task), task'[j] = task[j],
         \A i : CopiesOf(j, i, task') = CopiesOf(j, i, task)
  PROVE  Holds(p, j, t, task')
BY DEF Holds, AtMost

LEMMA NewJobOnce ==
  ASSUME PlansInv, OnceInv, NewJob
  PROVE  OnceInv'
<1>0. RowsInv /\ PassesInv /\ UNCHANGED <<pc, job, todo>>
  BY DEF PlansInv, NewJob, Still
<1>1. PICK r : Inserted(r) /\ r.kind \in Jobs /\ r.status = "queued" /\ r.kicks = 0
  BY DEF NewJob
<1>2. SameCopies
  BY <1>1, JobsAreNoCopies
<1>3. ASSUME NEW n \in DOMAIN task', NEW i \in 1..3
      PROVE  /\ AtMost(n, i, task', 1 + task'[n].kicks)
             /\ task'[n].status \in Waiting => AtMost(n, i, task', task'[n].kicks)
  <2>1. CASE n \in DOMAIN task
    <3>1. task'[n] = task[n]
      BY <1>1, <2>1 DEF Inserted
    <3> QED BY <1>2, <2>1, <3>1 DEF OnceInv, CopiesInv, AtMost, SameCopies
  <2>2. CASE n \notin DOMAIN task
    <3>1. task'[n].kicks = 0
      BY <1>1, <2>2 DEF Inserted
    <3>2. CopiesOf(n, i, task) = {}
      BY <1>0, <2>2 DEF CopiesOf, RowsInv, HasOrigin
    <3> QED BY <1>2, <3>1, <3>2, FS_EmptySet DEF AtMost, SameCopies
  <2> QED BY <2>1, <2>2
<1>4. ASSUME NEW w \in Workers, pc[w] # "idle"
      PROVE  Holds(pc[w], job[w], todo[w], task')
  <2>1. job[w] \in DOMAIN task /\ Holds(pc[w], job[w], todo[w], task)
    BY <1>0, <1>4 DEF PassesInv, InPass, OnceInv, HoldInv
  <2>2. task'[job[w]] = task[job[w]]
    BY <1>1, <2>1 DEF Inserted
  <2> QED BY <1>2, <2>1, <2>2, HoldLasts DEF SameCopies
<1> QED BY <1>0, <1>3, <1>4 DEF OnceInv, CopiesInv, HoldInv, AloneInv

\* What an update of n has to keep.
LEMMA UpdateOnce ==
  ASSUME PlansInv, OnceInv, NEW n, Updated(n),
         \A i \in 1..3 : AtMost(n, i, task, 1 + task'[n].kicks),
         task'[n].status \in Waiting => \A i \in 1..3 : AtMost(n, i, task, task'[n].kicks)
  PROVE  /\ SameCopies /\ CopiesInv'
         /\ \A w \in Workers : pc[w] # "idle" /\ job[w] # n => Holds(pc[w], job[w], todo[w], task')
<1>1. SameCopies
  BY UpdatesAreNoCopies
<1>2. \A m \in DOMAIN task : m # n => task'[m] = task[m]
  BY DEF Updated
<1>3. ASSUME NEW m \in DOMAIN task', NEW i \in 1..3
      PROVE  /\ AtMost(m, i, task', 1 + task'[m].kicks)
             /\ task'[m].status \in Waiting => AtMost(m, i, task', task'[m].kicks)
  <2>1. CASE m = n
    BY <1>1, <2>1 DEF AtMost, SameCopies
  <2>2. CASE m # n
    <3>1. task'[m] = task[m] /\ m \in DOMAIN task
      BY <1>2, <2>2 DEF Updated
    <3> QED BY <1>1, <3>1 DEF OnceInv, CopiesInv, AtMost, SameCopies
  <2> QED BY <2>1, <2>2
<1>4. ASSUME NEW w \in Workers, pc[w] # "idle", job[w] # n
      PROVE  Holds(pc[w], job[w], todo[w], task')
  <2>1. job[w] \in DOMAIN task /\ Holds(pc[w], job[w], todo[w], task)
    BY <1>4 DEF PlansInv, PassesInv, InPass, OnceInv, HoldInv
  <2> QED BY <1>1, <1>2, <1>4, <2>1, HoldLasts DEF SameCopies
<1> QED BY <1>1, <1>3, <1>4 DEF CopiesInv

LEMMA RestatusOnce ==
  ASSUME PlansInv, OnceInv, NEW n \in DOMAIN task, Restatused(n)
  PROVE  OnceInv'
<1>1. PICK s : Moved(n, s) /\ (s \in Waiting => task[n].status = "blocked")
  BY DEF Restatused, Waiting
<1>2. Updated(n) /\ task'[n].status = s /\ task'[n].kicks = task[n].kicks
      /\ UNCHANGED <<pc, job, todo>>
  BY <1>1 DEF Moved, Restatused, Still
<1>3. /\ \A i \in 1..3 : AtMost(n, i, task, 1 + task[n].kicks)
      /\ s \in Waiting => \A i \in 1..3 : AtMost(n, i, task, task[n].kicks)
  BY <1>1 DEF OnceInv, CopiesInv, Waiting
<1>4. /\ SameCopies /\ CopiesInv'
      /\ \A w \in Workers : pc[w] # "idle" /\ job[w] # n => Holds(pc[w], job[w], todo[w], task')
  BY <1>2, <1>3, UpdateOnce
<1>5. ASSUME NEW w \in Workers, pc[w] # "idle", job[w] = n
      PROVE  Holds(pc[w], job[w], todo[w], task')
  <2>1. Holds(pc[w], n, todo[w], task)
    BY <1>5 DEF OnceInv, HoldInv
  <2> QED BY <1>1, <1>2, <1>4, <1>5, <2>1 DEF Holds, AtMost, SameCopies, Waiting
<1> QED BY <1>2, <1>4, <1>5 DEF OnceInv, HoldInv, AloneInv

LEMMA RekickOnce ==
  ASSUME AccurateDetector, PlansInv, OnceInv, NEW n \in DOMAIN task, Rekicked(n)
  PROVE  OnceInv'
<1>1. Updated(n) /\ task'[n].kicks = task[n].kicks + 1 /\ UNCHANGED <<pc, job, todo>>
      /\ \A w \in Workers : job[w] # n
  BY DEF Rekicked, KickedRow, Still, Unattended
<1>2. task[n].kicks \in Nat
  BY DEF PlansInv, RowsInv, IsRow
<1>3. \A i \in 1..3 : Cardinality(CopiesOf(n, i, task)) \in Nat
  BY CopiesAreCounted DEF PlansInv
<1>4. /\ \A i \in 1..3 : AtMost(n, i, task, 1 + task'[n].kicks)
      /\ \A i \in 1..3 : AtMost(n, i, task, task'[n].kicks)
  BY <1>1, <1>2, <1>3 DEF OnceInv, CopiesInv, AtMost
<1>5. /\ CopiesInv'
      /\ \A w \in Workers : pc[w] # "idle" /\ job[w] # n => Holds(pc[w], job[w], todo[w], task')
  BY <1>1, <1>4, UpdateOnce
<1> QED BY <1>1, <1>5 DEF OnceInv, HoldInv, AloneInv

\* What a step of the pass of w has to keep.
LEMMA TurnOnce ==
  ASSUME NEW w \in Workers, NEW p, NEW j, NEW t, NEW a, Turned(w, p, j, t, a), AloneInv,
         p # "idle" => Holds(p, j, t, task'),
         \A v \in Workers : v # w /\ pc[v] # "idle" =>
           /\ Holds(pc[v], job[v], todo[v], task')
           /\ p # "idle" => job[v] # j
  PROVE  HoldInv' /\ AloneInv'
<1>1. HoldInv'
  <2> SUFFICES ASSUME NEW v \in Workers, pc'[v] # "idle"
               PROVE  Holds(pc'[v], job'[v], todo'[v], task')
    BY DEF HoldInv
  <2>1. CASE v = w
    BY <2>1 DEF Turned
  <2>2. CASE v # w
    BY <2>2 DEF Turned
  <2> QED BY <2>1, <2>2
<1>2. AloneInv'
  <2> SUFFICES ASSUME NEW u \in Workers, NEW v \in Workers, u # v, pc'[u] # "idle", pc'[v] # "idle"
               PROVE  job'[u] # job'[v]
    BY DEF AloneInv
  <2>1. CASE u = w
    BY <2>1 DEF Turned
  <2>2. CASE v = w
    BY <2>2 DEF Turned
  <2>3. CASE u # w /\ v # w
    BY <2>3 DEF Turned, AloneInv
  <2> QED BY <2>1, <2>2, <2>3
<1> QED BY <1>1, <1>2

LEMMA TakenOnce ==
  ASSUME PlansInv, OnceInv, NEW w \in Workers, NEW n \in DOMAIN task, Taken(w, n)
  PROVE  OnceInv'
<1>1. /\ Updated(n) /\ task'[n].status = "running" /\ task'[n].kicks = task[n].kicks
      /\ task[n].status \in Waiting
  BY DEF Taken, Moved, Waiting
<1>2. \A i \in 1..3 : AtMost(n, i, task, task[n].kicks) /\ AtMost(n, i, task, 1 + task[n].kicks)
  BY <1>1 DEF OnceInv, CopiesInv
<1>3. /\ SameCopies /\ CopiesInv'
      /\ \A v \in Workers : pc[v] # "idle" /\ job[v] # n => Holds(pc[v], job[v], todo[v], task')
  BY <1>1, <1>2, UpdateOnce DEF Waiting
<1>4. \A v \in Workers : pc[v] # "idle" => job[v] # n
  BY <1>1 DEF OnceInv, HoldInv, Holds
<1>5. ASSUME NEW p, NEW t PROVE Holds(p, n, t, task')
  BY <1>1, <1>2, <1>3 DEF Holds, AtMost, SameCopies, Waiting
<1>6. PICK p : Turned(w, p, n, todo[w], answer[w])
  BY DEF Taken
<1>7. HoldInv' /\ AloneInv'
  BY <1>3, <1>4, <1>5, <1>6, TurnOnce DEF OnceInv
<1> QED BY <1>3, <1>7 DEF OnceInv

\* The table is left as it is.
LEMMA SameTableOnce ==
  ASSUME OnceInv, UNCHANGED task
  PROVE  /\ CopiesInv'
         /\ \A v \in Workers : pc[v] # "idle" => Holds(pc[v], job[v], todo[v], task')
BY DEF OnceInv, CopiesInv, HoldInv

LEMMA OnwardOnce ==
  ASSUME OnceInv, NEW w \in Workers, NEW p, NEW t, Onward(w, p, t)
  PROVE  OnceInv'
<1>1. pc[w] \in Early /\ pc[w] # "idle" /\ UNCHANGED task
  BY DEF Onward, Early
<1>2. CopiesInv' /\ \A v \in Workers : pc[v] # "idle" => Holds(pc[v], job[v], todo[v], task')
  BY <1>1, SameTableOnce
<1>3. Holds(p, job[w], t, task')
  BY <1>1, <1>2 DEF Holds
<1>4. PICK a : Turned(w, p, job[w], t, a)
  BY DEF Onward
<1>5. \A v \in Workers : v # w /\ pc[v] # "idle" => job[v] # job[w]
  BY <1>1 DEF OnceInv, AloneInv
<1>6. HoldInv' /\ AloneInv'
  BY <1>2, <1>3, <1>4, <1>5, TurnOnce DEF OnceInv
<1> QED BY <1>2, <1>6 DEF OnceInv

LEMMA DroppedOnce ==
  ASSUME OnceInv, NEW w \in Workers, Dropped(w)
  PROVE  OnceInv'
<1>1. CopiesInv' /\ \A v \in Workers : pc[v] # "idle" => Holds(pc[v], job[v], todo[v], task')
  BY SameTableOnce DEF Dropped
<1>2. HoldInv' /\ AloneInv'
  BY <1>1, TurnOnce DEF OnceInv, Dropped
<1> QED BY <1>1, <1>2 DEF OnceInv

LEMMA EndedOnce ==
  ASSUME PlansInv, OnceInv, NEW w \in Workers, NEW s, Ended(w, s)
  PROVE  OnceInv'
<1> DEFINE n == job[w]
<1>1. /\ Updated(n) /\ task'[n].status = s /\ task'[n].kicks = task[n].kicks
      /\ pc[w] # "idle" /\ n \in DOMAIN task
  BY DEF Ended, Moved, Updated
<1>2. \A i \in 1..3 : AtMost(n, i, task, 1 + task[n].kicks)
  BY <1>1 DEF OnceInv, CopiesInv
<1>3. s \in Waiting => \A i \in 1..3 : AtMost(n, i, task, task[n].kicks)
  <2>1. Holds(pc[w], n, todo[w], task)
    BY <1>1 DEF OnceInv, HoldInv
  <2>2. s \in Waiting => pc[w] \in Early
    BY DEF Ended, Waiting, Early
  <2> QED BY <2>1, <2>2 DEF Holds
<1>4. \A v \in Workers : v # w /\ pc[v] # "idle" => job[v] # n
  BY <1>1 DEF OnceInv, AloneInv
<1> HIDE DEF n
<1>5. /\ CopiesInv'
      /\ \A v \in Workers : pc[v] # "idle" /\ job[v] # n => Holds(pc[v], job[v], todo[v], task')
  BY <1>1, <1>2, <1>3, UpdateOnce
<1>6. HoldInv' /\ AloneInv'
  BY <1>4, <1>5, TurnOnce DEF OnceInv, Ended
<1> QED BY <1>5, <1>6 DEF OnceInv

\* An item is enqueued: the copies of that item of that job are one more.
LEMMA ItemOnce ==
  ASSUME PlansInv, OnceInv, NEW w \in Workers, ItemAdded(w)
  PROVE  OnceInv'
<1> DEFINE j == job[w]  h == Head(todo[w])  new == Len(task) + 1  t == todo[w]
           p == IF Len(t) = 1 THEN "complete" ELSE "enqueue"
<1>0. RowsInv /\ PassesInv /\ pc[w] = "enqueue" /\ pc[w] # "idle"
  BY DEF PlansInv, ItemAdded
<1>1. InPass(pc[w], j, t, answer[w], task)
  BY <1>0 DEF PassesInv
<1>2. IsTodo(t) /\ j \in DOMAIN task
  BY <1>0, <1>1 DEF InPass
<1>3. Turned(w, p, j, Tail(t), answer[w])
  BY DEF ItemAdded
<1>4. PICK r : Inserted(r) /\ r.kind = "work" /\ r.by = j /\ r.item = h /\ r.status = "queued"
               /\ r.kicks = 0
  BY DEF ItemAdded, ItemRow, Row
<1>5. \A n \in DOMAIN task : task'[n] = task[n]
  BY <1>4 DEF Inserted
<1>6. DOMAIN task' = DOMAIN task \cup {new} /\ new \notin DOMAIN task /\ task'[new] = r
  BY <1>4 DEF Inserted
<1>7. Holds("enqueue", j, t, task)
  BY <1>0 DEF OnceInv, HoldInv
<1>8. /\ h \in 1..3 /\ h \in Range(t)
      /\ \A i \in 1..3 : (Len(t) # 1 /\ i \in Range(Tail(t))) => i \in Range(t) /\ i # h
  BY <1>2, TodoShrinks
<1>9. AtMost(j, h, task, task[j].kicks)
  BY <1>7, <1>8 DEF Holds
<1>10. task[j].kicks \in Nat /\ task[j].status \notin Waiting
  BY <1>0, <1>2, <1>7 DEF RowsInv, IsRow, Holds
<1> HIDE DEF j, h, new, t, p
<1>11. CopiesOf(j, h, task') = CopiesOf(j, h, task) \cup {new} /\ new \notin CopiesOf(j, h, task)
  BY <1>4, <1>5, <1>6 DEF CopiesOf
<1>12. \A i, m : ~(i = h /\ m = j) => CopiesOf(m, i, task') = CopiesOf(m, i, task)
  BY <1>4, <1>5, <1>6 DEF CopiesOf
<1>13. AtMost(j, h, task', 1 + task[j].kicks)
  <2>1. IsFiniteSet(CopiesOf(j, h, task)) /\ Cardinality(CopiesOf(j, h, task)) \in Nat
    BY <1>0, CopiesAreCounted
  <2>2. Cardinality(CopiesOf(j, h, task')) = Cardinality(CopiesOf(j, h, task)) + 1
    BY <1>11, <2>1, FS_AddElement
  <2> QED BY <1>9, <1>10, <2>1, <2>2 DEF AtMost
<1>14. CopiesInv'
  <2> SUFFICES ASSUME NEW n \in DOMAIN task', NEW i \in 1..3
               PROVE  /\ AtMost(n, i, task', 1 + task'[n].kicks)
                      /\ task'[n].status \in Waiting => AtMost(n, i, task', task'[n].kicks)
    BY DEF CopiesInv
  <2>1. CASE n = new
    <3>1. CopiesOf(n, i, task) = {} /\ n # j
      BY <1>0, <1>2, <1>6, <2>1 DEF CopiesOf, RowsInv, HasOrigin
    <3>2. CopiesOf(n, i, task') = {} /\ task'[n].kicks = 0
      BY <1>4, <1>6, <1>12, <2>1, <3>1
    <3> QED BY <3>2, FS_EmptySet DEF AtMost
  <2>2. CASE n # new /\ ~(n = j /\ i = h)
    <3>1. n \in DOMAIN task /\ task'[n] = task[n] /\ CopiesOf(n, i, task') = CopiesOf(n, i, task)
      BY <1>5, <1>6, <1>12, <2>2
    <3> QED BY <3>1 DEF OnceInv, CopiesInv, AtMost
  <2>3. CASE n = j /\ i = h
    BY <1>2, <1>5, <1>10, <1>13, <2>3
  <2> QED BY <2>1, <2>2, <2>3
<1>15. Holds(p, j, Tail(t), task')
  <2>1. task'[j] = task[j]
    BY <1>2, <1>5
  <2>2. ASSUME NEW i \in 1..3, p \in Early \/ (p = "enqueue" /\ i \in Range(Tail(t)))
        PROVE  AtMost(j, i, task', task[j].kicks)
    <3>1. i \in Range(t) /\ i # h
      BY <1>8, <2>2 DEF p, Early
    <3>2. AtMost(j, i, task, task[j].kicks)
      BY <1>7, <3>1 DEF Holds
    <3> QED BY <1>12, <3>1, <3>2 DEF AtMost
  <2> QED BY <1>10, <2>1, <2>2 DEF Holds
<1>16. ASSUME NEW v \in Workers, v # w, pc[v] # "idle"
       PROVE  Holds(pc[v], job[v], todo[v], task') /\ job[v] # j
  <2>1. job[v] # j
    BY <1>0, <1>16 DEF OnceInv, AloneInv, j
  <2>2. job[v] \in DOMAIN task /\ Holds(pc[v], job[v], todo[v], task)
    BY <1>0, <1>16 DEF PassesInv, InPass, OnceInv, HoldInv
  <2>3. task'[job[v]] = task[job[v]]
    BY <1>5, <2>2
  <2>4. \A i : CopiesOf(job[v], i, task') = CopiesOf(job[v], i, task)
    BY <1>12, <2>1
  <2> QED BY <2>1, <2>2, <2>3, <2>4, HoldLasts
<1>17. HoldInv' /\ AloneInv'
  BY <1>3, <1>15, <1>16, TurnOnce DEF OnceInv
<1> QED BY <1>14, <1>17 DEF OnceInv

LEMMA OnceStep ==
  ASSUME AccurateDetector, PlansInv, OnceInv, PlanStep
  PROVE  OnceInv'
<1>1. CASE Quiet
  BY <1>1 DEF Quiet, Still, OnceInv, CopiesInv, HoldInv, AloneInv
<1>2. CASE NewJob
  BY <1>2, NewJobOnce
<1>3. CASE \E n \in DOMAIN task : Restatused(n) \/ Rekicked(n)
  BY <1>3, RestatusOnce, RekickOnce
<1>4. ASSUME NEW w \in Workers, \E n \in DOMAIN task : Taken(w, n) PROVE OnceInv'
  BY <1>4, TakenOnce
<1>5. ASSUME NEW w \in Workers, \E p, t : Onward(w, p, t) PROVE OnceInv'
  BY <1>5, OnwardOnce
<1>6. ASSUME NEW w \in Workers, \E s : Ended(w, s) PROVE OnceInv'
  BY <1>6, EndedOnce
<1>7. ASSUME NEW w \in Workers, Dropped(w) \/ ItemAdded(w) PROVE OnceInv'
  BY <1>7, DroppedOnce, ItemOnce
<1> QED BY <1>1, <1>2, <1>3, <1>4, <1>5, <1>6, <1>7 DEF PlanStep

LEMMA OnceInit ==
  ASSUME Init
  PROVE  OnceInv
<1>1. DOMAIN task = {} /\ \A w \in Workers : pc[w] = "idle"
  BY DEF Init
<1> QED BY <1>1 DEF OnceInv, CopiesInv, HoldInv, AloneInv

\* Whoever takes a job, and wherever its passes die, raise or park: if a job is re-kicked only
\* once nobody works on it, then of each item of its plan there is at most one row, and one more
\* for every re-kick of the job (run_pm_tick, run_pm_replan and rekick_task).
THEOREM PlanIsCarriedOutOnce ==
  ASSUME AccurateDetector, PlansAreOrdered
  PROVE  Spec => []DecomposedOnce
<1>1. Init => PlansInv /\ OnceInv
  BY InitPlans, OnceInit
<1>2. PlansInv /\ OnceInv /\ [Next]_vars => (PlansInv /\ OnceInv)'
  BY PlansStep, OnceStep
<1>3. PlansInv /\ OnceInv => DecomposedOnce
  <2> SUFFICES ASSUME PlansInv, OnceInv, NEW j \in DOMAIN task, NEW i \in 1..3
               PROVE  Copies(j, i) <= 1 + task[j].kicks
    BY DEF DecomposedOnce
  <2>1. AtMost(j, i, task, 1 + task[j].kicks)
    BY DEF OnceInv, CopiesInv
  <2>2. {n \in RowsOf("work") : task[n].by = j /\ task[n].item = i} = CopiesOf(j, i, task)
    BY DEF RowsOf, CopiesOf
  <2> QED BY <2>1, <2>2 DEF Copies, AtMost
<1> QED BY <1>1, <1>2, <1>3, PTL DEF Spec

-----------------------------------------------------------------------------
(* An item waits for its own batch                                         *)

\* d is an item that job j has enqueued.
IsItem(d, j, rows) == d \in DOMAIN rows /\ rows[d].kind = "work" /\ rows[d].by = j
DepsInv ==
  \A n \in DOMAIN task : task[n].kind = "work" =>
    \A d \in task[n].deps : d < n /\ IsItem(d, task[n].by, task)

\* Of the items t that job j has still to enqueue each comes after its prerequisites, or these
\* are in the table already and m has their ids.
Prepared(t, e, m, j, rows) ==
  \A k \in DOMAIN t : \A d \in e[t[k]] :
    d \in 1..3 /\ ((\E l \in DOMAIN t : l < k /\ t[l] = d) \/ IsItem(m[d], j, rows))
BatchInv ==
  /\ Indexed(made) /\ \A w \in Workers : made[w] = [i \in 1..3 |-> made[w][i]]
  /\ \A w \in Workers : pc[w] = "enqueue" =>
       Prepared(todo[w], answer[w].edges, made[w], job[w], task)

LEMMA ItemsRemain ==
  ASSUME Older, NEW d, NEW j, IsItem(d, j, task)
  PROVE  IsItem(d, j, task')
BY DEF Older, SameOrigin, IsItem

LEMMA PreparedLasts ==
  ASSUME Older, NEW t, NEW e, NEW m, NEW j, Prepared(t, e, m, j, task)
  PROVE  Prepared(t, e, m, j, task')
BY ItemsRemain DEF Prepared

LEMMA OrderPrepares ==
  ASSUME PlansAreOrdered, NEW e \in Edges, Acyclic(e), NEW m, NEW j, NEW rows
  PROVE  Prepared(TopoOrder(e), e, m, j, rows)
<1> DEFINE t == TopoOrder(e)
<1>1. /\ t \in Seq(DOMAIN e) /\ Range(t) = DOMAIN e
      /\ \A i, k \in DOMAIN t : t[i] \in e[t[k]] => i < k
  BY DEF PlansAreOrdered, Ordered
<1>2. PICK n \in 0..3 : e \in [1..n -> SUBSET (1..n)]
  BY DEF Edges
<1> HIDE DEF t
<1>3. ASSUME NEW k \in DOMAIN t, NEW d \in e[t[k]]
      PROVE  d \in 1..3 /\ \E l \in DOMAIN t : l < k /\ t[l] = d
  <2>1. t[k] \in DOMAIN e
    BY <1>1
  <2>2. d \in DOMAIN e /\ d \in 1..3
    BY <1>2, <1>3, <2>1
  <2>3. PICK l \in DOMAIN t : t[l] = d
    BY <1>1, <2>2 DEF Range
  <2>4. l < k
    BY <1>1, <1>3, <2>3
  <2> QED BY <2>2, <2>3, <2>4
<1> QED BY <1>3 DEF Prepared, t

\* The first item left waits for rows of its job alone; once it is enqueued, so may the others.
LEMMA FirstIsPrepared ==
  ASSUME NEW t, IsTodo(t), NEW e, NEW m, NEW j, NEW rows, Prepared(t, e, m, j, rows),
         NEW d \in e[Head(t)]
  PROVE  IsItem(m[d], j, rows)
<1>1. Head(t) = t[1] /\ DOMAIN t = 1..Len(t) /\ Len(t) \in Nat /\ 1 \in DOMAIN t
  BY TodoShrinks DEF IsTodo
<1>2. ~\E l \in DOMAIN t : l < 1 /\ t[l] = d
  BY <1>1
<1> QED BY <1>1, <1>2 DEF Prepared

LEMMA RestIsPrepared ==
  ASSUME NEW t, IsTodo(t), Len(t) # 1, NEW e, NEW m, m = [i \in 1..3 |-> m[i]], NEW j, NEW rows,
         NEW new, NEW others,
         Prepared(t, e, m, j, rows), IsItem(new, j, others),
         \A d : IsItem(d, j, rows) => IsItem(d, j, others)
  PROVE  Prepared(Tail(t), e, [m EXCEPT ![Head(t)] = new], j, others)
<1> DEFINE h == Head(t)  m1 == [m EXCEPT ![h] = new]
<1>1. t \in Seq(1..3) /\ Len(t) \in Nat /\ Len(t) >= 1 /\ DOMAIN t = 1..Len(t)
      /\ Head(t) = t[1] /\ h \in 1..3
  BY TodoShrinks DEF IsTodo
<1>2. /\ DOMAIN Tail(t) = 1..(Len(t) - 1)
      /\ \A k \in 1..(Len(t) - 1) : Tail(t)[k] = t[k + 1]
  BY <1>1
<1>3. m1[h] = new /\ \A d \in 1..3 : d # h => m1[d] = m[d]
  BY <1>1
<1> HIDE DEF m1, h
<1>4. ASSUME NEW k \in DOMAIN Tail(t), NEW d \in e[Tail(t)[k]]
      PROVE  d \in 1..3 /\ ((\E l \in DOMAIN Tail(t) : l < k /\ Tail(t)[l] = d)
                            \/ IsItem(m1[d], j, others))
  <2>1. k + 1 \in DOMAIN t /\ d \in e[t[k + 1]] /\ k \in Nat
    BY <1>1, <1>2, <1>4
  <2>2. d \in 1..3 /\ ((\E l \in DOMAIN t : l < k + 1 /\ t[l] = d) \/ IsItem(m[d], j, rows))
    BY <2>1 DEF Prepared
  <2>3. CASE d = h
    BY <1>3, <2>2, <2>3
  <2>4. CASE d # h /\ IsItem(m[d], j, rows)
    BY <1>3, <2>2, <2>4
  <2>5. CASE d # h /\ \E l \in DOMAIN t : l < k + 1 /\ t[l] = d
    <3>1. PICK l \in DOMAIN t : l < k + 1 /\ t[l] = d
      BY <2>5
    <3>2. l # 1
      BY <1>1, <2>5, <3>1 DEF h
    <3>3. l - 1 \in DOMAIN Tail(t) /\ l - 1 < k /\ Tail(t)[l - 1] = t[l]
      BY <1>1, <1>2, <2>1, <3>1, <3>2
    <3> QED BY <2>2, <3>1, <3>3
  <2> QED BY <2>2, <2>3, <2>4, <2>5
<1> QED BY <1>4 DEF Prepared, m1, h

\* Where a pass stands, its items and their ids included.
SamePlace(v) ==
  /\ pc'[v] = pc[v] /\ job'[v] = job[v] /\ todo'[v] = todo[v] /\ answer'[v] = answer[v]
  /\ made'[v] = made[v]
Begun(v) ==
  /\ todo'[v] = TopoOrder(answer'[v].edges)
  /\ answer'[v].edges \in Edges /\ Acyclic(answer'[v].edges)
MadeType == Indexed(made) /\ \A v \in Workers : made[v] = [i \in 1..3 |-> made[v][i]]

LEMMA LeaveBatch ==
  ASSUME PassesInv, MadeType, NEW w \in Workers, Leave(w)
  PROVE  /\ MadeType' /\ pc'[w] = "idle" /\ \A v \in Workers : v # w => SamePlace(v)
<1>1. Turned(w, "idle", 0, <<>>, NoAnswer)
  BY LeaveTurns
<1>2. /\ Indexed(made') /\ made'[w] = NoIds
      /\ \A v \in Workers : v # w => made'[v] = made[v]
  BY DEF Leave, MadeType, Indexed
<1>3. NoIds = [i \in 1..3 |-> NoIds[i]]
  BY DEF NoIds
<1> HIDE DEF NoIds
<1> QED BY <1>1, <1>2, <1>3 DEF Turned, SamePlace, MadeType

LEMMA GotoBatch ==
  ASSUME PassesInv, MadeType, NEW w \in Workers, NEW p, Goto(w, p), UNCHANGED <<job, todo, made>>,
         \A v \in Workers : v # w => answer'[v] = answer[v]
  PROVE  /\ MadeType' /\ pc'[w] = p /\ \A v \in Workers : v # w => SamePlace(v)
BY DEF Goto, PassesInv, Indexed, SamePlace, MadeType

LEMMA DecomposeBatch ==
  ASSUME PassesInv, MadeType, NEW w \in Workers, NEW a, Decompose(w, a), a.edges \in Edges
  PROVE  /\ MadeType' /\ (Begun(w) \/ pc'[w] # "enqueue")
         /\ \A v \in Workers : v # w => SamePlace(v)
<1>1. CASE ~Acyclic(a.edges)
  BY <1>1, LeaveBatch DEF Decompose
<1>2. CASE Acyclic(a.edges)
  <2> DEFINE t == TopoOrder(a.edges)
  <2>1. /\ Goto(w, "enqueue") /\ job' = job /\ made' = made
        /\ answer' = [answer EXCEPT ![w] = a] /\ todo' = [todo EXCEPT ![w] = t]
    BY <1>2 DEF Decompose
  <2> HIDE DEF t
  <2>2. answer'[w] = a /\ todo'[w] = t /\ \A v \in Workers : v # w => SamePlace(v)
    BY <2>1 DEF Goto, PassesInv, Indexed, SamePlace
  <2>3. MadeType'
    BY <2>1 DEF MadeType
  <2>4. Begun(w)
    BY <1>2, <2>2 DEF Begun, t
  <2> QED BY <2>2, <2>3, <2>4
<1> QED BY <1>1, <1>2

LEMMA ItemBatch ==
  ASSUME PassesInv, MadeType, NEW w \in Workers, EnqueueItem(w)
  PROVE  /\ MadeType' /\ \A v \in Workers : v # w => SamePlace(v)
         /\ made'[w] = [made[w] EXCEPT ![Head(todo[w])] = Len(task) + 1]
<1> DEFINE h == Head(todo[w])  new == Len(task) + 1  m1 == [made[w] EXCEPT ![h] = new]
<1>1. /\ made' = [made EXCEPT ![w] = m1]
      /\ todo' = [todo EXCEPT ![w] = Tail(todo[w])] /\ \E p : Goto(w, p)
      /\ UNCHANGED <<job, answer>>
  BY DEF EnqueueItem
<1>2. m1 = [i \in 1..3 |-> m1[i]]
  BY DEF MadeType
<1> HIDE DEF m1
<1>3. made'[w] = m1 /\ Indexed(made') /\ \A v \in Workers : v # w => made'[v] = made[v]
  BY <1>1 DEF MadeType, Indexed
<1>4. MadeType'
  BY <1>2, <1>3 DEF MadeType
<1>5. \A v \in Workers : v # w => SamePlace(v)
  BY <1>1, <1>3 DEF Goto, PassesInv, Indexed, SamePlace
<1> QED BY <1>3, <1>4, <1>5 DEF m1

\* A pass that is enqueuing begins to, goes on, or is not the one that moves.
LEMMA BatchMoves ==
  ASSUME PassesInv, MadeType, [Next]_vars
  PROVE  /\ MadeType'
         /\ \A v \in Workers : SamePlace(v) \/ Begun(v) \/ pc'[v] # "enqueue" \/ EnqueueItem(v)
<1>1. CASE UNCHANGED <<pc, job, todo, answer, made>>
  BY <1>1 DEF MadeType, SamePlace
<1>2. ASSUME NEW w \in Workers,
             WorkerStep(w) \/ PassFails(w) \/ \E n \in DOMAIN task : Take(w, n)
      PROVE  /\ MadeType'
             /\ \A v \in Workers : v # w => SamePlace(v)
             /\ Begun(w) \/ pc'[w] # "enqueue" \/ EnqueueItem(w)
  <2>1. CASE Leave(w)
    BY <2>1, LeaveBatch
  <2>2. ASSUME NEW p, Goto(w, p), p # "enqueue", UNCHANGED <<job, todo, made>>,
               \A v \in Workers : v # w => answer'[v] = answer[v]
        PROVE  /\ MadeType' /\ pc'[w] # "enqueue" /\ \A v \in Workers : v # w => SamePlace(v)
    BY <2>2, GotoBatch
  <2>3. CASE Replan(w)
    <3>1. CASE Goto(w, "request") /\ UNCHANGED <<job, answer, todo, made, ask>>
      BY <2>2, <3>1
    <3>2. ASSUME NEW a \in Answers, Decompose(w, Resized(a))
          PROVE  /\ MadeType' /\ (Begun(w) \/ pc'[w] # "enqueue")
                 /\ \A v \in Workers : v # w => SamePlace(v)
      <4>1. Resized(a).edges \in Edges
        BY PlanningAssumption, SmallerIsAPlan DEF PlanningAssumption, Resized
      <4> QED BY <3>2, <4>1, DecomposeBatch
    <3> QED BY <2>3, <3>1, <3>2 DEF Replan
  <2>4. CASE Plan(w)
    BY <2>2, <2>4 DEF Plan, PassesInv, Indexed
  <2>5. CASE Gate(w)
    <3>1. Decision(answer[w]) # "enqueue"
      BY DEF Decision
    <3> QED BY <2>1, <2>2, <2>5, <3>1 DEF Gate
  <2>6. CASE Consult(w)
    <3>1. CASE Goto(w, "request") /\ UNCHANGED <<job, answer, todo, made, ask>>
      BY <2>2, <3>1
    <3>2. CASE Decompose(w, answer[w])
      <4>1. answer[w].edges \in Edges
        BY <2>6 DEF Consult, PassesInv, InPass
      <4> QED BY <3>2, <4>1, DecomposeBatch
    <3> QED BY <2>6, <3>1, <3>2 DEF Consult
  <2>7. CASE Request(w)
    <3>1. PICK p \in {"park", "complete"} : Goto(w, p)
      BY <2>7 DEF Request
    <3>2. UNCHANGED <<job, todo, answer, made>>
      BY <2>7 DEF Request
    <3> QED BY <2>2, <3>1, <3>2
  <2>8. CASE EnqueueItem(w)
    BY <2>8, ItemBatch
  <2>9. CASE \E n \in DOMAIN task : Take(w, n)
    <3>1. PICK n \in DOMAIN task : Take(w, n)
      BY <2>9
    <3>2. FirstStep[task[n].kind] # "enqueue"
      BY <3>1 DEF Take, Jobs, FirstStep
    <3>3. pc'[w] # "enqueue" /\ UNCHANGED <<todo, answer, made>> /\ MadeType'
      BY <3>1, <3>2 DEF Take, Goto, PassesInv, Indexed, MadeType
    <3>4. \A v \in Workers : v # w => SamePlace(v)
      BY <3>1 DEF Take, Goto, PassesInv, Indexed, SamePlace
    <3> QED BY <3>3, <3>4
  <2> QED
    BY <1>2, <2>1, <2>3, <2>4, <2>5, <2>6, <2>7, <2>8, <2>9
    DEF WorkerStep, PassFails, Park, Complete
<1>3. \/ UNCHANGED <<pc, job, todo, answer, made>>
      \/ \E w \in Workers : WorkerStep(w) \/ PassFails(w) \/ \E n \in DOMAIN task : Take(w, n)
  BY DEF Next, vars, passVars, SchedulerStep, Wake, Dispatch, EndDispatch, SchedulerFails,
         EnqueueGoal, OtherEvent, Resume, Recover, Rekick, GiveUp, WorkMerges, Stall,
         CommitStuck, RollbackStuck, Resolve
<1> QED BY <1>1, <1>2, <1>3

LEMMA BatchStep ==
  ASSUME PlansAreOrdered, PlansInv, BatchInv, [Next]_vars
  PROVE  BatchInv'
<1>0. RowsInv /\ PassesInv /\ MadeType
  BY DEF PlansInv, BatchInv, MadeType
<1>1. PlanStep /\ Older
  BY PlansStep
<1>2. /\ MadeType'
      /\ \A v \in Workers : SamePlace(v) \/ Begun(v) \/ pc'[v] # "enqueue" \/ EnqueueItem(v)
  BY <1>0, BatchMoves
<1>3. ASSUME NEW v \in Workers, pc'[v] = "enqueue"
      PROVE  Prepared(todo'[v], answer'[v].edges, made'[v], job'[v], task')
  <2>1. CASE SamePlace(v)
    <3>1. Prepared(todo[v], answer[v].edges, made[v], job[v], task)
      BY <1>3, <2>1 DEF SamePlace, BatchInv
    <3>2. Prepared(todo[v], answer[v].edges, made[v], job[v], task')
      BY <1>1, <3>1, PreparedLasts
    <3> QED BY <2>1, <3>2 DEF SamePlace
  <2>2. CASE Begun(v)
    BY <2>2, OrderPrepares DEF Begun
  <2>3. CASE EnqueueItem(v)
    <3> DEFINE t == todo[v]  e == answer[v].edges  j == job[v]  m == made[v]
               new == Len(task) + 1
    <3>1. /\ pc[v] = "enqueue" /\ Enqueue(ItemRow(v, Head(t))) /\ answer' = answer /\ job' = job
          /\ todo' = [todo EXCEPT ![v] = Tail(t)]
          /\ Goto(v, IF Len(t) = 1 THEN "complete" ELSE "enqueue")
      BY <2>3 DEF EnqueueItem
    <3>2. made'[v] = [m EXCEPT ![Head(t)] = new]
      BY <1>0, <2>3, ItemBatch
    <3>3. IsTodo(t) /\ Prepared(t, e, m, j, task) /\ m = [i \in 1..3 |-> m[i]]
      BY <1>0, <3>1 DEF PassesInv, InPass, BatchInv
    <3>4. todo'[v] = Tail(t) /\ Len(t) # 1
      BY <1>0, <1>3, <3>1 DEF Goto, PassesInv, Indexed
    <3>5. IsItem(new, j, task')
      <4>1. DOMAIN task' = DOMAIN task \cup {new} /\ task'[new] = ItemRow(v, Head(t))
        <5>1. PICK S : task \in Seq(S)
          BY <1>0 DEF RowsInv
        <5>2. task' = Append(task, ItemRow(v, Head(t)))
          BY <3>1 DEF Enqueue
        <5> QED BY <5>1, <5>2
      <4> QED BY <4>1 DEF IsItem, ItemRow, Row
    <3>6. \A d : IsItem(d, j, task) => IsItem(d, j, task')
      BY <1>1, ItemsRemain
    <3> HIDE DEF t, e, j, m, new
    <3>7. Prepared(Tail(t), e, [m EXCEPT ![Head(t)] = new], j, task')
      BY <3>3, <3>4, <3>5, <3>6, RestIsPrepared
    <3> QED BY <3>1, <3>2, <3>4, <3>7 DEF e, j
  <2> QED BY <1>2, <1>3, <2>1, <2>2, <2>3
<1> QED BY <1>2, <1>3 DEF BatchInv, MadeType

LEMMA DepsStep ==
  ASSUME PlansInv, BatchInv, DepsInv, PlanStep, Older
  PROVE  DepsInv'
<1> SUFFICES ASSUME NEW n \in DOMAIN task', task'[n].kind = "work", NEW d \in task'[n].deps
             PROVE  d < n /\ IsItem(d, task'[n].by, task')
  BY DEF DepsInv
<1>1. CASE n \in DOMAIN task
  <2>1. SameOrigin(task'[n], task[n])
    BY <1>1 DEF Older
  <2>2. d < n /\ IsItem(d, task[n].by, task)
    BY <1>1, <2>1 DEF SameOrigin, DepsInv
  <2> QED BY <2>1, <2>2, ItemsRemain DEF SameOrigin
<1>2. CASE n \notin DOMAIN task
  <2>1. PICK w \in Workers : ItemAdded(w)
    BY <1>2 DEF PlanStep, Quiet, NewJob, Restatused, Rekicked, Taken, Onward, Ended, Dropped,
                Moved, KickedRow, Updated, Inserted, Jobs
  <2> DEFINE h == Head(todo[w])
  <2>2. IsTodo(todo[w]) /\ Prepared(todo[w], answer[w].edges, made[w], job[w], task)
    BY <2>1 DEF ItemAdded, PlansInv, PassesInv, InPass, BatchInv
  <2>3. n = Len(task) + 1 /\ task'[n] = ItemRow(w, h)
    BY <1>2, <2>1 DEF ItemAdded, Inserted
  <2>4. task'[n].deps = Prerequisites(w, h) /\ task'[n].by = job[w]
    BY <2>3 DEF ItemRow, Row
  <2>5. PICK c \in answer[w].edges[h] : d = made[w][c]
    BY <2>4 DEF Prerequisites, EdgesOf
  <2>6. IsItem(d, job[w], task)
    BY <2>2, <2>5, FirstIsPrepared
  <2>7. d < n
    BY <2>3, <2>6, TableIsIndexed DEF IsItem, PlansInv
  <2> QED BY <2>4, <2>6, <2>7, ItemsRemain
<1> QED BY <1>1, <1>2

\* Whatever passes run over a job at the same time, die or are repeated: an item waits only for
\* items that the same job had enqueued before it, so the work of a decomposition never waits
\* for itself (run_pm_tick and run_pm_replan map the edges to ids in _topo_order).
THEOREM ItemsWaitForTheirBatch ==
  ASSUME PlansAreOrdered
  PROVE  Spec => []DependsOnOwnBatch
<1>1. Init => PlansInv /\ BatchInv /\ DepsInv
  <2> SUFFICES ASSUME Init PROVE PlansInv /\ BatchInv /\ DepsInv
    OBVIOUS
  <2>1. PlansInv /\ task = <<>>
    BY InitPlans
  <2>2. DepsInv
    BY <2>1 DEF DepsInv
  <2>3. BatchInv
    BY DEF Init, BatchInv, Indexed, NoIds
  <2> QED BY <2>1, <2>2, <2>3
<1>2. PlansInv /\ BatchInv /\ DepsInv /\ [Next]_vars => (PlansInv /\ BatchInv /\ DepsInv)'
  BY PlansStep, BatchStep, DepsStep
<1>3. PlansInv /\ DepsInv => DependsOnOwnBatch
  <2> SUFFICES ASSUME PlansInv, DepsInv, NEW n \in RowsOf("work"), NEW d \in task[n].deps
               PROVE  d \in 1..(n - 1) /\ task[d].kind = "work" /\ task[d].by = task[n].by
    BY DEF DependsOnOwnBatch
  <2>1. n \in DOMAIN task /\ d < n /\ IsItem(d, task[n].by, task)
    BY DEF RowsOf, DepsInv
  <2>2. d \in 1..(n - 1)
    BY <2>1, TableIsIndexed DEF IsItem, PlansInv
  <2> QED BY <2>1, <2>2 DEF IsItem
<1> QED BY <1>1, <1>2, <1>3, PTL DEF Spec

=============================================================================
