------------------------------ MODULE Planning ------------------------------
(***************************************************************************)
(* How a goal becomes tasks, and a stuck task smaller ones: the pulse and  *)
(* the re-plan dispatch of runtime/scheduler.py, the planning of           *)
(* runtime/roles/pm.py and the two handlers of runtime/worker.py that run  *)
(* it.  A pm.tick asks a model for a plan and enqueues its items one       *)
(* transaction at a time, asks for clarification, or parks on a pushback;  *)
(* a task the supervisor gives up as stuck leaves an event, the scheduler  *)
(* turns it into a replan task, and its pass enqueues smaller tasks or, at *)
(* the depth cap, asks the human.  TaskQueue has the rest of a task's life *)
(* and ApprovalGate that of an approval.                                   *)
(***************************************************************************)
EXTENDS Integers, Sequences, SequencesExt, Critique

CONSTANTS
  Workers,
  Answers,     \* what a model may answer: a verdict and the items' edges
  Cap,         \* PM_MAX_REPLAN_DEPTH
  Critic,      \* run_pm_tick is given a critic
  CriticRounds,  \* PM_CRITIC_ROUNDS
  AccurateDetector,  \* a job is re-kicked only once nobody works on it
  JobsStall,   \* a re-kicked job may have made no progress
  NoRow, NoAct,
  Lookback, Limit, MaxSeq,
  MaxKicks,    \* re-kicks of one job
  MaxTicks,    \* bound: pm.tick tasks
  MaxTasks,    \* bound: tasks in all
  MaxMerged,   \* bound: work tasks that are done
  MaxRows,     \* bound: approval rows
  FaultKinds,  \* the faults of an instance, of pass fails, scheduler fails, rollback
  MaxFaults    \* bound: how many of them

Ids == 1..MaxTasks
Edges == UNION {[1..n -> SUBSET (1..n)] : n \in 0..3}

Verdicts == {"infeasible", "unclear", "confident"}

ASSUME PlanningAssumption ==
  /\ Answers \subseteq [verdict : Verdicts, edges : Edges]
  /\ \A a \in Answers : \A i \in DOMAIN a.edges : i \notin a.edges[i]
  /\ Cap \in Nat /\ MaxKicks \in Nat /\ CriticRounds \in Nat \ {0}
  /\ {Critic, AccurateDetector, JobsStall} \subseteq BOOLEAN
  /\ FaultKinds \subseteq {"pass fails", "scheduler fails", "rollback"}
  /\ Lookback \in Nat /\ Limit \in Nat \ {0}
  /\ {MaxSeq, MaxRows, MaxTicks, MaxTasks, MaxMerged, MaxFaults} \subseteq Nat
  /\ NoRow \notin 1..MaxRows

VARIABLES
  task,        \* the tasks table: a row per task, in the order of insertion
  drawn, open, log,          \* the event log
  spc, batch, cursor, high,  \* the scheduler: next step, events in hand, cursors
  pc, job, answer, todo, made, ask,  \* per worker: step, task, plan, items left,
                                     \* ids of the items enqueued, approval in hand
  row, next,   \* the approvals table
  faults

Asking == {"pm.plan", "pm.consensus", "pm.replan"} \X Ids

Log == INSTANCE EventLog WITH Subjects <- Ids
Approve == INSTANCE Approvals WITH Acts <- Asking

eventVars == <<drawn, open, log>>
schedulerVars == <<spc, batch, cursor, high>>
passVars == <<pc, job, answer, todo, made, ask>>
vars == <<task, eventVars, schedulerVars, passVars, row, next, faults>>

Kinds == {"tick", "replan", "work"}
Jobs == {"tick", "replan"}
Statuses == {"queued", "running", "blocked", "merged", "stuck", "failed"}
Steps == {"idle", "replan", "plan", "gate", "consult", "enqueue", "request",
          "park", "complete"}
NoAnswer == [verdict |-> "unclear", edges |-> <<>>]

\* A row: what it is, the stuck task it replans or is a part of, the job that
\* enqueued it as which item, its depth and prerequisites, status, re-kicks
\* and the approval it is parked on.
Rows == [kind : Kinds, of : 0..MaxTasks, by : 0..MaxTasks, item : 0..3, depth : Nat,
         deps : SUBSET Ids, status : Statuses, kicks : 0..MaxKicks, on : 1..MaxRows \cup {NoRow}]

TypeOK ==
  /\ task \in Seq(Rows) /\ Len(task) <= MaxTasks
  /\ Log!LogType
  /\ spc \in {"asleep", "dispatch"}
  /\ batch \subseteq log
  /\ {cursor, high} \subseteq 0..MaxSeq
  /\ pc \in [Workers -> Steps]
  /\ job \in [Workers -> 0..MaxTasks]
  /\ answer \in [Workers -> [verdict : Verdicts, edges : Edges]]
  /\ \A w \in Workers : todo[w] \in Seq(1..3) /\ made[w] \in [1..3 -> 0..MaxTasks]
  /\ ask \in [Workers -> 1..MaxRows \cup {NoRow}]
  /\ Approve!StoreType
  /\ faults \in 0..MaxFaults

NoIds == [i \in 1..3 |-> 0]

Init ==
  /\ task = <<>>
  /\ Log!LogInit
  /\ spc = "asleep" /\ batch = {} /\ cursor = 0 /\ high = 0
  /\ pc = [w \in Workers |-> "idle"]
  /\ job = [w \in Workers |-> 0]
  /\ answer = [w \in Workers |-> NoAnswer]
  /\ todo = [w \in Workers |-> <<>>]
  /\ made = [w \in Workers |-> NoIds]
  /\ ask = [w \in Workers |-> NoRow]
  /\ Approve!StoreInit
  /\ faults = 0

-----------------------------------------------------------------------------
(* Plans                                                                   *)

\* assert_acyclic: every set of items has one that waits for none of the set.
Acyclic(edges) ==
  \A S \in SUBSET (DOMAIN edges) : S # {} => \E i \in S : edges[i] \cap S = {}

\* _topo_order: each item in turn, its prerequisites before it.
TopoOrder(edges) ==
  LET visit[i \in DOMAIN edges, order \in Seq(DOMAIN edges)] ==
        IF Contains(order, i) THEN order
        ELSE Append(FoldLeft(LAMBDA o, d : visit[d, o], order,
                             SetToSortSeq(edges[i], <)), i)
  IN  FoldLeft(LAMBDA o, i : visit[i, o], <<>>,
               [i \in DOMAIN edges |-> i])

\* The order of a plan: every item once, after its prerequisites.  TopoOrder recurses
\* through its own results, so this is evaluated, over all the plans there are (MCPlanning).
Ordered(edges) ==
  LET order == TopoOrder(edges) IN
  /\ order \in Seq(DOMAIN edges) /\ IsInjective(order) /\ Len(order) = Len(edges)
  /\ Range(order) = DOMAIN edges
  /\ \A i, j \in DOMAIN order : order[i] \in edges[order[j]] => i < j
PlansAreOrdered == \A edges \in Edges : Acyclic(edges) => Ordered(edges)

\* _smaller_subtasks: never fewer than two.
Split == <<{}, {1}>>
Smaller(edges) == IF Len(edges) >= 2 THEN edges ELSE Split

-----------------------------------------------------------------------------
(* Rows and locks                                                          *)

Row(kind, of, by, item, depth, deps) ==
  [kind |-> kind, of |-> of, by |-> by, item |-> item, depth |-> depth, deps |-> deps,
   status |-> "queued", kicks |-> 0, on |-> NoRow]

Enqueue(r) == Len(task) < MaxTasks /\ task' = Append(task, r)

RowsOf(kind) == {n \in DOMAIN task : task[n].kind = kind}

\* escalate_stuck_task holds the row until it commits.
Locked(n) == \E e \in open : e.of = n

Set(n, status) == task' = [task EXCEPT ![n].status = status]
Fault(kind) == kind \in FaultKinds /\ faults < MaxFaults /\ faults' = faults + 1

-----------------------------------------------------------------------------
(* The scheduler                                                           *)

\* tick_once's check: a blocked tick counts.  The human's goals are ticks as well.
Pending == \E n \in RowsOf("tick") : task[n].status \notin {"merged", "stuck", "failed"}
Tick == Row("tick", 0, 0, 0, 0, {})
MoreTicks == Cardinality(RowsOf("tick")) < MaxTicks

\* The scheduler wakes up: a pulse unless one is pending, then dispatch_replans reads
\* the task.stuck events behind its cursor.
Wake ==
  /\ spc = "asleep"
  /\ spc' = "dispatch"
  /\ IF Pending \/ ~MoreTicks THEN UNCHANGED task ELSE Enqueue(Tick)
  /\ batch' = Log!ReadEvents(cursor)
  /\ high' = cursor
  /\ UNCHANGED <<eventVars, cursor, passVars, row, next, faults>>

EnqueueGoal ==
  /\ MoreTicks
  /\ Enqueue(Tick)
  /\ UNCHANGED <<eventVars, schedulerVars, passVars, row, next, faults>>

\* _has_replan_task: whatever became of it.
HasLiveReplan(n) ==
  \E m \in RowsOf("replan") : task[m].of = n /\ task[m].status \in {"queued", "running"}
HasReplan(n) == \E m \in RowsOf("replan") : task[m].of = n

\* One event of the batch, in order.  Only the scheduler enqueues replans, so its
\* look and its insert see the same ones.
Dispatch ==
  /\ spc = "dispatch"
  /\ \E e \in batch :
       /\ \A f \in batch : e.seq <= f.seq
       /\ batch' = batch \ {e}
       /\ high' = IF e.seq > high THEN e.seq ELSE high
       /\ IF HasReplan(e.of) THEN UNCHANGED task ELSE Enqueue(Row("replan", e.of, 0, 0, 0, {}))
  /\ UNCHANGED <<eventVars, spc, cursor, passVars, row, next, faults>>

\* dispatch_replans returns and run keeps the new cursor.
EndDispatch ==
  /\ spc = "dispatch" /\ batch = {}
  /\ spc' = "asleep"
  /\ cursor' = high /\ high' = 0
  /\ UNCHANGED <<task, eventVars, batch, passVars, row, next, faults>>

\* An error loses the rest of the batch and its cursor, a restart every cursor.
SchedulerFails ==
  /\ Fault("scheduler fails")
  /\ spc' = "asleep" /\ batch' = {} /\ high' = 0
  /\ cursor' \in {cursor, 0}
  /\ UNCHANGED <<task, eventVars, passVars, row, next>>

-----------------------------------------------------------------------------
(* The passes of the workers                                               *)

Goto(w, p) == pc' = [pc EXCEPT ![w] = p]

\* The pass of w is over, however it ended.
Leave(w) ==
  /\ Goto(w, "idle")
  /\ job' = [job EXCEPT ![w] = 0]
  /\ answer' = [answer EXCEPT ![w] = NoAnswer]
  /\ todo' = [todo EXCEPT ![w] = <<>>]
  /\ made' = [made EXCEPT ![w] = NoIds]
  /\ ask' = [ask EXCEPT ![w] = NoRow]

\* run_once claims, starts and dispatches a job.
FirstStep == [tick |-> "plan", replan |-> "replan"]
Take(w, n) ==
  /\ pc[w] = "idle"
  /\ task[n].kind \in Jobs /\ task[n].status = "queued"
  /\ Set(n, "running")
  /\ Goto(w, FirstStep[task[n].kind])
  /\ job' = [job EXCEPT ![w] = n]
  /\ UNCHANGED <<eventVars, schedulerVars, answer, todo, made, ask, row, next, faults>>

\* The decomposition begins; assert_acyclic raises on a cyclic plan.
Decompose(w, a) ==
  IF Acyclic(a.edges)
  THEN /\ Goto(w, "enqueue")
       /\ answer' = [answer EXCEPT ![w] = a]
       /\ todo' = [todo EXCEPT ![w] = TopoOrder(a.edges)]
       /\ UNCHANGED <<job, made, ask>>
  ELSE Leave(w)

\* run_pm_replan: at the depth cap the human is asked; else the answer of the model
\* is used for its items alone.
AboveCap(depth) == depth > Cap
AtCap(depth) == depth >= Cap
Resized(a) == [verdict |-> "confident", edges |-> Smaller(a.edges)]
Replan(w) ==
  /\ pc[w] = "replan"
  /\ IF AtCap(task[task[job[w]].of].depth)
     THEN Goto(w, "request") /\ UNCHANGED <<job, answer, todo, made, ask>>
     ELSE \E a \in Answers : Decompose(w, Resized(a))
  /\ UNCHANGED <<task, eventVars, schedulerVars, row, next, faults>>

\* run_pm_tick: _obtain_plan.
Plan(w) ==
  /\ pc[w] = "plan"
  /\ Goto(w, "gate")
  /\ \E a \in Answers : answer' = [answer EXCEPT ![w] = a]
  /\ UNCHANGED <<task, eventVars, schedulerVars, job, todo, made, ask, row, next, faults>>

\* The confidence gate.  A grant for an earlier pushback is looked up, but
\* consume_grant is then called with the fingerprint in place of the row's id,
\* which PostgreSQL refuses: the pass raises.
Granted(n) == \E i \in 1..MaxRows : Approve!IsGrantFor(<<"pm.plan", n>>, i)
Decision(a) ==
  IF a.verdict = "infeasible" THEN "request"
  ELSE IF a.verdict = "unclear" \/ a.edges = <<>> THEN "complete"
  ELSE "consult"
Gate(w) ==
  /\ pc[w] = "gate"
  /\ IF Granted(job[w]) THEN Leave(w)
     ELSE Goto(w, Decision(answer[w])) /\ UNCHANGED <<job, answer, todo, made, ask>>
  /\ UNCHANGED <<task, eventVars, schedulerVars, row, next, faults>>

\* What the Critic may see of a plan: its items and edges, and any gaps.
FactsOf(a) ==
  LET n == Len(a.edges) IN
  [items : {n}, criteria : 0..1, noCriterion : 0..n, noMarker : 0..n,
   deps : {\E i \in 1..n : a.edges[i] # {}}, confidence : {80, 90}]

\* No critic, or one that agrees within the rounds; or one that does not.
Consult(w) ==
  /\ pc[w] = "consult"
  /\ \/ Decompose(w, answer[w])
     \/ /\ Critic /\ \E f \in FactsOf(answer[w]) : Consensus(f, CriticRounds) = "escalated"
        /\ Goto(w, "request") /\ UNCHANGED <<job, answer, todo, made, ask>>
  /\ UNCHANGED <<task, eventVars, schedulerVars, row, next, faults>>

\* request_approval: what the pass asks for is told by its job and its answer.
\* (ApprovalGate has the window between its SELECT and its INSERT.)
Act(w) ==
  LET n == job[w] IN
  IF task[n].kind = "replan" THEN <<"pm.replan", task[n].of>>
  ELSE IF answer[w].verdict = "infeasible" THEN <<"pm.plan", n>> ELSE <<"pm.consensus", n>>
Request(w) ==
  /\ pc[w] = "request"
  /\ \/ \E i \in 1..MaxRows : /\ Approve!OldestOpen(Act(w), i)
                              /\ ask' = [ask EXCEPT ![w] = i]
                              /\ UNCHANGED <<row, next>>
     \/ /\ Approve!RowsOf(Act(w), Approve!Reusable) = {}
        /\ Approve!InsertPending(Act(w))
        /\ ask' = [ask EXCEPT ![w] = next]
  /\ Goto(w, IF task[job[w]].kind = "tick" THEN "park" ELSE "complete")
  /\ UNCHANGED <<task, eventVars, schedulerVars, job, answer, todo, made, faults>>

\* One item, one transaction; its edges become the ids of the items before it.
EdgesOf(w, i) == answer[w].edges[i]
Prerequisites(w, i) == {made[w][d] : d \in EdgesOf(w, i)}
ItemRow(w, i) ==
  LET n == job[w]  of == task[n].of IN
  Row("work", of, n, i,
      IF task[n].kind = "replan" THEN task[of].depth + 1 ELSE 0,
      Prerequisites(w, i))
EnqueueItem(w) ==
  LET i == Head(todo[w]) IN
  /\ pc[w] = "enqueue"
  /\ Enqueue(ItemRow(w, i))
  /\ made' = [made EXCEPT ![w][i] = Len(task) + 1]
  /\ todo' = [todo EXCEPT ![w] = Tail(@)]
  /\ Goto(w, IF Len(todo[w]) = 1 THEN "complete" ELSE "enqueue")
  /\ UNCHANGED <<eventVars, schedulerVars, job, answer, ask, row, next, faults>>

\* complete_task and block_task move an in_progress row and no other.
ParkedOn(r, i) == [r EXCEPT !.status = "blocked", !.on = i]
Park(w) ==
  LET n == job[w] IN
  /\ pc[w] = "park" /\ ~Locked(n)
  /\ Leave(w)
  /\ task' = IF task[n].status = "running"
             THEN [task EXCEPT ![n] = ParkedOn(@, ask[w])] ELSE task
  /\ UNCHANGED <<eventVars, schedulerVars, row, next, faults>>

Complete(w) ==
  LET n == job[w] IN
  /\ pc[w] = "complete" /\ ~Locked(n)
  /\ Leave(w)
  /\ IF task[n].status = "running" THEN Set(n, "merged") ELSE UNCHANGED task
  /\ UNCHANGED <<eventVars, schedulerVars, row, next, faults>>

\* A pass dies or raises: the model, the budget, the database.
PassFails(w) ==
  /\ pc[w] # "idle"
  /\ Fault("pass fails")
  /\ Leave(w)
  /\ UNCHANGED <<task, eventVars, schedulerVars, row, next>>

-----------------------------------------------------------------------------
(* The human, the supervisor and the other workers                         *)

Resolve(i) ==
  /\ \E v \in {"approved", "denied"} : Approve!ResolveAs(i, v)
  /\ UNCHANGED <<task, eventVars, schedulerVars, passVars, faults>>

\* resume_approved
Resume(n) ==
  /\ task[n].status = "blocked"
  /\ \/ row[task[n].on].status = "approved" /\ Set(n, "queued")
     \/ row[task[n].on].status = "denied" /\ Set(n, "failed")
  /\ UNCHANGED <<eventVars, schedulerVars, passVars, row, next, faults>>

Unattended(n) == AccurateDetector => \A w \in Workers : job[w] # n
Abandoned(n) ==
  /\ task[n].kind \in Jobs
  /\ task[n].status = "running" /\ Unattended(n) /\ ~Locked(n)

KicksLeft(n) == task[n].kicks < MaxKicks

Requeued(r) == [r EXCEPT !.status = "queued"]
Kicked(r) == [r EXCEPT !.status = "queued", !.kicks = @ + 1]

Rekick(n) ==
  /\ Abandoned(n) /\ KicksLeft(n)
  /\ task' = [task EXCEPT ![n] = Kicked(@)]
  /\ UNCHANGED <<eventVars, schedulerVars, passVars, row, next, faults>>

\* fail_exhausted
GiveUp(n) ==
  /\ Abandoned(n) /\ ~KicksLeft(n)
  /\ Set(n, "failed")
  /\ UNCHANGED <<eventVars, schedulerVars, passVars, row, next, faults>>

\* A work task runs once its prerequisites have merged.
Runs(n) ==
  /\ task[n].kind = "work" /\ task[n].status = "queued" /\ ~Locked(n)
  /\ \A d \in task[n].deps : task[d].status = "merged"

WorkMerges(n) ==
  /\ Runs(n) /\ Set(n, "merged")
  /\ Cardinality({m \in RowsOf("work") : task[m].status = "merged"}) < MaxMerged
  /\ UNCHANGED <<eventVars, schedulerVars, passVars, row, next, faults>>

\* escalate_stuck_task, up to the INSERT of its event ...
Stall(n) ==
  /\ Runs(n) \/ (JobsStall /\ Abandoned(n) /\ ~KicksLeft(n))
  /\ Log!AppendEvent(n)
  /\ UNCHANGED <<task, schedulerVars, passVars, row, next, faults>>

\* ... and its end: the row and the event, or neither.
CommitStuck(e) ==
  /\ Log!Commit(e)
  /\ Set(e.of, "stuck")
  /\ UNCHANGED <<schedulerVars, passVars, row, next, faults>>

RollbackStuck(e) ==
  /\ Fault("rollback")
  /\ Log!Rollback(e)
  /\ UNCHANGED <<task, schedulerVars, passVars, row, next>>

OtherEvent ==
  /\ Log!AppendOther
  /\ UNCHANGED <<task, schedulerVars, passVars, row, next, faults>>

-----------------------------------------------------------------------------
SchedulerStep == Wake \/ Dispatch \/ EndDispatch

WorkerStep(w) ==
  \/ Replan(w) \/ Plan(w) \/ Gate(w) \/ Consult(w) \/ Request(w) \/ EnqueueItem(w)
  \/ Park(w) \/ Complete(w)

Recover(n) == Rekick(n) \/ GiveUp(n)

Next ==
  \/ SchedulerStep \/ SchedulerFails \/ EnqueueGoal \/ OtherEvent
  \/ \E w \in Workers : WorkerStep(w) \/ PassFails(w) \/ \E n \in DOMAIN task : Take(w, n)
  \/ \E n \in DOMAIN task : Resume(n) \/ Recover(n) \/ WorkMerges(n) \/ Stall(n)
  \/ \E e \in open : CommitStuck(e) \/ RollbackStuck(e)
  \/ \E i \in 1..MaxRows : Resolve(i)

Spec == Init /\ [][Next]_vars

\* The scheduler loops, workers loop over resume_approved and run_once, the
\* supervisor sweeps, transactions end and the human answers; none of them promises
\* which of several tasks is next.
Fairness ==
  /\ WF_vars(SchedulerStep)
  /\ \A w \in Workers : WF_vars(WorkerStep(w) \/ \E n \in DOMAIN task : Take(w, n))
  /\ WF_vars(\E n \in DOMAIN task : Recover(n) \/ Resume(n))
  /\ WF_vars(\E e \in open : CommitStuck(e))
  /\ \A i \in 1..MaxRows : WF_vars(Resolve(i))

FairSpec == Spec /\ Fairness

-----------------------------------------------------------------------------
(* Properties                                                              *)

\* A stuck task is replanned at most once, although the dispatcher reads every
\* event again and again and forgets its cursor when it restarts.
ReplannedOnce ==
  \A m, n \in RowsOf("replan") : task[m].of = task[n].of => m = n

\* A plan is carried out once: a job enqueues an item again only after it was
\* itself re-kicked.
Copies(j, i) == Cardinality({n \in RowsOf("work") : task[n].by = j /\ task[n].item = i})
DecomposedOnce ==
  \A j \in DOMAIN task : \A i \in 1..3 : Copies(j, i) <= 1 + task[j].kicks

\* An item waits for rows that exist, were enqueued before it by the same job and are
\* not itself: no decomposition waits for ever on its own edges.
DependsOnOwnBatch ==
  \A n \in RowsOf("work") : \A d \in task[n].deps :
    d \in 1..(n - 1) /\ task[d].kind = "work" /\ task[d].by = task[n].by

\* A finished replan has led on: below the cap to at least two tasks one level
\* deeper, at the cap to a question to the human and to no task.
Parts(n) == {m \in RowsOf("work") : task[m].of = n}
ReplanDelivers ==
  \A r \in RowsOf("replan") : task[r].status = "merged" =>
    LET n == task[r].of IN
    IF task[n].depth < Cap
    THEN Cardinality(Parts(n)) >= 2 /\ \A m \in Parts(n) : task[m].depth = task[n].depth + 1
    ELSE Parts(n) = {} /\ Approve!RowsOf(<<"pm.replan", n>>, Approve!RowStatuses) # {}

\* No stuck signal is passed over: once it is committed, its task has a replan, or it
\* is in the batch in hand, or the next read still reaches back to it.
Answered(e) == HasReplan(e.of)
NothingLost ==
  \A e \in log : Answered(e) \/ e \in batch \/ e \in Log!Window(cursor)

\* The dispatcher stands still: what it reads again fills the page, whatever is newer.
Jammed == Cardinality({e \in Log!Window(cursor) : e.seq <= cursor}) >= Limit
AllAnswered == \A e \in log : HasReplan(e.of)

\* Every stuck signal gets through, whatever the order of commits and wherever the
\* cursor stands: the dispatcher catches up again and again (a replan is never undone),
\* unless old signals fill the page of every read for good.
StuckIsReplanned == []<>AllAnswered \/ <>[]Jammed

\* "a late-committed stall signal is never lost": the same without the exception.
StuckIsNeverLost == []<>AllAnswered

\* "a repeatedly-stuck subtask can never replan forever": no chain of replans is
\* longer than the cap allows, replans that get stuck themselves included.
Generation[n \in Ids] ==
  IF task[n].kind = "replan" THEN 1 + Generation[task[n].of] ELSE task[n].depth
ReplansAreBounded == \A n \in RowsOf("replan") : Generation[n] <= Cap + 1

\* "Human already approved a prior pushback on THIS tick -> consume the grant and
\* proceed": a tick whose pushback was approved is carried out.
Carried(n) == n \in DOMAIN task /\ task[n].status = "merged"
GrantProceeds ==
  \A n \in Ids :
    (n \in DOMAIN task /\ task[n].kind = "tick" /\ task[n].status = "blocked"
       /\ row[task[n].on].status = "approved")
    ~> Carried(n)

=============================================================================
