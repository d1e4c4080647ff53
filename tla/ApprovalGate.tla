---------------------------- MODULE ApprovalGate ----------------------------
(***************************************************************************)
(* The approval loop around a gated tool call: enforce.invoke finds and    *)
(* consumes a grant or requests one, the worker parks its task on the      *)
(* request, a human decides, and resume_approved sends the task back to    *)
(* the pool or fails it.  TaskQueue has the rest of the task's life; here  *)
(* a task is in the pool, run by a pass, blocked, or over, and a re-kick   *)
(* may start a second pass while the first still runs.                     *)
(***************************************************************************)
EXTENDS Approvals

CONSTANTS
  Tasks, Workers, NoTask, NoRow,
  ActsOf,        \* ActsOf[t]: the calls a pass over t may make (the arguments
                 \* of an Executor's call contain model text and may differ)
  Effect,        \* policy.decide: "allow", "ask" or "deny"
  Loops,         \* tasks of _handle_work, whose pass may try again
  AccurateDetector,  \* a task is re-kicked only once nobody works on it
  MaxRekicks,    \* bound: re-kicks of one task
  MaxCrashes     \* bound: passes that die

ASSUME GateAssumption ==
  /\ NoTask \notin Tasks /\ NoRow \notin Ids
  /\ ActsOf \in [Tasks -> SUBSET Acts]
  \* compute_fingerprint folds the task id in
  /\ \A t, u \in Tasks : t # u => ActsOf[t] \cap ActsOf[u] = {}
  /\ Effect \in [Acts -> {"allow", "ask", "deny"}]
  /\ Loops \subseteq Tasks /\ AccurateDetector \in BOOLEAN
  /\ MaxRekicks \in Nat /\ MaxCrashes \in Nat

VARIABLES
  phase,      \* the task's status, as far as this loop tells statuses apart
  parkedOn,   \* result.blocked_on_approval
  rekicks,
  pc, job, act, grant,  \* per worker: next step, task, call and row in hand
  used,       \* history: executions each row has authorized
  crashes

taskVars == <<phase, parkedOn, rekicks>>
passVars == <<pc, job, act, grant>>
vars == <<storeVars, taskVars, passVars, used, crashes>>

Phases == {"pool", "running", "blocked", "merged", "abandoned"}
Steps == {"idle", "call", "find", "consume", "request", "insert", "park",
          "execute", "finish", "fail", "requeue", "deny"}
Working == Steps \ {"idle", "requeue", "deny"}

TypeOK ==
  /\ StoreType
  /\ phase \in [Tasks -> Phases]
  /\ parkedOn \in [Tasks -> Ids \cup {NoRow}]
  /\ rekicks \in [Tasks -> 0..MaxRekicks]
  /\ pc \in [Workers -> Steps]
  /\ job \in [Workers -> Tasks \cup {NoTask}]
  /\ act \in [Workers -> Acts \cup {NoAct}]
  /\ grant \in [Workers -> Ids \cup {NoRow}]
  /\ used \in [Ids -> Nat]
  /\ crashes \in 0..MaxCrashes

Init ==
  /\ StoreInit
  /\ phase = [t \in Tasks |-> "pool"]
  /\ parkedOn = [t \in Tasks |-> NoRow]
  /\ rekicks = [t \in Tasks |-> 0]
  /\ pc = [w \in Workers |-> "idle"]
  /\ job = [w \in Workers |-> NoTask]
  /\ act = [w \in Workers |-> NoAct]
  /\ grant = [w \in Workers |-> NoRow]
  /\ used = [i \in Ids |-> 0]
  /\ crashes = 0

-----------------------------------------------------------------------------
Goto(w, p) == pc' = [pc EXCEPT ![w] = p]

\* The pass of w is over.
Leave(w) ==
  /\ Goto(w, "idle")
  /\ job' = [job EXCEPT ![w] = NoTask]
  /\ act' = [act EXCEPT ![w] = NoAct]
  /\ grant' = [grant EXCEPT ![w] = NoRow]

Busy(t) == \E w \in Workers : job[w] = t /\ pc[w] \in Working

\* The worker claims and starts a task of the pool.
Take(w, t) ==
  /\ pc[w] = "idle"
  /\ phase[t] = "pool"
  /\ phase' = [phase EXCEPT ![t] = "running"]
  /\ Goto(w, "call")
  /\ job' = [job EXCEPT ![w] = t]
  /\ UNCHANGED <<storeVars, parkedOn, rekicks, act, grant, used, crashes>>

\* The supervisor returns a running task to the pool.
Rekick(t) ==
  /\ phase[t] = "running"
  /\ AccurateDetector => ~Busy(t)
  /\ rekicks[t] < MaxRekicks
  /\ phase' = [phase EXCEPT ![t] = "pool"]
  /\ rekicks' = [rekicks EXCEPT ![t] = @ + 1]
  /\ UNCHANGED <<storeVars, parkedOn, passVars, used, crashes>>

\* invoke: the policy decides the call.
Decision == [ask |-> "find", allow |-> "execute", deny |-> "fail"]
Call(w) ==
  /\ pc[w] = "call"
  /\ \E a \in ActsOf[job[w]] :
       /\ act' = [act EXCEPT ![w] = a]
       /\ Goto(w, Decision[Effect[a]])
  /\ UNCHANGED <<storeVars, taskVars, job, grant, used, crashes>>

\* find_grant
FindGrant(w) ==
  /\ pc[w] = "find"
  /\ \/ \E i \in Ids : /\ IsGrantFor(act[w], i)
                       /\ grant' = [grant EXCEPT ![w] = i]
                       /\ Goto(w, "consume")
     \/ /\ \A i \in Ids : ~IsGrantFor(act[w], i)
        /\ Goto(w, "request")
        /\ UNCHANGED grant
  /\ UNCHANGED <<storeVars, taskVars, job, act, used, crashes>>

\* consume_grant: whoever loses the race for the grant requests a new one.
ConsumeGrant(w) ==
  /\ pc[w] = "consume"
  /\ \/ Consume(grant[w]) /\ Goto(w, "execute") /\ UNCHANGED grant
     \/ /\ ~Consumable(grant[w])
        /\ Goto(w, "request")
        /\ grant' = [grant EXCEPT ![w] = NoRow]
        /\ UNCHANGED storeVars
  /\ UNCHANGED <<taskVars, job, act, used, crashes>>

\* request_approval, up to its SELECT ... FOR UPDATE: an open row is returned
\* as it is; when there is none, nothing is locked.
LookUp(w) ==
  /\ pc[w] = "request"
  /\ \/ \E i \in Ids : /\ OldestOpen(act[w], i)
                       /\ grant' = [grant EXCEPT ![w] = i]
                       /\ Goto(w, "park")
     \/ /\ RowsOf(act[w], Reusable) = {}
        /\ Goto(w, "insert")
        /\ UNCHANGED grant
  /\ UNCHANGED <<storeVars, taskVars, job, act, used, crashes>>

\* request_approval, its INSERT.
Insert(w) ==
  /\ pc[w] = "insert"
  /\ InsertPending(act[w])
  /\ grant' = [grant EXCEPT ![w] = next]
  /\ Goto(w, "park")
  /\ UNCHANGED <<taskVars, job, act, used, crashes>>

\* block_task: park an in_progress task on the request.
Park(w) ==
  LET t == job[w] IN
  /\ pc[w] = "park"
  /\ Leave(w)
  /\ IF phase[t] = "running"
     THEN /\ phase' = [phase EXCEPT ![t] = "blocked"]
          /\ parkedOn' = [parkedOn EXCEPT ![t] = grant[w]]
     ELSE UNCHANGED <<phase, parkedOn>>
  /\ UNCHANGED <<storeVars, rekicks, used, crashes>>

\* _execute: the tool runs, authorized by a consumed grant or by its tier; the
\* pass ends, or a work task failed its review and the Executor calls again.
Execute(w) ==
  /\ pc[w] = "execute"
  /\ used' = IF grant[w] # NoRow THEN [used EXCEPT ![grant[w]] = @ + 1] ELSE used
  /\ \/ Goto(w, "finish")
     \/ job[w] \in Loops /\ Goto(w, "call")
     \/ Goto(w, "fail")
  /\ grant' = [grant EXCEPT ![w] = NoRow]
  /\ UNCHANGED <<storeVars, taskVars, job, act, crashes>>

\* complete_task: only an in_progress task is finalized.
Complete(w, p, to) ==
  LET t == job[w] IN
  /\ pc[w] = p
  /\ Leave(w)
  /\ phase' = IF phase[t] = "running" THEN [phase EXCEPT ![t] = to] ELSE phase
  /\ UNCHANGED <<storeVars, parkedOn, rekicks, used, crashes>>
Finish(w) == Complete(w, "finish", "merged")
Fail(w) == Complete(w, "fail", "abandoned")

\* The human decides.
Resolve(i) ==
  /\ \E v \in {"approved", "denied"} : ResolveAs(i, v)
  /\ UNCHANGED <<taskVars, passVars, used, crashes>>

\* resume_approved reads a blocked task and its approval; pending rows, and
\* consumed ones, are left for a later pass.
Granted(i) == i # NoRow /\ row[i].status = "approved"
Decided(i) == i # NoRow /\ row[i].status \in {"approved", "denied"}
ReadParked(w, t) ==
  /\ pc[w] = "idle"
  /\ phase[t] = "blocked"
  /\ Decided(parkedOn[t])
  /\ Goto(w, IF row[parkedOn[t]].status = "approved" THEN "requeue" ELSE "deny")
  /\ job' = [job EXCEPT ![w] = t]
  /\ UNCHANGED <<storeVars, taskVars, act, grant, used, crashes>>

\* requeue_blocked_task, guarded to blocked.
Requeue(w) ==
  LET t == job[w] IN
  /\ pc[w] = "requeue"
  /\ Leave(w)
  /\ phase' = IF phase[t] = "blocked" THEN [phase EXCEPT ![t] = "pool"] ELSE phase
  /\ UNCHANGED <<storeVars, parkedOn, rekicks, used, crashes>>

\* complete_task(ABANDONED, force=True)
Deny(w) ==
  /\ pc[w] = "deny"
  /\ Leave(w)
  /\ phase' = [phase EXCEPT ![job[w]] = "abandoned"]
  /\ UNCHANGED <<storeVars, parkedOn, rekicks, used, crashes>>

\* The worker dies between two steps.
Die(w) ==
  /\ pc[w] # "idle"
  /\ crashes < MaxCrashes
  /\ crashes' = crashes + 1
  /\ Leave(w)
  /\ UNCHANGED <<storeVars, taskVars, used>>

-----------------------------------------------------------------------------
WorkerStep(w) ==
  \/ Call(w) \/ FindGrant(w) \/ ConsumeGrant(w) \/ LookUp(w) \/ Insert(w)
  \/ Park(w) \/ Execute(w) \/ Finish(w) \/ Fail(w) \/ Requeue(w) \/ Deny(w)

Next ==
  \/ \E w \in Workers : WorkerStep(w) \/ Die(w)
  \/ \E w \in Workers, t \in Tasks : Take(w, t) \/ ReadParked(w, t)
  \/ \E t \in Tasks : Rekick(t)
  \/ \E i \in Ids : Resolve(i)

Spec == Init /\ [][Next]_vars

\* Workers loop over resume_approved and run_once, the supervisor sweeps, and
\* the human answers every request.
Fairness ==
  /\ \A w \in Workers : WF_vars(WorkerStep(w))
  /\ \A w \in Workers, t \in Tasks : WF_vars(Take(w, t)) /\ WF_vars(ReadParked(w, t))
  /\ \A t \in Tasks : WF_vars(Rekick(t))
  /\ \A i \in Ids : WF_vars(Resolve(i))

FairSpec == Spec /\ Fairness

-----------------------------------------------------------------------------
(* Properties                                                              *)

\* One grant, one execution: a row authorizes at most one run of its tool, and
\* only after a human approved it and a pass consumed it, however many passes
\* race for the grant.
OneShot == \A i \in Ids :
  used[i] <= 1 /\ (used[i] = 1 => row[i].status = "consumed")

\* A verdict never changes: denied and consumed rows are final and
\* a granted row is only ever spent.
VerdictsAreFinal ==
  [][\A i \in Ids :
       /\ row[i].status \in {"denied", "consumed"} => row'[i] = row[i]
       /\ row[i].status = "approved" => row'[i].status \in {"approved", "consumed"}]_vars

\* The human is asked for an action again only for a reason: each earlier row
\* was spent on a run, or lost with a pass that died, or denied.
AskedForAReason ==
  \A a \in Acts :
    LET runs == {i \in RowsOf(a, {"consumed"}) : used[i] = 1} IN
    Cardinality(RowsOf(a, RowStatuses))
      <= Cardinality(runs) + Cardinality(RowsOf(a, {"denied"})) + crashes + 1

\* request_approval is idempotent: an action has at most one open row.
NoDuplicateOpen == \A a \in Acts : \A i, j \in RowsOf(a, Open) : i = j

\* A parked task can be resumed: the row it waits for is pending, or decided
\* and not spent by somebody else.
ParkedIsResumable ==
  \A t \in Tasks : phase[t] = "blocked" =>
    parkedOn[t] # NoRow /\ row[parkedOn[t]].status # "consumed"

\* A task whose human answers every request ends, whatever another task's loop does.
GatedTaskEnds ==
  \A t \in Tasks \ Loops : phase[t] = "running" ~> phase[t] \in {"merged", "abandoned"}

=============================================================================
