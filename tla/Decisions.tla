----------------------------- MODULE Decisions -----------------------------
(***************************************************************************)
(* Open questions to the stakeholder (runtime/decisions.py): a question    *)
(* parks the task that depends on it, the answer resumes it.  The board is *)
(* reduced to what the loop tells statuses apart by; blocked tasks may     *)
(* also wait for an approval, and resume_approved looks at those only.     *)
(***************************************************************************)
EXTENDS Approvals

CONSTANTS
  Tasks, Workers, NoTask,
  Askers,        \* tasks whose role may put a question
  Gated,         \* tasks whose role may make a red call
  Quiet,         \* tasks with steps that outlast the stale threshold: they may be
                 \* re-kicked although a pass still works on them
  MaxQuestions,  \* bound: questions ever put
  MaxRekicks,    \* bound: re-kicks of one task
  MaxCrashes     \* bound: passes that die

ASSUME DecisionsAssumption ==
  /\ NoTask \notin Tasks
  /\ Askers \subseteq Tasks /\ Gated \subseteq Tasks
  /\ Acts = Tasks         \* one red call per task: the fingerprint folds the task id in
  /\ Quiet \subseteq Tasks
  /\ MaxQuestions \in Nat /\ MaxRekicks \in Nat /\ MaxCrashes \in Nat

VARIABLES
  status,     \* tasks.status
  waitsFor,   \* tasks.result of a parked task: what it is blocked on
  question,   \* question[d]: the d-th row of decisions
  asked,      \* rows of decisions so far
  pc, job, inHand,   \* per worker: next step, task and approval in hand
  rekicks, crashes

boardVars == <<status, waitsFor, rekicks>>
askVars == <<question, asked>>
passVars == <<pc, job, inHand>>
decisionVars == <<storeVars, boardVars, askVars, passVars, crashes>>

Statuses == {"up_for_grabs", "in_progress", "blocked", "merged", "abandoned"}
Over == {"merged", "abandoned"}
QIds == 1..MaxQuestions
Nothing == [on |-> "nothing", id |-> 0]
OnDecision(d) == [on |-> "decision", id |-> d]
OnApproval(i) == [on |-> "approval", id |-> i]
Waits == {Nothing} \cup {OnDecision(d) : d \in QIds} \cup {OnApproval(i) : i \in Ids}

DecisionsInit ==
  /\ StoreInit
  /\ status = [t \in Tasks |-> "up_for_grabs"]
  /\ waitsFor = [t \in Tasks |-> Nothing]
  /\ question = [d \in QIds |-> [task |-> NoTask, status |-> "absent"]]
  /\ asked = 0
  /\ pc = [w \in Workers |-> "idle"]
  /\ job = [w \in Workers |-> NoTask]
  /\ inHand = [w \in Workers |-> 0]
  /\ rekicks = [t \in Tasks |-> 0]
  /\ crashes = 0

-----------------------------------------------------------------------------
Goto(w, p) == pc' = [pc EXCEPT ![w] = p]

\* The pass of w is over.
Leave(w) ==
  /\ Goto(w, "idle")
  /\ job' = [job EXCEPT ![w] = NoTask]
  /\ inHand' = [inHand EXCEPT ![w] = 0]

\* transition() with expected_from: the row moves, or nothing happens.
MovesFrom(t, from, to) ==
  status' = IF status[t] = from THEN [status EXCEPT ![t] = to] ELSE status

\* transition(in_progress -> blocked, result = what)
ParkOn(t, what) ==
  /\ MovesFrom(t, "in_progress", "blocked")
  /\ waitsFor' = IF status[t] = "in_progress" THEN [waitsFor EXCEPT ![t] = what] ELSE waitsFor

Attended(t) == \E w \in Workers : job[w] = t /\ pc[w] \notin {"idle", "requeue", "deny"}

\* claim_task; p is the first step of the handler.
Take(w, t, p) ==
  /\ pc[w] = "idle" /\ status[t] = "up_for_grabs"
  /\ status' = [status EXCEPT ![t] = "in_progress"]
  /\ Goto(w, p)
  /\ job' = [job EXCEPT ![w] = t]
  /\ UNCHANGED <<storeVars, waitsFor, rekicks, askVars, inHand, crashes>>

\* The supervisor's re-kick of a held task.
Rekick(t) ==
  /\ status[t] = "in_progress"
  /\ t \in Quiet \/ ~Attended(t)
  /\ rekicks[t] < MaxRekicks
  /\ status' = [status EXCEPT ![t] = "up_for_grabs"]
  /\ rekicks' = [rekicks EXCEPT ![t] = @ + 1]
  /\ UNCHANGED <<storeVars, waitsFor, askVars, passVars, crashes>>

\* The last rung of the ladder: a held task whose re-kicks are spent is given up.
GiveUp(t) ==
  /\ status[t] = "in_progress"
  /\ t \in Quiet \/ ~Attended(t)
  /\ rekicks[t] = MaxRekicks
  /\ status' = [status EXCEPT ![t] = "abandoned"]
  /\ UNCHANGED <<storeVars, waitsFor, rekicks, askVars, passVars, crashes>>

-----------------------------------------------------------------------------
RecordThenPark(w) ==
  LET t == job[w] IN
  /\ pc[w] = "run" /\ t \in Askers
  /\ asked < MaxQuestions
  /\ ParkOn(t, OnDecision(asked + 1))
  /\ question' = [question EXCEPT ![asked + 1] = [task |-> t, status |-> "open"]]
  /\ asked' = asked + 1
  /\ Leave(w)
  /\ UNCHANGED <<storeVars, rekicks, crashes>>

\* request_decision: park first, then insert, in one transaction.  A park that
\* finds the task gone raises DecisionParkError and no row is written.
RequestDecision(w) ==
  LET t == job[w] IN
  /\ pc[w] = "run" /\ t \in Askers
  /\ asked < MaxQuestions
  /\ ParkOn(t, OnDecision(asked + 1))
  /\ IF status[t] = "in_progress"
     THEN /\ question' = [question EXCEPT ![asked + 1] = [task |-> t, status |-> "open"]]
          /\ asked' = asked + 1
     ELSE UNCHANGED askVars
  /\ Leave(w)
  /\ UNCHANGED <<storeVars, rekicks, crashes>>

SettleQuietly(d, v) ==
  /\ question[d].status = "open"
  /\ question' = [question EXCEPT ![d].status = v]
  /\ UNCHANGED <<storeVars, boardVars, asked, passVars, crashes>>
\* answer_decision and withdraw_decision: guarded to open, and the task resumes
\* if it is blocked.
Settle(d, v) ==
  /\ question[d].status = "open"
  /\ question' = [question EXCEPT ![d].status = v]
  /\ MovesFrom(question[d].task, "blocked", "up_for_grabs")
  /\ UNCHANGED <<storeVars, waitsFor, rekicks, asked, passVars, crashes>>
AnswerDecision(d) == Settle(d, "answered")
WithdrawDecision(d) == Settle(d, "withdrawn")

\* request_approval of the task's red call: the oldest open row, or a new one.
\* (The race between its two statements is ApprovalGate's subject.)
RequestApproval(w, p) ==
  LET t == job[w] IN
  /\ IF RowsOf(t, Reusable) # {}
     THEN \E i \in Ids : /\ OldestOpen(t, i)
                         /\ inHand' = [inHand EXCEPT ![w] = i]
                         /\ UNCHANGED storeVars
     ELSE InsertPending(t) /\ inHand' = [inHand EXCEPT ![w] = next]
  /\ Goto(w, p)
  /\ UNCHANGED <<boardVars, askVars, job, crashes>>

\* enforce.invoke of a red call: a grant is spent and the run goes on, else the
\* call is put to the human and the task parked.
SpendGrant(w) ==
  /\ pc[w] = "run" /\ job[w] \in Gated
  /\ \E i \in Ids : IsGrantFor(job[w], i) /\ Consume(i)
  /\ UNCHANGED <<boardVars, askVars, passVars, crashes>>
PendCall(w) ==
  /\ pc[w] = "run" /\ job[w] \in Gated
  /\ RowsOf(job[w], {"approved"}) = {}
  /\ RequestApproval(w, "park")
BlockTask(w) ==
  /\ pc[w] = "park"
  /\ ParkOn(job[w], OnApproval(inHand[w]))
  /\ Leave(w)
  /\ UNCHANGED <<storeVars, rekicks, askVars, crashes>>

\* complete_task: guarded to in_progress.
Complete(w) ==
  /\ pc[w] = "run"
  /\ MovesFrom(job[w], "in_progress", "merged")
  /\ Leave(w)
  /\ UNCHANGED <<storeVars, waitsFor, rekicks, askVars, crashes>>

\* resume_approved reads a blocked row and its approval, then moves the task by
\* what it read.  A task parked on a question has no blocked_on_approval.
Verdict == [approved |-> "requeue", denied |-> "deny"]
ReadParked(w, t) ==
  /\ pc[w] = "idle"
  /\ status[t] = "blocked" /\ waitsFor[t].on = "approval"
  /\ row[waitsFor[t].id].status \in DOMAIN Verdict
  /\ Goto(w, Verdict[row[waitsFor[t].id].status])
  /\ job' = [job EXCEPT ![w] = t]
  /\ UNCHANGED <<storeVars, boardVars, askVars, inHand, crashes>>
Requeue(w) ==
  /\ pc[w] = "requeue"
  /\ MovesFrom(job[w], "blocked", "up_for_grabs")
  /\ Leave(w)
  /\ UNCHANGED <<storeVars, waitsFor, rekicks, askVars, crashes>>
Deny(w) ==
  /\ pc[w] = "deny"
  /\ status' = [status EXCEPT ![job[w]] = "abandoned"]
  /\ Leave(w)
  /\ UNCHANGED <<storeVars, waitsFor, rekicks, askVars, crashes>>

\* The human decides on a row.
Resolve(i) ==
  /\ \E v \in {"approved", "denied"} : ResolveAs(i, v)
  /\ UNCHANGED <<boardVars, askVars, passVars, crashes>>

\* The pass dies or raises: what it has committed stays.
Die(w) ==
  /\ pc[w] # "idle" /\ crashes < MaxCrashes
  /\ crashes' = crashes + 1
  /\ Leave(w)
  /\ UNCHANGED <<storeVars, boardVars, askVars>>

-----------------------------------------------------------------------------
DecisionStep(w) ==
  \/ RequestDecision(w) \/ SpendGrant(w) \/ PendCall(w) \/ BlockTask(w) \/ Complete(w)
  \/ Requeue(w) \/ Deny(w)

(* Properties                                                              *)

\* The gate a question puts before its task holds: while the question is open,
\* the task waits for this answer and for nothing else (request_decision parks
\* and records in one transaction, and nobody resumes the task but the answer).
OpenIsParked ==
  \A d \in QIds : question[d].status = "open" =>
    /\ status[question[d].task] = "blocked"
    /\ waitsFor[question[d].task] = OnDecision(d)

=============================================================================
