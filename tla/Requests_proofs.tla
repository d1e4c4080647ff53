--------------------------- MODULE Requests_proofs ---------------------------
(***************************************************************************)
(* Theorems about Requests, for any workers, tasks and questions: an open  *)
(* question keeps its task parked on it, and a merged request is delivered *)
(* and was decomposed once for each pass that died over it.  The first     *)
(* rests on no task both putting questions and making red calls            *)
(* (QuestionsApart): the verdict on a call is applied by a pass of its own *)
(* that read the parked row earlier.                                       *)
(***************************************************************************)
EXTENDS Requests, TLAPS

QuestionsApart == Askers \cap Gated = {}

-----------------------------------------------------------------------------
(* Types, of the columns the argument reads                                *)

Blockers == Waits \cup {OnApproval(0)}

Typed ==
  /\ status \in [Tasks -> Statuses]
  /\ waitsFor \in [Tasks -> Blockers]
  /\ question \in [QIds -> [task : Tasks \cup {NoTask},
                            status : {"absent", "open", "answered", "withdrawn"}]]
  /\ asked \in 0..MaxQuestions
  /\ pc \in [Workers -> Steps]
  /\ job \in [Workers -> Tasks \cup {NoTask}]
  /\ inHand \in [Workers -> Ids \cup {0}]

-----------------------------------------------------------------------------
(* Why it is inductive: who may move a parked task.  A pass that applies a *)
(* verdict, parks on an approval or triages is never about a task that     *)
(* puts questions, every other move asks for a task in progress, and a     *)
(* question names the one row it waits in.                                 *)

Triage == {"pick up", "review", "decompose", "escalate", "mark", "tell", "close"}

Passes ==
  \A w \in Workers :
    /\ pc[w] # "idle" => job[w] \in Tasks
    /\ pc[w] \in {"requeue", "deny", "park"} => job[w] \notin Askers
    /\ pc[w] \in Triage => job[w] \in FeatureRequests

Parks ==
  /\ \A t \in Askers : waitsFor[t].on # "approval"
  /\ \A d \in QIds : d > asked => question[d].status = "absent"
  /\ \A d \in QIds : question[d].status = "open" =>
       /\ question[d].task \in Askers
       /\ status[question[d].task] = "blocked"
       /\ waitsFor[question[d].task] = OnDecision(d)

\* A triage past its evaluation has a verdict.
Decided == {"decompose", "escalate", "mark", "tell", "close"}
Judged ==
  /\ verdict \in [Workers -> Outcomes \cup {"none"}]
  /\ \A w \in Workers : pc[w] \in Decided => verdict[w] \in Outcomes

IInv == Typed /\ Passes /\ Parks

-----------------------------------------------------------------------------
(* What the helpers do                                                     *)

LEMMA Moved ==
  ASSUME Typed, NEW t \in Tasks, NEW from, NEW to \in Statuses, MovesFrom(t, from, to)
  PROVE  /\ status' \in [Tasks -> Statuses]
         /\ \A u \in Tasks : status'[u] = IF u = t /\ status[t] = from THEN to ELSE status[u]
BY DEF Typed, MovesFrom

LEMMA Parked ==
  ASSUME Typed, NEW t \in Tasks, NEW what \in Blockers, ParkOn(t, what)
  PROVE  /\ status' \in [Tasks -> Statuses] /\ waitsFor' \in [Tasks -> Blockers]
         /\ \A u \in Tasks : u # t \/ status[t] # "in_progress" =>
              status'[u] = status[u] /\ waitsFor'[u] = waitsFor[u]
         /\ status[t] = "in_progress" => status'[t] = "blocked" /\ waitsFor'[t] = what
<1>1. MovesFrom(t, "in_progress", "blocked") /\ "blocked" \in Statuses
  BY DEF ParkOn, Statuses
<1>2. waitsFor' = IF status[t] = "in_progress" THEN [waitsFor EXCEPT ![t] = what] ELSE waitsFor
  BY DEF ParkOn
<1>3. /\ status' \in [Tasks -> Statuses]
      /\ \A u \in Tasks : status'[u] = IF u = t /\ status[t] = "in_progress"
                                       THEN "blocked" ELSE status[u]
  BY <1>1, Moved
<1> QED
  BY <1>2, <1>3 DEF Typed

LEMMA Gone ==
  ASSUME Typed, NEW w \in Workers, Leave(w)
  PROVE  /\ pc' \in [Workers -> Steps] /\ job' \in [Workers -> Tasks \cup {NoTask}]
         /\ inHand' \in [Workers -> Ids \cup {0}]
         /\ pc'[w] = "idle"
         /\ \A x \in Workers \ {w} : pc'[x] = pc[x] /\ job'[x] = job[x]
BY DEF Typed, Leave, Goto, Steps

LEMMA Went ==
  ASSUME Typed, NEW w \in Workers, NEW p \in Steps, Goto(w, p)
  PROVE  /\ pc' \in [Workers -> Steps]
         /\ pc'[w] = p
         /\ \A x \in Workers \ {w} : pc'[x] = pc[x]
BY DEF Typed, Goto

\* A pass that ends, and a board on which the parked tasks of the askers are as before,
\* keep the invariant.
LEMMA LeavingKeeps ==
  ASSUME IInv, NEW w \in Workers, Leave(w), UNCHANGED <<waitsFor, askVars>>,
         status' \in [Tasks -> Statuses],
         \A t \in Askers : status[t] = "blocked" => status'[t] = "blocked"
  PROVE  IInv'
<1>1. UNCHANGED <<waitsFor, question, asked>>
  BY DEF askVars
<1>2. Typed'
  BY <1>1, Gone DEF IInv, Typed
<1>3. Passes'
  BY Gone DEF IInv, Passes, Triage
<1>4. Parks'
  BY <1>1 DEF IInv, Parks
<1> QED
  BY <1>2, <1>3, <1>4 DEF IInv

\* So does a pass that goes on to a step it may be at.
LEMMA GoingKeeps ==
  ASSUME IInv, NEW w \in Workers, NEW p \in Steps, Goto(w, p),
         UNCHANGED <<waitsFor, askVars>>,
         job' \in [Workers -> Tasks \cup {NoTask}], job'[w] \in Tasks,
         \A x \in Workers \ {w} : job'[x] = job[x],
         inHand' \in [Workers -> Ids \cup {0}],
         status' \in [Tasks -> Statuses],
         \A t \in Askers : status[t] = "blocked" => status'[t] = "blocked",
         p \in {"requeue", "deny", "park"} => job'[w] \notin Askers,
         p \in Triage => job'[w] \in FeatureRequests
  PROVE  IInv'
<1>1. UNCHANGED <<waitsFor, question, asked>>
  BY DEF askVars
<1>2. Typed'
  BY <1>1, Went DEF IInv, Typed
<1>3. Passes'
  BY Went DEF IInv, Passes
<1>4. Parks'
  BY <1>1 DEF IInv, Parks
<1> QED
  BY <1>2, <1>3, <1>4 DEF IInv

-----------------------------------------------------------------------------
(* The steps of a triage: its task is a request, and puts no question.     *)

LEMMA RequestsAsk ==
  ASSUME NEW t \in FeatureRequests
  PROVE  t \in Tasks /\ t \notin Askers /\ t \notin Gated
BY RequestsAssumption

\* Parking a task that puts no questions, on whatever it waits for.
LEMMA ParkingOther ==
  ASSUME IInv, NEW w \in Workers, NEW t \in Tasks \ Askers, NEW what \in Blockers,
         ParkOn(t, what), Leave(w), UNCHANGED askVars
  PROVE  IInv'
<1>1. UNCHANGED <<question, asked>>
  BY DEF askVars
<1>2. /\ status' \in [Tasks -> Statuses] /\ waitsFor' \in [Tasks -> Blockers]
      /\ \A u \in Askers : status'[u] = status[u] /\ waitsFor'[u] = waitsFor[u]
  BY Parked, DecisionsAssumption DEF IInv
<1>3. Typed'
  BY <1>1, <1>2, Gone DEF IInv, Typed
<1>4. Passes'
  BY Gone DEF IInv, Passes, Triage
<1>5. Parks'
  BY <1>1, <1>2 DEF IInv, Parks
<1> QED
  BY <1>3, <1>4, <1>5 DEF IInv

LEMMA GrabKeeps ==
  ASSUME IInv, NEW w \in Workers, NEW t \in Tasks, Grab(w, t)
  PROVE  IInv'
<1>1. /\ FirstStep(t) \in Steps \ {"requeue", "deny", "park"}
      /\ FirstStep(t) \in Triage => t \in FeatureRequests
  BY DEF FirstStep, Steps, Triage
<1>2. /\ Goto(w, FirstStep(t)) /\ UNCHANGED <<waitsFor, askVars, inHand>>
      /\ job' = [job EXCEPT ![w] = t]
      /\ status[t] = "up_for_grabs" /\ status' = [status EXCEPT ![t] = "in_progress"]
  BY DEF Grab, Take
<1>3. status' \in [Tasks -> Statuses] /\ \A u \in Tasks : status[u] = "blocked" => status'[u] = "blocked"
  BY <1>2 DEF IInv, Typed, Statuses
<1>4. /\ job' \in [Workers -> Tasks \cup {NoTask}] /\ job'[w] = t
      /\ \A x \in Workers \ {w} : job'[x] = job[x]
      /\ inHand' \in [Workers -> Ids \cup {0}]
  BY <1>2 DEF IInv, Typed
<1> QED
  BY <1>1, <1>2, <1>3, <1>4, GoingKeeps, DecisionsAssumption

LEMMA TriageKeeps ==
  ASSUME IInv, Judged, NEW w \in Workers, TriageStep(w)
  PROVE  IInv'
<1>0. ASSUME pc[w] \in Triage
      PROVE  job[w] \in FeatureRequests /\ job[w] \in Tasks /\ job[w] \notin Askers
  BY <1>0, RequestsAsk DEF IInv, Passes
<1>1. CASE EnsureInProgress(w)
  <2>1. /\ job[w] \in FeatureRequests /\ job[w] \in Tasks /\ job[w] \notin Askers
        /\ MovesFrom(job[w], "up_for_grabs", "in_progress")
        /\ Goto(w, "review") /\ UNCHANGED <<waitsFor, askVars, job, inHand>>
    BY <1>0, <1>1 DEF EnsureInProgress, Triage
  <2>2. /\ status' \in [Tasks -> Statuses]
        /\ \A t \in Askers : status[t] = "blocked" => status'[t] = "blocked"
    BY <2>1, Moved, DecisionsAssumption DEF IInv, Statuses
  <2> QED
    BY <2>1, <2>2, GoingKeeps DEF IInv, Typed, Steps
<1>2. CASE Review(w) \/ DecomposeRequest(w) \/ Mark(w) \/ Tell(w)
  <2>1. PICK p \in Steps \ {"requeue", "deny", "park"} : Goto(w, p)
    <3>1. CASE Review(w)
      <4>1. PICK v \in Lens[job[w]] : Goto(w, AfterVerdict[v])
        BY <3>1 DEF Review
      <4>2. v \in {"accepted", "declined", "needs_clarification", "escalated"}
        BY <1>0, <3>1, RequestsAssumption DEF Review, Triage
      <4>3. AfterVerdict[v] \in {"decompose", "mark", "escalate"}
        BY <4>2 DEF AfterVerdict
      <4>4. AfterVerdict[v] \in Steps \ {"requeue", "deny", "park"}
        BY <4>3 DEF Steps
      <4> QED
        BY <4>1, <4>4
    <3>2. CASE DecomposeRequest(w)
      BY <3>2 DEF DecomposeRequest, Steps
    <3>3. CASE Mark(w) \/ Tell(w)
      BY <3>3 DEF Mark, Tell, Steps
    <3> QED
      BY <1>2, <3>1, <3>2, <3>3
  <2>2. pc[w] \in Triage /\ UNCHANGED <<boardVars, askVars, job, inHand>>
    BY <1>2 DEF Review, DecomposeRequest, Mark, Tell, Triage
  <2>3. UNCHANGED <<status, waitsFor>>
    BY <2>2 DEF boardVars
  <2> QED
    BY <1>0, <2>1, <2>2, <2>3, GoingKeeps DEF IInv, Typed
<1>3. CASE Escalate(w)
  <2>1. /\ pc[w] \in Triage /\ Goto(w, "mark") /\ UNCHANGED <<boardVars, askVars, job>>
    BY <1>3 DEF Escalate, RequestApproval, Triage
  <2>2. inHand' \in [Workers -> Ids \cup {0}]
    BY <1>3 DEF Escalate, RequestApproval, InsertPending, IInv, Typed
  <2>3. UNCHANGED <<status, waitsFor>>
    BY <2>1 DEF boardVars
  <2> QED
    BY <1>0, <2>1, <2>2, <2>3, GoingKeeps DEF IInv, Typed, Steps
<1>4. CASE Close(w)
  <2>1. pc[w] \in Triage /\ Leave(w) /\ UNCHANGED askVars
    BY <1>4 DEF Close, Triage
  <2>2. CASE verdict[w] = "escalated"
    <3>1. ParkOn(job[w], OnApproval(inHand[w]))
      BY <1>4, <2>2 DEF Close
    <3>2. OnApproval(inHand[w]) \in Blockers
      BY DEF Blockers, Waits, IInv, Typed
    <3> QED
      BY <1>0, <2>1, <3>1, <3>2, ParkingOther
  <2>3. CASE verdict[w] # "escalated"
    <3>1. UNCHANGED waitsFor
      BY <1>4, <2>3 DEF Close
    <3>2. \A t \in Askers : status'[t] = status[t]
      BY <1>0, <1>4, <2>1, <2>3, DecisionsAssumption DEF Close, MovesFrom, IInv, Typed
    <3>3. verdict[w] \in {"accepted", "declined", "needs_clarification"}
      BY <1>4, <2>3 DEF Close, Judged, Decided, Outcomes
    <3>4. status' \in [Tasks -> Statuses]
      BY <1>0, <1>4, <2>1, <2>3, <3>3 DEF Close, MovesFrom, IInv, Typed, Statuses
    <3> QED
      BY <2>1, <3>1, <3>2, <3>4, LeavingKeeps
  <2> QED
    BY <2>2, <2>3
<1> QED
  BY <1>1, <1>2, <1>3, <1>4 DEF TriageStep

LEMMA TriageJudges ==
  ASSUME IInv, Judged, NEW w \in Workers, TriageStep(w)
  PROVE  Judged'
<1> USE DEF IInv, Typed, Judged, Decided, Goto
<1>1. CASE Review(w)
  <2>1. job[w] \in FeatureRequests
    BY <1>1 DEF Review, Passes, Triage
  <2>2. PICK v \in Lens[job[w]] : /\ verdict' = [verdict EXCEPT ![w] = v]
                                  /\ pc' = [pc EXCEPT ![w] = AfterVerdict[v]]
    BY <1>1 DEF Review
  <2>3. v \in Outcomes
    BY <2>1, <2>2, RequestsAssumption DEF Outcomes
  <2> QED
    BY <2>2, <2>3
<1>2. CASE EnsureInProgress(w) \/ DecomposeRequest(w) \/ Escalate(w) \/ Mark(w) \/ Tell(w)
  <2>1. PICK p : pc' = [pc EXCEPT ![w] = p] /\ (p \in Decided => pc[w] \in Decided)
    BY <1>2 DEF EnsureInProgress, DecomposeRequest, Escalate, RequestApproval, Mark, Tell
  <2>2. verdict' = verdict
    BY <1>2 DEF EnsureInProgress, DecomposeRequest, Escalate, Mark, Tell, triageVars
  <2> QED
    BY <2>1, <2>2
<1>3. CASE Close(w)
  BY <1>3 DEF Close, Leave, Forget
<1> QED
  BY <1>1, <1>2, <1>3 DEF TriageStep

-----------------------------------------------------------------------------
(* The steps of the other roles, of the human and of the supervisor.       *)

LEMMA DecisionKeeps ==
  ASSUME IInv, QuestionsApart, NEW w \in Workers, DecisionStep(w)
  PROVE  IInv'
<1>1. CASE RequestDecision(w)
  <2>0. asked + 1 \in QIds /\ asked \in Nat
    BY <1>1, DecisionsAssumption DEF RequestDecision, IInv, Typed, QIds
  <2> DEFINE t == job[w]
  <2>1. t \in Askers /\ t \in Tasks /\ Leave(w) /\ ParkOn(t, OnDecision(asked + 1))
    BY <1>1, DecisionsAssumption DEF RequestDecision
  <2>2. OnDecision(asked + 1) \in Blockers
    BY <2>0 DEF Blockers, Waits
  <2>3. /\ status' \in [Tasks -> Statuses] /\ waitsFor' \in [Tasks -> Blockers]
        /\ \A u \in Tasks : u # t \/ status[t] # "in_progress" =>
             status'[u] = status[u] /\ waitsFor'[u] = waitsFor[u]
        /\ status[t] = "in_progress" =>
             status'[t] = "blocked" /\ waitsFor'[t] = OnDecision(asked + 1)
    BY <2>1, <2>2, Parked DEF IInv
  <2>4. Passes'
    BY <2>1, Gone DEF IInv, Passes, Triage
  <2>5. CASE status[t] # "in_progress"
    <3>1. UNCHANGED <<question, asked>>
      BY <1>1, <2>5 DEF RequestDecision, askVars
    <3>2. Typed'
      BY <2>1, <2>3, <3>1, Gone DEF IInv, Typed
    <3>3. Parks'
      BY <2>3, <2>5, <3>1, DecisionsAssumption DEF IInv, Parks
    <3> QED
      BY <2>4, <3>2, <3>3 DEF IInv
  <2>6. CASE status[t] = "in_progress"
    <3>1. /\ question' = [question EXCEPT ![asked + 1] = [task |-> t, status |-> "open"]]
          /\ asked' = asked + 1
      BY <1>1, <2>6 DEF RequestDecision
    <3>2. /\ question' \in [QIds -> [task : Tasks \cup {NoTask},
                                     status : {"absent", "open", "answered", "withdrawn"}]]
          /\ asked' \in 0..MaxQuestions
      BY <2>0, <2>1, <3>1, DecisionsAssumption DEF IInv, Typed, QIds
    <3>3. Typed'
      BY <2>1, <2>3, <3>2, Gone DEF IInv, Typed
    <3>4. /\ question'[asked + 1] = [task |-> t, status |-> "open"]
          /\ \A d \in QIds \ {asked + 1} : question'[d] = question[d]
      BY <2>0, <3>1 DEF IInv, Typed
    <3>5. \A u \in Askers : waitsFor'[u].on # "approval"
      BY <2>3, <2>6, DecisionsAssumption DEF IInv, Parks, OnDecision
    <3>6. \A d \in QIds : d > asked' => question'[d].status = "absent"
      BY <2>0, <3>1, <3>4 DEF IInv, Parks, QIds
    <3>7. ASSUME NEW d \in QIds, question'[d].status = "open"
          PROVE  /\ question'[d].task \in Askers
                 /\ status'[question'[d].task] = "blocked"
                 /\ waitsFor'[question'[d].task] = OnDecision(d)
      <4>1. CASE d = asked + 1
        BY <2>1, <2>3, <2>6, <3>4, <4>1
      <4>2. CASE d # asked + 1
        <5>1. /\ question'[d] = question[d] /\ question[d].task \in Askers
              /\ status[question[d].task] = "blocked"
              /\ waitsFor[question[d].task] = OnDecision(d)
          BY <3>4, <3>7, <4>2 DEF IInv, Parks
        <5>2. question[d].task # t /\ question[d].task \in Tasks
          BY <2>6, <5>1, DecisionsAssumption
        <5> QED
          BY <2>3, <5>1, <5>2
      <4> QED
        BY <4>1, <4>2
    <3> QED
      BY <2>4, <3>3, <3>5, <3>6, <3>7 DEF IInv, Parks
  <2> QED
    BY <2>5, <2>6
<1>2. CASE SpendGrant(w)
  BY <1>2 DEF SpendGrant, boardVars, askVars, passVars, IInv, Typed, Passes, Parks
<1>3. CASE PendCall(w)
  <2>1. job[w] \in Gated /\ Goto(w, "park") /\ UNCHANGED <<boardVars, askVars, job>>
    BY <1>3 DEF PendCall, RequestApproval
  <2>2. inHand' \in [Workers -> Ids \cup {0}]
    BY <1>3 DEF PendCall, RequestApproval, InsertPending, IInv, Typed
  <2>3. UNCHANGED <<status, waitsFor>> /\ job[w] \in Tasks /\ job[w] \notin Askers
    BY <2>1, DecisionsAssumption DEF boardVars, QuestionsApart
  <2>4. "park" \in Steps /\ "park" \notin Triage
    BY DEF Steps, Triage
  <2> QED
    BY <2>1, <2>2, <2>3, <2>4, GoingKeeps DEF IInv, Typed
<1>4. CASE BlockTask(w)
  <2>1. /\ job[w] \in Tasks \ Askers /\ Leave(w) /\ UNCHANGED askVars
        /\ ParkOn(job[w], OnApproval(inHand[w]))
    BY <1>4 DEF BlockTask, IInv, Passes
  <2>2. OnApproval(inHand[w]) \in Blockers
    BY DEF Blockers, Waits, IInv, Typed
  <2> QED
    BY <2>1, <2>2, ParkingOther
<1>5. CASE Complete(w)
  <2>1. /\ job[w] \in Tasks /\ MovesFrom(job[w], "in_progress", "merged")
        /\ Leave(w) /\ UNCHANGED <<waitsFor, askVars>>
    BY <1>5 DEF Complete, IInv, Passes
  <2>2. /\ status' \in [Tasks -> Statuses]
        /\ \A t \in Askers : status[t] = "blocked" => status'[t] = "blocked"
    BY <2>1, Moved, DecisionsAssumption DEF IInv, Statuses
  <2> QED
    BY <2>1, <2>2, LeavingKeeps
<1>6. CASE Requeue(w)
  <2>1. /\ job[w] \in Tasks \ Askers /\ MovesFrom(job[w], "blocked", "up_for_grabs")
        /\ Leave(w) /\ UNCHANGED <<waitsFor, askVars>>
    BY <1>6 DEF Requeue, IInv, Passes
  <2>2. /\ status' \in [Tasks -> Statuses]
        /\ \A t \in Askers : status[t] = "blocked" => status'[t] = "blocked"
    BY <2>1, Moved, DecisionsAssumption DEF IInv, Statuses
  <2> QED
    BY <2>1, <2>2, LeavingKeeps
<1>7. CASE Deny(w)
  <2>1. /\ job[w] \in Tasks \ Askers /\ status' = [status EXCEPT ![job[w]] = "abandoned"]
        /\ Leave(w) /\ UNCHANGED <<waitsFor, askVars>>
    BY <1>7 DEF Deny, IInv, Passes
  <2>2. /\ status' \in [Tasks -> Statuses]
        /\ \A t \in Askers : status[t] = "blocked" => status'[t] = "blocked"
    BY <2>1, DecisionsAssumption DEF IInv, Typed, Statuses
  <2> QED
    BY <2>1, <2>2, LeavingKeeps
<1> QED
  BY <1>1, <1>2, <1>3, <1>4, <1>5, <1>6, <1>7 DEF DecisionStep

\* A question is settled: of the open ones its task waits for this one alone.
LEMMA SettleKeeps ==
  ASSUME IInv, NEW d \in QIds, NEW v \in {"answered", "withdrawn"}, Settle(d, v)
  PROVE  IInv'
<1>1. /\ question[d].status = "open" /\ question' = [question EXCEPT ![d].status = v]
      /\ MovesFrom(question[d].task, "blocked", "up_for_grabs")
      /\ UNCHANGED <<waitsFor, asked, pc, job, inHand>>
  BY DEF Settle, passVars
<1>2. question[d].task \in Askers /\ waitsFor[question[d].task] = OnDecision(d)
  BY <1>1 DEF IInv, Parks
<1>3. /\ status' \in [Tasks -> Statuses]
      /\ \A u \in Tasks : u # question[d].task => status'[u] = status[u]
  BY <1>1, <1>2, Moved, DecisionsAssumption DEF IInv, Statuses
<1>4. Typed'
  BY <1>1, <1>3 DEF IInv, Typed
<1>5. Passes'
  BY <1>1 DEF IInv, Passes
<1>6. ASSUME NEW e \in QIds, question'[e].status = "open"
      PROVE  /\ question'[e].task \in Askers
             /\ status'[question'[e].task] = "blocked"
             /\ waitsFor'[question'[e].task] = OnDecision(e)
  <2>1. e # d /\ question'[e] = question[e]
    BY <1>1, <1>6 DEF IInv, Typed
  <2>2. /\ question[e].task \in Askers /\ status[question[e].task] = "blocked"
        /\ waitsFor[question[e].task] = OnDecision(e)
    BY <1>6, <2>1 DEF IInv, Parks
  <2>3. question[e].task # question[d].task
    BY <1>2, <2>1, <2>2 DEF OnDecision
  <2> QED
    BY <1>1, <1>3, <2>1, <2>2, <2>3, DecisionsAssumption
<1>7. \A e \in QIds : e > asked' => question'[e].status = "absent"
  BY <1>1 DEF IInv, Parks, Typed
<1>8. Parks'
  BY <1>1, <1>6, <1>7 DEF IInv, Parks
<1> QED
  BY <1>4, <1>5, <1>8 DEF IInv

LEMMA OtherKeeps ==
  ASSUME IInv, QuestionsApart, OtherStep
  PROVE  IInv'
<1>1. ASSUME NEW w \in Workers, DecisionStep(w) PROVE IInv'
  BY <1>1, DecisionKeeps
<1>2. ASSUME NEW w \in Workers, NEW t \in Tasks, ReadParked(w, t) PROVE IInv'
  <2>1. PICK p \in {"requeue", "deny"} : Goto(w, p)
    BY <1>2 DEF ReadParked, Verdict
  <2>2. /\ t \notin Askers /\ job' = [job EXCEPT ![w] = t]
        /\ UNCHANGED <<boardVars, askVars, inHand>>
    BY <1>2 DEF ReadParked, IInv, Parks
  <2>3. UNCHANGED <<status, waitsFor>> /\ p \in Steps /\ p \notin Triage
    BY <2>2 DEF boardVars, Steps, Triage
  <2>4. /\ job' \in [Workers -> Tasks \cup {NoTask}] /\ job'[w] = t
        /\ \A x \in Workers \ {w} : job'[x] = job[x]
    BY <2>2 DEF IInv, Typed
  <2> QED
    BY <2>1, <2>2, <2>3, <2>4, GoingKeeps DEF IInv, Typed
<1>3. ASSUME NEW d \in QIds, AnswerDecision(d) \/ WithdrawDecision(d) PROVE IInv'
  BY <1>3, SettleKeeps DEF AnswerDecision, WithdrawDecision
<1>4. ASSUME NEW i \in Ids, Resolve(i) PROVE IInv'
  BY <1>4 DEF Resolve, boardVars, askVars, passVars, IInv, Typed, Passes, Parks
<1>5. ASSUME NEW t \in Tasks, Rekick(t) \/ GiveUp(t) PROVE IInv'
  <2>1. /\ status[t] = "in_progress" /\ UNCHANGED <<waitsFor, question, asked, pc, job, inHand>>
        /\ \E s \in Statuses : status' = [status EXCEPT ![t] = s]
    BY <1>5 DEF Rekick, GiveUp, askVars, passVars, Statuses
  <2>2. /\ status' \in [Tasks -> Statuses]
        /\ \A u \in Tasks : status[u] = "blocked" => status'[u] = "blocked"
    BY <2>1 DEF IInv, Typed
  <2> QED
    BY <2>1, <2>2, DecisionsAssumption DEF IInv, Typed, Passes, Parks
<1> QED
  BY <1>1, <1>2, <1>3, <1>4, <1>5 DEF OtherStep

\* Neither the other steps nor a death bring a triage past its evaluation.
LEMMA OtherJudges ==
  ASSUME IInv, Judged,
         \/ OtherStep
         \/ \E w \in Workers, t \in Tasks : Grab(w, t)
         \/ \E w \in Workers : Die(w) /\ Forget(w)
  PROVE  Judged'
<1> USE DEF IInv, Typed, Judged, Decided, Goto
<1>1. ASSUME NEW w \in Workers, DecisionStep(w), UNCHANGED triageVars PROVE Judged'
  <2>1. pc' = pc \/ \E p \in {"idle", "park"} : pc' = [pc EXCEPT ![w] = p]
    BY <1>1 DEF DecisionStep, RequestDecision, SpendGrant, PendCall, RequestApproval, BlockTask,
                Complete, Requeue, Deny, Leave, passVars
  <2> QED
    BY <1>1, <2>1 DEF triageVars
<1>2. ASSUME NEW w \in Workers, NEW t \in Tasks, ReadParked(w, t), UNCHANGED triageVars
      PROVE  Judged'
  <2>1. PICK s \in {"approved", "denied"} : pc' = [pc EXCEPT ![w] = Verdict[s]]
    BY <1>2 DEF ReadParked, Verdict
  <2>2. Verdict[s] \notin Decided
    BY DEF Verdict
  <2> QED
    BY <1>2, <2>1, <2>2 DEF triageVars
<1>3. ASSUME NEW d \in QIds, AnswerDecision(d) \/ WithdrawDecision(d), UNCHANGED triageVars
      PROVE  Judged'
  BY <1>3 DEF AnswerDecision, WithdrawDecision, Settle, passVars, triageVars
<1>4. ASSUME NEW i \in Ids, Resolve(i), UNCHANGED triageVars PROVE Judged'
  BY <1>4 DEF Resolve, passVars, triageVars
<1>5. ASSUME NEW t \in Tasks, Rekick(t) \/ GiveUp(t), UNCHANGED triageVars PROVE Judged'
  BY <1>5 DEF Rekick, GiveUp, passVars, triageVars
<1>6. ASSUME NEW w \in Workers, NEW t \in Tasks, Grab(w, t) PROVE Judged'
  BY <1>6 DEF Grab, Take, FirstStep, triageVars
<1>7. ASSUME NEW w \in Workers, Die(w), Forget(w) PROVE Judged'
  BY <1>7 DEF Die, Leave, Forget
<1> QED
  BY <1>1, <1>2, <1>3, <1>4, <1>5, <1>6, <1>7 DEF OtherStep

-----------------------------------------------------------------------------
LEMMA InitHolds ==
  ASSUME Init
  PROVE  IInv /\ Judged
<1>1. Typed
  BY DecisionsAssumption DEF Init, DecisionsInit, Typed, Statuses, Blockers, Waits, Steps
<1>2. Passes /\ Parks /\ Judged
  BY DecisionsAssumption
     DEF Init, DecisionsInit, Passes, Parks, Judged, Triage, Decided, Nothing
<1> QED
  BY <1>1, <1>2 DEF IInv

LEMMA NextKeeps ==
  ASSUME IInv, Judged, QuestionsApart, [Next]_vars
  PROVE  IInv' /\ Judged'
<1>1. ASSUME NEW w \in Workers, TriageStep(w) PROVE IInv' /\ Judged'
  BY <1>1, TriageKeeps, TriageJudges
<1>2. ASSUME NEW w \in Workers, Die(w), Forget(w) PROVE IInv' /\ Judged'
  <2>1. Leave(w) /\ UNCHANGED <<status, waitsFor, askVars>>
    BY <1>2 DEF Die, boardVars
  <2> QED
    BY <1>2, <2>1, LeavingKeeps, OtherJudges DEF IInv, Typed
<1>3. ASSUME NEW w \in Workers, NEW t \in Tasks, Grab(w, t) PROVE IInv' /\ Judged'
  BY <1>3, GrabKeeps, OtherJudges
<1>4. CASE OtherStep
  BY <1>4, OtherKeeps, OtherJudges
<1>5. CASE UNCHANGED vars
  BY <1>5 DEF vars, decisionVars, boardVars, askVars, passVars, triageVars,
              IInv, Typed, Passes, Parks, Judged
<1> QED
  BY <1>1, <1>2, <1>3, <1>4, <1>5 DEF Next

\* While a question to the stakeholder is open its task is blocked on it and on nothing
\* else, whatever re-kicks, deaths, verdicts and other answers come between
\* (request_decision, answer_decision, resume_approved).
THEOREM OpenQuestionParks ==
  ASSUME QuestionsApart
  PROVE  Spec => []OpenIsParked
<1>1. Init => IInv /\ Judged
  BY InitHolds
<1>2. IInv /\ Judged /\ [Next]_vars => (IInv /\ Judged)'
  BY NextKeeps
<1>3. IInv => OpenIsParked
  BY DEF IInv, Parks, OpenIsParked
<1> QED
  BY <1>1, <1>2, <1>3, PTL DEF Spec

-----------------------------------------------------------------------------
(* What a merged request owes its requester.  The argument follows the one *)
(* pass that triages a request at a time (Sole, Holding: a request is      *)
(* grabbed from the board, and comes back to it only when its pass is      *)
(* over), what that pass has done by each of its steps (Counted), and the  *)
(* items enqueued by it and by the passes that died before it (Spent).  It *)
(* rests on the supervisor taking no triage in hand for stale              *)
(* (RequestsAttended): two passes over one request overwrite each other's  *)
(* sub-status.                                                             *)

RequestsAttended == Quiet \cap FeatureRequests = {}

Columns ==
  /\ status \in [Tasks -> Statuses]
  /\ pc \in [Workers -> Steps]
  /\ job \in [Workers -> Tasks \cup {NoTask}]
  /\ verdict \in [Workers -> Outcomes \cup {"none"}]
  /\ due \in [Workers -> Nat]
  /\ made \in [Workers -> Nat]
  /\ sub \in [FeatureRequests -> SubStatuses]
  /\ told \in [FeatureRequests -> SUBSET SubStatuses]
  /\ items \in [FeatureRequests -> Nat]
  /\ itemCount \in [FeatureRequests -> Nat]
  /\ linked \in [FeatureRequests -> Nat]
  /\ crashes \in Nat

Active(w) == pc[w] \in Triage

Staffed ==
  \A w \in Workers :
    /\ Active(w) => job[w] \in FeatureRequests
    /\ pc[w] \in {"run", "park"} => job[w] \notin FeatureRequests

Sole == \A w, x \in Workers : Active(w) /\ Active(x) /\ job[w] = job[x] => w = x

Holding == \A w \in Workers : Active(w) => status[job[w]] \in {"in_progress", "abandoned"}

Enqueued == {"decompose", "mark", "tell", "close"}
Counted(w) ==
  /\ pc[w] \notin Enqueued => made[w] = 0
  /\ pc[w] \in Decided => verdict[w] \in Outcomes
  /\ pc[w] \in Decided => IF verdict[w] = "accepted" THEN due[w] \in 1..Longest(job[w])
                                                  ELSE due[w] = 0
  /\ pc[w] = "escalate" => verdict[w] # "accepted"
  /\ pc[w] = "decompose" => verdict[w] = "accepted" /\ made[w] < due[w]
  /\ pc[w] \in Enqueued => made[w] <= items[job[w]]
  /\ pc[w] \in {"mark", "tell", "close"} => made[w] = due[w]
  /\ pc[w] \in {"mark", "tell", "close"} /\ verdict[w] = "accepted" =>
       itemCount[job[w]] = due[w]
  /\ pc[w] \in {"tell", "close"} =>
       /\ sub[job[w]] = verdict[w]
       /\ verdict[w] = "accepted" => linked[job[w]] = made[w]
  /\ pc[w] = "close" => verdict[w] \in told[job[w]]

\* Items enqueued by the passes that died over r, and all of them.
Wasted(r) == Longest(r) * crashes
Spent(r) ==
  /\ \A w \in Workers : Active(w) /\ job[w] = r => items[r] <= Wasted(r) + made[w]
  /\ (~\E w \in Workers : Active(w) /\ job[w] = r) /\ status[r] \notin Over =>
       items[r] <= Wasted(r)
  /\ items[r] <= Longest(r) * (1 + crashes)

Delivered(r) ==
  status[r] = "merged" =>
    /\ sub[r] = "accepted" /\ "accepted" \in told[r]
    /\ linked[r] = itemCount[r] /\ linked[r] \in 1..items[r]

Kept ==
  /\ Columns /\ Staffed /\ Sole /\ Holding
  /\ \A w \in Workers : Counted(w)
  /\ \A r \in FeatureRequests : Spent(r) /\ Delivered(r)

LEMMA Amounts ==
  ASSUME Columns, NEW r \in FeatureRequests
  PROVE  /\ Longest(r) \in Nat /\ Longest(r) # 0
         /\ Wasted(r) \in Nat
         /\ Longest(r) * (1 + crashes) = Wasted(r) + Longest(r)
         /\ Longest(r) * (1 + (1 + crashes)) = Wasted(r) + Longest(r) + Longest(r)
<1>1. Longest(r) \in Nat /\ Longest(r) # 0
  BY RequestsAssumption DEF Longest, ItemsForAccept
<1>2. \A n, k \in Nat : n * k \in Nat /\ n * (1 + k) = n * k + n /\ n * (1 + (1 + k)) = n * k + n + n
  OBVIOUS
<1>. QED BY <1>1, <1>2 DEF Wasted, Columns

\* Only the pass of w and the request it triages change.
Alone(w) ==
  /\ \A x \in Workers \ {w} : /\ pc'[x] = pc[x] /\ job'[x] = job[x]
                              /\ verdict'[x] = verdict[x]
                              /\ due'[x] = due[x] /\ made'[x] = made[x]
  /\ \A r \in FeatureRequests \ {job[w]} :
       /\ status'[r] = status[r] /\ sub'[r] = sub[r] /\ told'[r] = told[r]
       /\ items'[r] = items[r] /\ itemCount'[r] = itemCount[r] /\ linked'[r] = linked[r]
  /\ crashes' = crashes

\* What is left to show of a triage step: how w and its own request fare.
LEMMA TriageFrame ==
  ASSUME Kept, NEW w \in Workers, Active(w), Alone(w), Columns', NEW own, own = job[w],
         \/ /\ pc'[w] \in Triage /\ job'[w] = job[w]
            /\ status'[job[w]] \in {"in_progress", "abandoned"}
         \/ pc'[w] = "idle",
         Counted(w)', Spent(own)', Delivered(own)'
  PROVE  Kept'
<1>1. job[w] \in FeatureRequests
  BY DEF Kept, Staffed
<1>2. ASSUME NEW x \in Workers \ {w}, Active(x)
      PROVE  job[x] # job[w] /\ job[x] \in FeatureRequests /\ Active(x)'
  BY <1>2 DEF Kept, Sole, Staffed, Alone, Active
<1>3. ASSUME NEW x \in Workers \ {w} PROVE Active(x)' => Active(x)
  BY DEF Alone, Active
<1>4. Active(w)' => pc'[w] \in Triage /\ job'[w] = job[w]
  BY DEF Active, Triage
<1>5. Staffed'
  BY <1>1, <1>3, <1>4 DEF Kept, Staffed, Alone, Active, Triage
<1>6. Sole'
  BY <1>2, <1>3, <1>4 DEF Kept, Sole, Alone
<1>7. Holding'
  <2>1. ASSUME NEW x \in Workers \ {w}, Active(x)'
        PROVE  status'[job'[x]] \in {"in_progress", "abandoned"}
    <3>1. Active(x) /\ job'[x] = job[x] /\ job[x] \in FeatureRequests \ {job[w]}
      BY <1>2, <1>3, <2>1 DEF Alone
    <3>2. status'[job[x]] = status[job[x]]
      BY <3>1 DEF Alone
    <3>. QED BY <3>1, <3>2 DEF Kept, Holding
  <2>2. Active(w)' => status'[job'[w]] \in {"in_progress", "abandoned"}
    BY <1>4 DEF Active, Triage
  <2>. QED BY <2>1, <2>2 DEF Holding
<1>8. ASSUME NEW x \in Workers PROVE Counted(x)'
  <2>1. CASE x = w
    BY <2>1
  <2>2. CASE x # w /\ Active(x)
    <3>1. /\ pc'[x] = pc[x] /\ job'[x] = job[x] /\ verdict'[x] = verdict[x]
          /\ due'[x] = due[x] /\ made'[x] = made[x] /\ job[x] \in FeatureRequests \ {job[w]}
      BY <1>2, <2>2 DEF Alone
    <3>2. /\ sub'[job[x]] = sub[job[x]] /\ told'[job[x]] = told[job[x]]
          /\ items'[job[x]] = items[job[x]] /\ itemCount'[job[x]] = itemCount[job[x]]
          /\ linked'[job[x]] = linked[job[x]]
      BY <3>1 DEF Alone
    <3>3. Counted(x)
      BY DEF Kept
    <3>. QED BY <3>1, <3>2, <3>3 DEF Counted
  <2>3. CASE x # w /\ ~Active(x)
    <3>1. pc'[x] = pc[x] /\ made'[x] = made[x] /\ pc[x] \notin Triage
      BY <2>3 DEF Alone, Active
    <3>. QED BY <3>1 DEF Kept, Counted, Triage, Enqueued, Decided
  <2>. QED BY <2>1, <2>2, <2>3
<1>9. ASSUME NEW r \in FeatureRequests PROVE Spent(r)' /\ Delivered(r)'
  <2>1. CASE r = job[w]
    BY <2>1
  <2>2. CASE r # job[w]
    <3>1. /\ status'[r] = status[r] /\ sub'[r] = sub[r] /\ told'[r] = told[r]
          /\ items'[r] = items[r] /\ itemCount'[r] = itemCount[r] /\ linked'[r] = linked[r] /\ crashes' = crashes
      BY <2>2 DEF Alone
    <3>2. Delivered(r)'
      BY <3>1 DEF Kept, Delivered
    <3>3. \A x \in Workers : Active(x)' /\ job'[x] = r =>
            Active(x) /\ job[x] = r /\ made'[x] = made[x]
      BY <1>3, <1>4, <2>2 DEF Alone
    <3>4. \A x \in Workers : Active(x) /\ job[x] = r => Active(x)' /\ job'[x] = r
      BY <1>2, <2>2 DEF Alone
    <3>5. Spent(r)'
      BY <3>1, <3>3, <3>4 DEF Kept, Spent, Wasted
    <3>. QED BY <3>2, <3>5
  <2>. QED BY <2>1, <2>2
<1>. QED BY <1>5, <1>6, <1>7, <1>8, <1>9 DEF Kept

LEMMA TriageDelivers ==
  ASSUME Kept, NEW w \in Workers, TriageStep(w), NEW r, r = job[w]
  PROVE  Kept'
<1>1. Active(w)
  BY DEF TriageStep, EnsureInProgress, Review, DecomposeRequest, Escalate, Mark, Tell, Close,
         Active, Triage
<1>2. r \in FeatureRequests /\ r \in Tasks /\ status[r] \in {"in_progress", "abandoned"}
  BY <1>1, RequestsAssumption DEF Kept, Staffed, Holding
<1>3. Columns /\ Counted(w) /\ Spent(r) /\ Delivered(r) /\ Sole
  BY <1>2 DEF Kept
<1>4. /\ Longest(r) \in Nat /\ Longest(r) # 0 /\ Wasted(r) \in Nat
      /\ Longest(r) * (1 + crashes) = Wasted(r) + Longest(r)
  BY <1>2, <1>3, Amounts
<1>5. items[r] <= Wasted(r) + made[w] /\ items[r] <= Longest(r) * (1 + crashes)
  BY <1>1, <1>3 DEF Spent
<1>6. \A x \in Workers : Active(x) /\ job[x] = r => x = w
  BY <1>1, <1>3 DEF Sole
<1>7. ASSUME UNCHANGED <<status, items, crashes, job, made>>,
             NEW p \in Triage, pc' = [pc EXCEPT ![w] = p]
      PROVE  Spent(r)' /\ Delivered(r)' /\ pc'[w] = p
  <2>1. pc'[w] = p /\ \A x \in Workers \ {w} : pc'[x] = pc[x]
    BY <1>3, <1>7 DEF Columns
  <2>2. \A x \in Workers : Active(x)' <=> Active(x)
    BY <1>1, <2>1 DEF Active
  <2>3. Spent(r)'
    BY <1>3, <1>7, <2>2 DEF Spent, Wasted
  <2>. QED BY <1>2, <1>7, <2>1, <2>3 DEF Delivered
<1>8. /\ "review" \in Triage /\ "decompose" \in Triage /\ "mark" \in Triage /\ "tell" \in Triage
      /\ "close" \in Triage /\ "escalate" \in Triage
  BY DEF Triage
<1>10. CASE EnsureInProgress(w)
  <2>1. /\ pc[w] = "pick up" /\ pc' = [pc EXCEPT ![w] = "review"] /\ status' = status
        /\ UNCHANGED <<job, verdict, due, made, sub, told, items, itemCount, linked, crashes>>
    BY <1>2, <1>10 DEF EnsureInProgress, MovesFrom, Goto, requestVars, triageVars
  <2>2. /\ Columns' /\ Alone(w) /\ pc'[w] = "review"
    BY <1>3, <2>1 DEF Columns, Alone, Steps
  <2>3. Counted(w)'
    BY <1>3, <2>1, <2>2 DEF Counted, Enqueued, Decided
  <2>4. Spent(r)' /\ Delivered(r)'
    BY <1>7, <1>8, <2>1
  <2>. QED BY <1>1, <1>2, <1>8, <2>1, <2>2, <2>3, <2>4, TriageFrame
<1>11. CASE Review(w)
  <2>1. PICK v \in Lens[r], own \in 0..OwnItems[r] :
          /\ verdict' = [verdict EXCEPT ![w] = v]
          /\ due' = [due EXCEPT ![w] = IF v = "accepted" THEN ItemsForAccept(own, r) ELSE 0]
          /\ pc' = [pc EXCEPT ![w] = AfterVerdict[v]]
    BY <1>11 DEF Review, Goto
  <2>a. ItemsForAccept(own, r) \in 1..Longest(r)
    BY <1>2, <1>4, RequestsAssumption DEF ItemsForAccept, Longest
  <2>b. PICK n \in Nat : /\ due' = [due EXCEPT ![w] = n]
                         /\ IF v = "accepted" THEN n \in 1..Longest(r) ELSE n = 0
    <3>1. CASE v = "accepted"
      <4>1. ItemsForAccept(own, r) \in Nat
        BY <1>4, <2>a
      <4>. QED BY <2>1, <2>a, <3>1, <4>1
    <3>2. CASE v # "accepted"
      BY <2>1, <3>2
    <3>. QED BY <3>1, <3>2
  <2>2. /\ pc[w] = "review" /\ sub' = [sub EXCEPT ![r] = "under_review"]
        /\ told' = [told EXCEPT ![r] = @ \cup {"under_review"}]
        /\ UNCHANGED <<status, job, made, items, itemCount, linked, crashes>>
    BY <1>11 DEF Review, SetRequestStatus, boardVars
  <2>3. v \in Outcomes
    BY <1>2, RequestsAssumption DEF Outcomes
  <2>4. /\ AfterVerdict[v] \in {"decompose", "mark", "escalate"}
        /\ AfterVerdict[v] = "decompose" => v = "accepted"
        /\ AfterVerdict[v] # "decompose" => v # "accepted"
    BY <2>3 DEF AfterVerdict, Outcomes
  <2>5. /\ pc'[w] = AfterVerdict[v] /\ verdict'[w] = v /\ due'[w] = n
        /\ Spent(r)' /\ Delivered(r)'
    BY <1>3, <1>7, <1>8, <2>1, <2>2, <2>4, <2>b DEF Columns
  <2>c. /\ pc' \in [Workers -> Steps] /\ verdict' \in [Workers -> Outcomes \cup {"none"}]
        /\ due' \in [Workers -> Nat]
        /\ \A x \in Workers \ {w} : pc'[x] = pc[x] /\ verdict'[x] = verdict[x] /\ due'[x] = due[x]
    BY <1>3, <2>1, <2>3, <2>4, <2>b DEF Columns, Steps
  <2>d. sub' \in [FeatureRequests -> SubStatuses] /\ told' \in [FeatureRequests -> SUBSET SubStatuses]
    BY <1>2, <1>3, <2>2 DEF Columns, SubStatuses
  <2>6. Columns' /\ Alone(w)
    BY <1>2, <1>3, <2>2, <2>c, <2>d DEF Columns, Alone
  <2>7. made[w] = 0 /\ items[r] \in Nat
    BY <1>2, <1>3, <2>2 DEF Counted, Enqueued, Columns
  <2>8. Counted(w)'
    <3>1. job'[w] = r /\ made'[w] = 0 /\ items'[r] = items[r]
      BY <2>2, <2>7
    <3>2. verdict'[w] = "accepted" => pc'[w] = "decompose" /\ due'[w] \in 1..Longest(r)
      BY <2>3, <2>4, <2>5, <2>b DEF AfterVerdict
    <3>3. verdict'[w] # "accepted" => pc'[w] \in {"mark", "escalate"} /\ due'[w] = 0
      BY <2>4, <2>5, <2>b
    <3>. QED BY <1>4, <2>3, <2>5, <2>7, <3>1, <3>2, <3>3 DEF Counted, Enqueued, Decided
  <2>. QED BY <1>1, <1>2, <1>8, <2>2, <2>4, <2>5, <2>6, <2>8, TriageFrame
<1>12. CASE DecomposeRequest(w)
  <2>1. /\ pc[w] = "decompose" /\ made' = [made EXCEPT ![w] = @ + 1]
        /\ items' = [items EXCEPT ![r] = @ + 1]
        /\ itemCount' = [itemCount EXCEPT ![r] = due[w]]
        /\ pc' = [pc EXCEPT ![w] = IF made[w] + 1 < due[w] THEN "decompose" ELSE "mark"]
        /\ UNCHANGED <<status, job, verdict, due, sub, told, linked, crashes>>
    BY <1>12 DEF DecomposeRequest, Goto, boardVars
  <2>0. \/ made[w] + 1 < due[w] /\ pc' = [pc EXCEPT ![w] = "decompose"]
        \/ ~(made[w] + 1 < due[w]) /\ pc' = [pc EXCEPT ![w] = "mark"]
    BY <2>1
  <2>a. made' \in [Workers -> Nat] /\ items' \in [FeatureRequests -> Nat]
    <3>1. made \in [Workers -> Nat] /\ items \in [FeatureRequests -> Nat]
      BY <1>3 DEF Columns
    <3>2. made[w] + 1 \in Nat /\ items[r] + 1 \in Nat
      BY <1>2, <3>1
    <3>3. made' = [made EXCEPT ![w] = made[w] + 1] /\ items' = [items EXCEPT ![r] = items[r] + 1]
      BY <2>1
    <3>. QED BY <3>1, <3>2, <3>3
  <2>b. /\ pc' \in [Workers -> Steps]
        /\ pc'[w] = IF made[w] + 1 < due[w] THEN "decompose" ELSE "mark"
        /\ \A x \in Workers \ {w} : pc'[x] = pc[x]
    BY <1>3, <2>0 DEF Columns, Steps
  <2>c. Columns'
    BY <1>2, <1>3, <2>1, <2>a, <2>b DEF Columns
  <2>d. made'[w] = made[w] + 1 /\ items'[r] = items[r] + 1 /\ itemCount'[r] = due[w]
    BY <1>2, <1>3, <2>1 DEF Columns
  <2>e. Alone(w)
    BY <1>3, <2>1, <2>b DEF Columns, Alone
  <2>2. /\ Columns' /\ Alone(w) /\ made'[w] = made[w] + 1 /\ items'[r] = items[r] + 1
        /\ itemCount'[r] = due[w]
        /\ pc'[w] = IF made[w] + 1 < due[w] THEN "decompose" ELSE "mark"
    BY <2>b, <2>c, <2>d, <2>e
  <2>3. /\ made[w] \in Nat /\ items[r] \in Nat /\ due[w] \in 1..Longest(r)
        /\ made[w] < due[w] /\ made[w] <= items[r] /\ verdict[w] = "accepted"
    BY <1>2, <1>3, <2>1 DEF Columns, Counted, Enqueued, Decided
  <2>4. Counted(w)'
    <3>1. job'[w] = r /\ verdict'[w] = "accepted" /\ due'[w] = due[w]
      BY <2>1, <2>3
    <3>2. pc'[w] \in {"decompose", "mark"} /\ made'[w] <= items'[r] /\ itemCount'[r] = due[w]
      BY <1>4, <2>2, <2>3
    <3>3. pc'[w] = "decompose" => made'[w] < due[w]
      BY <2>2
    <3>4. pc'[w] = "mark" => made'[w] = due[w]
      BY <1>4, <2>2, <2>3
    <3>. QED BY <2>3, <3>1, <3>2, <3>3, <3>4 DEF Counted, Outcomes, Enqueued, Decided
  <2>5. \A x \in Workers : Active(x)' <=> Active(x)
    BY <1>1, <2>2 DEF Alone, Active, Triage
  <2>6. items'[r] <= Wasted(r) + made'[w] /\ items'[r] <= Longest(r) * (1 + crashes)
    BY <1>4, <1>5, <2>2, <2>3
  <2>7. Spent(r)' /\ Delivered(r)'
    BY <1>1, <1>2, <1>6, <2>1, <2>5, <2>6 DEF Spent, Wasted, Delivered
  <2>. QED BY <1>1, <1>2, <1>8, <2>1, <2>2, <2>4, <2>7, TriageFrame
<1>13. CASE Escalate(w)
  <2>1. /\ pc[w] = "escalate" /\ pc' = [pc EXCEPT ![w] = "mark"]
        /\ UNCHANGED <<status, job, verdict, due, made, sub, told, items, itemCount, linked, crashes>>
    BY <1>13 DEF Escalate, RequestApproval, Goto, requestVars, triageVars, boardVars
  <2>2. /\ Columns' /\ Alone(w) /\ pc'[w] = "mark"
    BY <1>3, <2>1 DEF Columns, Alone, Steps
  <2>3. Counted(w)'
    BY <1>2, <1>3, <1>4, <2>1, <2>2 DEF Counted, Enqueued, Columns, Decided
  <2>4. Spent(r)' /\ Delivered(r)'
    BY <1>7, <1>8, <2>1
  <2>. QED BY <1>1, <1>2, <1>8, <2>1, <2>2, <2>3, <2>4, TriageFrame
<1>14. CASE Mark(w)
  <2>1. /\ pc[w] = "mark" /\ pc' = [pc EXCEPT ![w] = "tell"]
        /\ sub' = [sub EXCEPT ![r] = verdict[w]]
        /\ linked' = IF verdict[w] = "accepted" THEN [linked EXCEPT ![r] = made[w]] ELSE linked
        /\ UNCHANGED <<status, job, verdict, due, made, told, items, itemCount, crashes>>
    BY <1>14 DEF Mark, Goto, SetRequestStatus, boardVars, triageVars
  <2>0. verdict[w] \in SubStatuses
    BY <1>3, <2>1 DEF Counted, Decided, SubStatuses
  <2>2. /\ Columns' /\ Alone(w) /\ pc'[w] = "tell" /\ sub'[r] = verdict[w]
        /\ verdict[w] = "accepted" => linked'[r] = made[w]
    BY <1>2, <1>3, <2>0, <2>1 DEF Columns, Alone, Steps
  <2>3. Counted(w)'
    BY <1>2, <1>3, <1>4, <2>1, <2>2 DEF Counted, Enqueued, Decided
  <2>4. Spent(r)' /\ Delivered(r)'
    BY <1>7, <1>8, <2>1
  <2>. QED BY <1>1, <1>2, <1>8, <2>1, <2>2, <2>3, <2>4, TriageFrame
<1>15. CASE Tell(w)
  <2>1. /\ pc[w] = "tell" /\ pc' = [pc EXCEPT ![w] = "close"]
        /\ told' = [told EXCEPT ![r] = @ \cup {verdict[w]}]
        /\ UNCHANGED <<status, job, verdict, due, made, sub, items, itemCount, linked, crashes>>
    BY <1>15 DEF Tell, Goto, boardVars, triageVars
  <2>0. verdict[w] \in SubStatuses
    BY <1>2, <1>3, <2>1 DEF Counted, Columns
  <2>2. /\ Columns' /\ Alone(w) /\ pc'[w] = "close" /\ verdict[w] \in told'[r]
    BY <1>2, <1>3, <2>0, <2>1 DEF Columns, Alone, Steps
  <2>3. Counted(w)'
    BY <1>2, <1>3, <1>4, <2>1, <2>2 DEF Counted, Enqueued, Decided
  <2>4. Spent(r)' /\ Delivered(r)'
    BY <1>7, <1>8, <2>1
  <2>. QED BY <1>1, <1>2, <1>8, <2>1, <2>2, <2>3, <2>4, TriageFrame
<1>16. CASE Close(w)
  <2>1. /\ pc[w] = "close" /\ pc' = [pc EXCEPT ![w] = "idle"] /\ job' = [job EXCEPT ![w] = NoTask]
        /\ verdict' = [verdict EXCEPT ![w] = "none"] /\ due' = [due EXCEPT ![w] = 0] /\ made' = [made EXCEPT ![w] = 0]
        /\ UNCHANGED <<sub, told, items, itemCount, linked, crashes>>
    BY <1>16 DEF Close, Leave, Goto, Forget, requestVars
  <2>2. verdict[w] \in Outcomes
    BY <1>3, <2>1 DEF Counted, Decided
  <2>3. \/ status' = status /\ status[r] = "abandoned"
        \/ \E s \in {"merged", "abandoned", "up_for_grabs", "blocked"} :
             /\ status[r] = "in_progress" /\ status' = [status EXCEPT ![r] = s]
             /\ s = "merged" => verdict[w] = "accepted"
             /\ s \notin Over => verdict[w] # "accepted"
    <3>1. CASE verdict[w] = "escalated"
      BY <1>2, <1>16, <3>1 DEF Close, ParkOn, MovesFrom
    <3>2. CASE verdict[w] \in {"accepted", "declined", "needs_clarification"}
      BY <1>2, <1>16, <3>2 DEF Close, MovesFrom, Over
    <3>. QED BY <2>2, <3>1, <3>2 DEF Outcomes
  <2>4. /\ status' \in [Tasks -> Statuses]
        /\ \A u \in Tasks \ {r} : status'[u] = status[u]
        /\ status'[r] = "merged" => verdict[w] = "accepted"
        /\ status'[r] \notin Over => verdict[w] # "accepted"
    <3>1. status \in [Tasks -> Statuses]
      BY <1>3 DEF Columns
    <3>. QED BY <1>2, <2>3, <3>1 DEF Statuses, Over
  <2>5. Columns' /\ Alone(w) /\ pc'[w] = "idle" /\ made'[w] = 0
    BY <1>3, <2>1, <2>4, RequestsAssumption DEF Columns, Alone, Steps
  <2>6. Counted(w)'
    BY <2>5 DEF Counted, Enqueued, Decided
  <2>7. Delivered(r)'
    <3>1. verdict[w] = "accepted" =>
            /\ made[w] = due[w] /\ itemCount[r] = due[w] /\ sub[r] = "accepted"
            /\ linked[r] = made[w] /\ "accepted" \in told[r] /\ made[w] <= items[r]
            /\ due[w] \in 1..Longest(r) /\ items[r] \in Nat
      BY <1>2, <1>3, <2>1 DEF Counted, Enqueued, Decided, Columns
    <3>. QED BY <1>2, <1>3, <2>1, <2>4, <3>1 DEF Delivered, Columns
  <2>8. Spent(r)'
    <3>1. verdict[w] # "accepted" => made[w] = 0
      BY <1>3, <2>1 DEF Counted, Decided
    <3>2. items[r] \in Nat
      BY <1>2, <1>3 DEF Columns
    <3>3. \A x \in Workers : ~(Active(x)' /\ job'[x] = r)
      BY <1>6, <2>5 DEF Alone, Active, Triage
    <3>4. status'[r] \notin Over => items[r] <= Wasted(r)
      BY <1>4, <1>5, <2>4, <3>1, <3>2
    <3>. QED BY <1>5, <2>1, <3>3, <3>4 DEF Spent, Wasted
  <2>. QED BY <1>1, <2>5, <2>6, <2>7, <2>8, TriageFrame
<1>. QED BY <1>10, <1>11, <1>12, <1>13, <1>14, <1>15, <1>16 DEF TriageStep

\* A step that leaves every triage alone: it may only deny its request's task.
Aside ==
  /\ UNCHANGED <<sub, told, items, itemCount, linked, verdict, due, made, crashes>>
  /\ \A x \in Workers : /\ Active(x)' <=> Active(x)
                        /\ Active(x) => pc'[x] = pc[x] /\ job'[x] = job[x]
  /\ \A r \in FeatureRequests :
       \/ status'[r] = status[r]
       \/ status'[r] = "abandoned"
       \/ /\ status'[r] = "up_for_grabs" /\ status[r] \notin Over
          /\ ~\E w \in Workers : Active(w) /\ job[w] = r

LEMMA AsideKeeps ==
  ASSUME Kept, Aside, Columns', Staffed'
  PROVE  Kept'
<1>1. Sole'
  BY DEF Kept, Sole, Aside
<1>2. Holding'
  <2>1. ASSUME NEW w \in Workers, Active(w)' PROVE status'[job'[w]] \in {"in_progress", "abandoned"}
    <3>1. Active(w) /\ job'[w] = job[w] /\ job[w] \in FeatureRequests
      BY <2>1 DEF Aside, Kept, Staffed
    <3>2. status[job[w]] \in {"in_progress", "abandoned"}
      BY <3>1 DEF Kept, Holding
    <3>. QED BY <3>1, <3>2 DEF Aside
  <2>. QED BY <2>1 DEF Holding
<1>3. ASSUME NEW x \in Workers PROVE Counted(x)'
  <2>0. Counted(x)
    BY DEF Kept
  <2>1. CASE Active(x)
    <3>1. pc'[x] = pc[x] /\ job'[x] = job[x]
          /\ UNCHANGED <<sub, told, items, itemCount, linked, verdict, due, made>>
      BY <2>1 DEF Aside
    <3>. QED BY <2>0, <3>1 DEF Counted
  <2>2. CASE ~Active(x)
    <3>1. pc[x] \notin Triage /\ pc'[x] \notin Triage /\ made' = made
      BY <2>2 DEF Aside, Active
    <3>. QED BY <2>0, <3>1 DEF Counted, Triage, Enqueued, Decided
  <2>. QED BY <2>1, <2>2
<1>4. ASSUME NEW r \in FeatureRequests PROVE Spent(r)' /\ Delivered(r)'
  <2>1. /\ \A x \in Workers : Active(x)' /\ job'[x] = r <=> Active(x) /\ job[x] = r
        /\ UNCHANGED <<items, made, crashes, sub, told, itemCount, linked>>
    BY DEF Aside
  <2>2. status'[r] \notin Over => status[r] \notin Over
    BY DEF Aside, Over
  <2>3. Spent(r)'
    BY <2>1, <2>2 DEF Kept, Spent, Wasted
  <2>4. status'[r] = "merged" => status[r] = "merged"
    BY DEF Aside
  <2>5. Delivered(r)'
    BY <2>1, <2>4 DEF Kept, Delivered
  <2>. QED BY <2>3, <2>5
<1>. QED BY <1>1, <1>2, <1>3, <1>4 DEF Kept

\* A guarded hop.
LEMMA Hop ==
  ASSUME Columns, NEW t, NEW from, NEW to \in Statuses, MovesFrom(t, from, to)
  PROVE  /\ status' \in [Tasks -> Statuses]
         /\ \A u \in Tasks : status'[u] = IF u = t /\ status[t] = from THEN to ELSE status[u]
BY DEF Columns, MovesFrom

\* The end of a pass that is no triage.
LEMMA Ends ==
  ASSUME Kept, NEW w \in Workers, ~Active(w), Leave(w),
         UNCHANGED <<requestVars, triageVars, crashes>>
  PROVE  /\ status' \in [Tasks -> Statuses] => Columns'
         /\ Staffed'
         /\ \A x \in Workers : /\ Active(x)' <=> Active(x)
                               /\ Active(x) => pc'[x] = pc[x] /\ job'[x] = job[x]
<1>1. /\ pc' = [pc EXCEPT ![w] = "idle"] /\ job' = [job EXCEPT ![w] = NoTask]
      /\ pc \in [Workers -> Steps] /\ job \in [Workers -> Tasks \cup {NoTask}]
  BY DEF Leave, Goto, Kept, Columns
<1>2. /\ pc'[w] = "idle" /\ \A x \in Workers \ {w} : pc'[x] = pc[x] /\ job'[x] = job[x]
      /\ pc' \in [Workers -> Steps] /\ job' \in [Workers -> Tasks \cup {NoTask}]
  BY <1>1 DEF Steps
<1>3. status' \in [Tasks -> Statuses] => Columns'
  BY <1>2 DEF Kept, Columns, requestVars, triageVars
<1>4. \A x \in Workers : /\ Active(x)' <=> Active(x)
                         /\ Active(x) => pc'[x] = pc[x] /\ job'[x] = job[x]
  BY <1>2 DEF Active, Triage
<1>5. Staffed'
  BY <1>2, <1>4 DEF Kept, Staffed
<1>. QED BY <1>3, <1>4, <1>5

LEMMA DecisionAside ==
  ASSUME Kept, NEW w \in Workers, DecisionStep(w), UNCHANGED <<requestVars, triageVars>>
  PROVE  Kept'
<1>1. ~Active(w)
  BY DEF DecisionStep, RequestDecision, SpendGrant, PendCall, BlockTask, Complete, Requeue, Deny,
         Active, Triage
<1>2. Columns /\ Staffed
  BY DEF Kept
<1>3. FeatureRequests \subseteq Tasks /\ FeatureRequests \cap (Askers \cup Gated) = {}
  BY RequestsAssumption
<1>10. CASE RequestDecision(w) \/ BlockTask(w)
  <2>1. PICK what : ParkOn(job[w], what) /\ Leave(w) /\ UNCHANGED crashes
    BY <1>10 DEF RequestDecision, BlockTask
  <2>2. job[w] \notin FeatureRequests
    BY <1>2, <1>3, <1>10 DEF RequestDecision, BlockTask, Staffed
  <2>3. /\ status' \in [Tasks -> Statuses]
        /\ \A u \in Tasks : u # job[w] => status'[u] = status[u]
    BY <1>2, <2>1, Hop DEF ParkOn, Statuses
  <2>. QED BY <1>1, <1>3, <2>1, <2>2, <2>3, Ends, AsideKeeps DEF Aside, requestVars, triageVars
<1>11. CASE SpendGrant(w)
  <2>1. UNCHANGED <<status, pc, job, crashes, requestVars, triageVars>>
    BY <1>11 DEF SpendGrant, boardVars, passVars
  <2>. QED BY <2>1, <1>2, AsideKeeps DEF Aside, requestVars, triageVars, Columns, Staffed, Active
<1>12. CASE PendCall(w)
  <2>1. /\ pc[w] = "run" /\ pc' = [pc EXCEPT ![w] = "park"]
        /\ UNCHANGED <<status, job, crashes, requestVars, triageVars>>
    BY <1>12 DEF PendCall, RequestApproval, Goto, boardVars
  <2>2. pc' \in [Workers -> Steps] /\ pc'[w] = "park" /\ \A x \in Workers \ {w} : pc'[x] = pc[x]
    BY <1>2, <2>1 DEF Columns, Steps
  <2>3. Columns'
    BY <1>2, <2>1, <2>2 DEF Columns, requestVars, triageVars
  <2>4. \A x \in Workers : /\ Active(x)' <=> Active(x)
                           /\ Active(x) => pc'[x] = pc[x] /\ job'[x] = job[x]
    BY <1>1, <2>1, <2>2 DEF Active, Triage
  <2>5. Staffed'
    BY <1>2, <2>1, <2>2, <2>4 DEF Staffed
  <2>. QED BY <2>1, <2>3, <2>4, <2>5, AsideKeeps DEF Aside, requestVars, triageVars
<1>13. CASE Complete(w)
  <2>1. MovesFrom(job[w], "in_progress", "merged") /\ Leave(w) /\ UNCHANGED crashes
    BY <1>13 DEF Complete
  <2>2. job[w] \notin FeatureRequests
    BY <1>2, <1>13 DEF Complete, Staffed
  <2>3. /\ status' \in [Tasks -> Statuses]
        /\ \A u \in Tasks : u # job[w] => status'[u] = status[u]
    BY <1>2, <2>1, Hop DEF Statuses
  <2>. QED BY <1>1, <1>3, <2>1, <2>2, <2>3, Ends, AsideKeeps DEF Aside, requestVars, triageVars
<1>14. CASE Requeue(w)
  <2>1. MovesFrom(job[w], "blocked", "up_for_grabs") /\ Leave(w) /\ UNCHANGED crashes
    BY <1>14 DEF Requeue
  <2>2. /\ status' \in [Tasks -> Statuses]
        /\ \A u \in Tasks : \/ status'[u] = status[u]
                            \/ status[u] = "blocked" /\ status'[u] = "up_for_grabs"
    BY <1>2, <2>1, Hop DEF Statuses
  <2>3. \A u \in FeatureRequests : status[u] = "blocked" =>
          status[u] \notin Over /\ ~\E x \in Workers : Active(x) /\ job[x] = u
    BY DEF Kept, Holding, Over
  <2>. QED BY <1>1, <1>3, <2>1, <2>2, <2>3, Ends, AsideKeeps DEF Aside, requestVars, triageVars
<1>15. CASE Deny(w)
  <2>1. status' = [status EXCEPT ![job[w]] = "abandoned"] /\ Leave(w) /\ UNCHANGED crashes
    BY <1>15 DEF Deny
  <2>2. /\ status' \in [Tasks -> Statuses]
        /\ \A u \in Tasks : status'[u] = status[u] \/ status'[u] = "abandoned"
    BY <1>2, <2>1 DEF Columns, Statuses
  <2>. QED BY <1>1, <1>3, <2>1, <2>2, Ends, AsideKeeps DEF Aside, requestVars, triageVars
<1>. QED BY <1>10, <1>11, <1>12, <1>13, <1>14, <1>15 DEF DecisionStep

LEMMA OtherAside ==
  ASSUME Kept, RequestsAttended, OtherStep
  PROVE  Kept'
<1>0. UNCHANGED <<requestVars, triageVars>> /\ Columns /\ FeatureRequests \subseteq Tasks
  BY RequestsAssumption DEF OtherStep, Kept
<1>1. ASSUME NEW w \in Workers, DecisionStep(w) PROVE Kept'
  BY <1>0, <1>1, DecisionAside
<1>2. ASSUME NEW w \in Workers, NEW t \in Tasks, ReadParked(w, t) PROVE Kept'
  <2>1. PICK p \in {"requeue", "deny"} : pc' = [pc EXCEPT ![w] = p]
    <3>1. PICK s \in {"approved", "denied"} : pc' = [pc EXCEPT ![w] = Verdict[s]]
      BY <1>2 DEF ReadParked, Verdict, Goto
    <3>2. Verdict[s] \in {"requeue", "deny"}
      BY DEF Verdict
    <3>. QED BY <3>1, <3>2
  <2>2. /\ pc[w] = "idle" /\ job' = [job EXCEPT ![w] = t] /\ UNCHANGED <<status, crashes>>
    BY <1>2 DEF ReadParked, boardVars
  <2>3. /\ pc' \in [Workers -> Steps] /\ job' \in [Workers -> Tasks \cup {NoTask}] /\ pc'[w] = p
        /\ \A x \in Workers \ {w} : pc'[x] = pc[x] /\ job'[x] = job[x]
    BY <1>0, <2>1, <2>2 DEF Columns, Steps
  <2>4. Columns'
    BY <1>0, <2>2, <2>3 DEF Columns, requestVars, triageVars
  <2>5. \A x \in Workers : /\ Active(x)' <=> Active(x)
                           /\ Active(x) => pc'[x] = pc[x] /\ job'[x] = job[x]
    BY <2>2, <2>3 DEF Active, Triage
  <2>6. Staffed'
    BY <2>3, <2>5 DEF Kept, Staffed
  <2>. QED BY <1>0, <2>2, <2>4, <2>5, <2>6, AsideKeeps DEF Aside, requestVars, triageVars
<1>3. ASSUME UNCHANGED <<pc, job, crashes>>, status' \in [Tasks -> Statuses],
             \A u \in FeatureRequests :
               \/ status'[u] = status[u]
               \/ status'[u] = "abandoned"
               \/ /\ status'[u] = "up_for_grabs" /\ status[u] \notin Over
                  /\ ~\E w \in Workers : Active(w) /\ job[w] = u
      PROVE  Kept'
  <2>1. Columns' /\ Staffed'
    BY <1>0, <1>3 DEF Kept, Columns, Staffed, Active, requestVars, triageVars
  <2>. QED BY <1>0, <1>3, <2>1, AsideKeeps DEF Aside, Active, requestVars, triageVars
<1>4. ASSUME NEW d \in QIds, AnswerDecision(d) \/ WithdrawDecision(d) PROVE Kept'
  <2>1. /\ MovesFrom(question[d].task, "blocked", "up_for_grabs")
        /\ UNCHANGED <<pc, job, crashes>>
    BY <1>4 DEF AnswerDecision, WithdrawDecision, Settle, passVars
  <2>2. /\ status' \in [Tasks -> Statuses]
        /\ \A u \in Tasks : \/ status'[u] = status[u]
                            \/ status[u] = "blocked" /\ status'[u] = "up_for_grabs"
    BY <1>0, <2>1, Hop DEF Statuses
  <2>3. \A u \in FeatureRequests : status[u] = "blocked" =>
          status[u] \notin Over /\ ~\E x \in Workers : Active(x) /\ job[x] = u
    BY DEF Kept, Holding, Over
  <2>. QED BY <1>0, <1>3, <2>1, <2>2, <2>3
<1>5. ASSUME NEW i \in Ids, Resolve(i) PROVE Kept'
  BY <1>0, <1>3, <1>5 DEF Resolve, boardVars, passVars, Columns
<1>6. ASSUME NEW t \in Tasks, Rekick(t) \/ GiveUp(t) PROVE Kept'
  <2>1. /\ status[t] = "in_progress" /\ (t \in Quiet \/ ~Attended(t)) /\ UNCHANGED <<pc, job, crashes>>
        /\ \/ status' = [status EXCEPT ![t] = "up_for_grabs"]
           \/ status' = [status EXCEPT ![t] = "abandoned"]
    BY <1>6 DEF Rekick, GiveUp, passVars
  <2>2. /\ status' \in [Tasks -> Statuses]
        /\ \A u \in Tasks : IF u = t THEN status'[u] \in {"up_for_grabs", "abandoned"}
                                     ELSE status'[u] = status[u]
    BY <1>0, <2>1 DEF Columns, Statuses
  <2>3. t \in FeatureRequests => ~\E x \in Workers : Active(x) /\ job[x] = t
    BY <2>1 DEF Attended, Active, Triage, RequestsAttended
  <2>. QED BY <1>0, <1>3, <2>1, <2>2, <2>3 DEF Over
<1>. QED BY <1>1, <1>2, <1>4, <1>5, <1>6 DEF OtherStep

\* A pass begins, over a task nobody holds.
LEMMA GrabDelivers ==
  ASSUME Kept, NEW w \in Workers, NEW t \in Tasks, Grab(w, t)
  PROVE  Kept'
<1>1. /\ pc[w] = "idle" /\ status[t] = "up_for_grabs"
      /\ status' = [status EXCEPT ![t] = "in_progress"]
      /\ pc' = [pc EXCEPT ![w] = FirstStep(t)] /\ job' = [job EXCEPT ![w] = t]
      /\ UNCHANGED <<crashes, sub, told, items, itemCount, linked, verdict, due, made>>
  BY DEF Grab, Take, Goto, requestVars, triageVars
<1>2. FirstStep(t) \in {"pick up", "run"} /\ (FirstStep(t) = "pick up" <=> t \in FeatureRequests)
  BY DEF FirstStep
<1>3. Columns /\ Staffed /\ FeatureRequests \subseteq Tasks
  BY RequestsAssumption DEF Kept
<1>4. /\ status' \in [Tasks -> Statuses] /\ status'[t] = "in_progress"
      /\ \A u \in Tasks \ {t} : status'[u] = status[u]
      /\ pc' \in [Workers -> Steps] /\ pc'[w] = FirstStep(t)
      /\ job' \in [Workers -> Tasks \cup {NoTask}] /\ job'[w] = t
      /\ \A x \in Workers \ {w} : pc'[x] = pc[x] /\ job'[x] = job[x]
  BY <1>1, <1>2, <1>3 DEF Columns, Statuses, Steps
<1>5. Columns'
  BY <1>1, <1>3, <1>4 DEF Columns
<1>6. /\ \A x \in Workers \ {w} : Active(x)' <=> Active(x)
      /\ ~Active(w) /\ (Active(w)' <=> t \in FeatureRequests)
  BY <1>1, <1>2, <1>4 DEF Active, Triage
<1>7. \A x \in Workers : Active(x) => job[x] # t
  BY <1>1 DEF Kept, Holding
<1>8. Staffed'
  BY <1>2, <1>3, <1>4, <1>6 DEF Staffed
<1>9. Sole'
  BY <1>4, <1>6, <1>7 DEF Kept, Sole
<1>10. Holding'
  <2>1. ASSUME NEW x \in Workers \ {w}, Active(x)
        PROVE  status'[job'[x]] \in {"in_progress", "abandoned"}
    <3>1. job'[x] = job[x] /\ job[x] \in Tasks \ {t}
      BY <1>3, <1>4, <1>7, <2>1 DEF Staffed
    <3>. QED BY <1>4, <2>1, <3>1 DEF Kept, Holding
  <2>. QED BY <1>4, <1>6, <2>1 DEF Holding
<1>11. ASSUME NEW x \in Workers PROVE Counted(x)'
  <2>1. CASE x # w
    <3>1. pc'[x] = pc[x] /\ job'[x] = job[x] /\ Counted(x)
      BY <1>4, <2>1 DEF Kept
    <3>. QED BY <1>1, <3>1 DEF Counted
  <2>2. CASE x = w
    <3>1. made[w] = 0
      BY <1>1 DEF Kept, Counted, Enqueued
    <3>. QED BY <1>1, <1>2, <1>4, <2>2, <3>1 DEF Counted, Enqueued, Decided
  <2>. QED BY <2>1, <2>2
<1>12. ASSUME NEW r \in FeatureRequests PROVE Spent(r)' /\ Delivered(r)'
  <2>0. Spent(r) /\ Delivered(r)
    BY DEF Kept
  <2>1. CASE r # t
    <3>1. /\ \A x \in Workers : Active(x)' /\ job'[x] = r <=> Active(x) /\ job[x] = r
          /\ status'[r] = status[r]
      BY <1>1, <1>3, <1>4, <1>6, <2>1
    <3>. QED BY <1>1, <2>0, <3>1 DEF Spent, Delivered, Wasted
  <2>2. CASE r = t
    <3>1. items[r] <= Wasted(r)
      BY <1>1, <1>7, <2>0, <2>2 DEF Spent, Over
    <3>2. \A x \in Workers : Active(x)' /\ job'[x] = r => x = w
      BY <1>4, <1>6, <1>7, <2>2
    <3>3. made[w] = 0 /\ Active(w)' /\ job'[w] = r
      BY <1>1, <1>4, <1>6, <2>2 DEF Kept, Counted, Enqueued
    <3>4. Wasted(r) \in Nat /\ items[r] \in Nat
      BY <1>3, Amounts DEF Columns
    <3>5. items[r] <= Wasted(r) + made[w]
      BY <3>1, <3>3, <3>4
    <3>6. Spent(r)'
      BY <1>1, <2>0, <3>2, <3>3, <3>5 DEF Spent, Wasted
    <3>. QED BY <1>4, <2>2, <3>6 DEF Delivered
  <2>. QED BY <2>1, <2>2
<1>. QED BY <1>5, <1>8, <1>9, <1>10, <1>11, <1>12 DEF Kept

\* A pass that dies leaves the items it has enqueued behind.
LEMMA DeathDelivers ==
  ASSUME Kept, NEW w \in Workers, Die(w), Forget(w), UNCHANGED requestVars
  PROVE  Kept'
<1>1. /\ pc' = [pc EXCEPT ![w] = "idle"] /\ job' = [job EXCEPT ![w] = NoTask]
      /\ verdict' = [verdict EXCEPT ![w] = "none"] /\ due' = [due EXCEPT ![w] = 0] /\ made' = [made EXCEPT ![w] = 0]
      /\ UNCHANGED <<status, sub, told, items, itemCount, linked>> /\ crashes' = crashes + 1
  BY DEF Die, Leave, Goto, Forget, requestVars, boardVars
<1>2. Columns /\ Staffed /\ Sole /\ Holding
  BY DEF Kept
<1>3. /\ pc' \in [Workers -> Steps] /\ pc'[w] = "idle" /\ job' \in [Workers -> Tasks \cup {NoTask}]
      /\ verdict' \in [Workers -> Outcomes \cup {"none"}] /\ due' \in [Workers -> Nat]
      /\ made' \in [Workers -> Nat] /\ made'[w] = 0 /\ crashes' \in Nat
      /\ \A x \in Workers \ {w} : /\ pc'[x] = pc[x] /\ job'[x] = job[x]
                                  /\ verdict'[x] = verdict[x] /\ due'[x] = due[x]
                                  /\ made'[x] = made[x]
  <2>1. /\ pc \in [Workers -> Steps] /\ job \in [Workers -> Tasks \cup {NoTask}]
        /\ verdict \in [Workers -> Outcomes \cup {"none"}] /\ due \in [Workers -> Nat] /\ made \in [Workers -> Nat]
        /\ crashes \in Nat
    BY <1>2 DEF Columns
  <2>2. crashes' \in Nat
    BY <1>1, <2>1
  <2>3. pc' \in [Workers -> Steps] /\ due' \in [Workers -> Nat] /\ made' \in [Workers -> Nat]
    BY <1>1, <2>1 DEF Steps
  <2>. QED BY <1>1, <2>1, <2>2, <2>3
<1>4. Columns'
  BY <1>1, <1>2, <1>3 DEF Columns
<1>5. ~Active(w)' /\ \A x \in Workers \ {w} : Active(x)' <=> Active(x)
  BY <1>3 DEF Active, Triage
<1>6. Staffed' /\ Sole' /\ Holding'
  BY <1>1, <1>2, <1>3, <1>5 DEF Staffed, Sole, Holding
<1>7. ASSUME NEW x \in Workers PROVE Counted(x)'
  <2>1. CASE x = w
    BY <1>3, <2>1 DEF Counted, Enqueued, Decided
  <2>2. CASE x # w
    <3>1. Counted(x)
      BY DEF Kept
    <3>. QED BY <1>1, <1>3, <2>2, <3>1 DEF Counted
  <2>. QED BY <2>1, <2>2
<1>8. ASSUME NEW r \in FeatureRequests PROVE Spent(r)' /\ Delivered(r)'
  <2>1. Delivered(r)'
    BY <1>1 DEF Kept, Delivered
  <2>2. /\ Wasted(r) \in Nat /\ Longest(r) \in Nat /\ items[r] \in Nat
        /\ Longest(r) * (1 + crashes) = Wasted(r) + Longest(r)
        /\ Longest(r) * (1 + (1 + crashes)) = Wasted(r) + Longest(r) + Longest(r)
    BY <1>2, Amounts DEF Columns
  <2>3. crashes' = 1 + crashes /\ items'[r] = items[r] /\ Longest(r)' = Longest(r)
    BY <1>1, <1>2 DEF Columns
  <2>4. Wasted(r)' = Wasted(r) + Longest(r)
    BY <2>2, <2>3 DEF Wasted
  <2>5. items[r] <= Wasted(r) + Longest(r)
    BY <2>2 DEF Kept, Spent
  <2>6. \A x \in Workers : made'[x] \in Nat
    BY <1>3
  <2>7. \A x \in Workers : items'[r] <= Wasted(r)' + made'[x]
    BY <2>2, <2>3, <2>4, <2>5, <2>6
  <2>8. items'[r] <= Wasted(r)' /\ items'[r] <= Longest(r)' * (1 + crashes')
    BY <2>2, <2>3, <2>4, <2>5
  <2>9. Spent(r)'
    BY <2>7, <2>8 DEF Spent
  <2>. QED BY <2>1, <2>9
<1>. QED BY <1>4, <1>6, <1>7, <1>8 DEF Kept

LEMMA InitDelivers == Init => Kept
<1> SUFFICES ASSUME Init PROVE Kept
  OBVIOUS
<1>1. Columns /\ \A w \in Workers : ~Active(w) /\ pc[w] = "idle"
  BY DEF Init, DecisionsInit, Columns, Active, Triage, Statuses, Steps, SubStatuses
<1>2. \A r \in FeatureRequests : /\ Wasted(r) \in Nat /\ Longest(r) \in Nat
                                 /\ Longest(r) * (1 + crashes) = Wasted(r) + Longest(r)
  BY <1>1, Amounts
<1>3. /\ \A w \in Workers : made[w] = 0
      /\ \A r \in FeatureRequests : items[r] = 0 /\ status[r] = "up_for_grabs"
  BY RequestsAssumption DEF Init, DecisionsInit
<1>4. \A r \in FeatureRequests : Spent(r) /\ Delivered(r)
  BY <1>1, <1>2, <1>3 DEF Spent, Delivered
<1>5. Staffed /\ Sole /\ Holding /\ \A w \in Workers : Counted(w)
  BY <1>1, <1>3 DEF Staffed, Sole, Holding, Counted, Enqueued, Decided
<1>. QED BY <1>1, <1>4, <1>5 DEF Kept

LEMMA NextDelivers ==
  ASSUME Kept, RequestsAttended, [Next]_vars
  PROVE  Kept'
<1>1. ASSUME NEW w \in Workers, TriageStep(w) PROVE Kept'
  BY <1>1, TriageDelivers
<1>2. ASSUME NEW w \in Workers, Die(w), Forget(w), UNCHANGED requestVars PROVE Kept'
  BY <1>2, DeathDelivers
<1>3. ASSUME NEW w \in Workers, NEW t \in Tasks, Grab(w, t) PROVE Kept'
  BY <1>3, GrabDelivers
<1>4. CASE OtherStep
  BY <1>4, OtherAside
<1>5. CASE UNCHANGED vars
  <2>1. UNCHANGED <<status, pc, job, crashes, sub, told, items, itemCount, linked, verdict, due, made>>
    BY <1>5 DEF vars, decisionVars, boardVars, passVars, requestVars, triageVars
  <2>. QED BY <2>1 DEF Kept, Columns, Staffed, Sole, Holding, Counted, Spent, Delivered, Wasted,
                       Active
<1>. QED BY <1>1, <1>2, <1>3, <1>4, <1>5 DEF Next

\* A merged request has its work on the board: it links the whole list of items its
\* accept called for, its own or one per criterion, every one of them enqueued, and the
\* requester is told so, whatever passes died over it before with other lists (triage_request,
\* _items_for_accept, _decompose_request, set_request_status).
THEOREM MergedRequestIsDelivered ==
  ASSUME RequestsAttended
  PROVE  Spec => []MergedIsDelivered
<1>1. Init => Kept
  BY InitDelivers
<1>2. Kept /\ [Next]_vars => Kept'
  BY NextDelivers
<1>3. Kept => MergedIsDelivered
  BY DEF Kept, Delivered, MergedIsDelivered
<1>. QED BY <1>1, <1>2, <1>3, PTL DEF Spec

\* Only a pass that dies makes a request be decomposed again: the items on the board are
\* at most one list, the longest an accept may call for, for each death and one more
\* (_items_for_accept, _decompose_request).
THEOREM DeathsBoundTheItems ==
  ASSUME RequestsAttended
  PROVE  Spec => []WorkedOnce
<1>1. Init => Kept
  BY InitDelivers
<1>2. Kept /\ [Next]_vars => Kept'
  BY NextDelivers
<1>3. Kept => WorkedOnce
  BY DEF Kept, Spent, WorkedOnce
<1>. QED BY <1>1, <1>2, <1>3, PTL DEF Spec

=============================================================================
