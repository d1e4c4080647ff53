------------------------------ MODULE Requests ------------------------------
(***************************************************************************)
(* Requests of one workstream to another (runtime/crossworkstream.py) and  *)
(* their triage by the receiving PM (triage_request of roles/pm.py), on    *)
(* the board the questions of Decisions live on.  A request is a task with *)
(* a status of its own in its payload; the requester learns of it from the *)
(* event stream.  Every step is one transaction: a pass may die, and its   *)
(* request be re-kicked and triaged again, between any two.                *)
(***************************************************************************)
EXTENDS Decisions

CONSTANTS
  FeatureRequests,   \* the tasks that are requests
  Lens,              \* Lens[r]: the verdicts an evaluation of r may give
  Criteria,          \* Criteria[r]: how many success criteria r states
  OwnItems           \* OwnItems[r]: the longest list of items an accept of r may bring itself

ASSUME RequestsAssumption ==
  /\ FeatureRequests \subseteq Tasks
  /\ FeatureRequests \cap (Askers \cup Gated) = {}
  /\ Lens \in [FeatureRequests -> SUBSET {"accepted", "declined", "needs_clarification", "escalated"}]
  /\ Criteria \in [FeatureRequests -> Nat]
  /\ OwnItems \in [FeatureRequests -> Nat]

VARIABLES
  sub,       \* payload.request_status
  told,      \* request.* events on the stream
  items,     \* work items on the board that link back to the request
  itemCount, \* payload.item_count of the last of them: how many its list had
  linked,    \* payload.work_task_ids, by number
  verdict,   \* per worker: the verdict in hand,
  due, made  \*   the length of the list it is to enqueue, and the items enqueued so far

requestVars == <<sub, told, items, itemCount, linked>>
triageVars == <<verdict, due, made>>
vars == <<decisionVars, requestVars, triageVars>>

Outcomes == {"accepted", "declined", "needs_clarification", "escalated"}
SubStatuses == {"absent", "submitted", "under_review"} \cup Outcomes
Steps == {"idle", "run", "park", "requeue", "deny",
          "pick up", "review", "decompose", "escalate", "mark", "tell", "close"}

TypeOK ==
  /\ StoreType
  /\ status \in [Tasks -> Statuses]
  /\ waitsFor \in [Tasks -> Waits]
  /\ question \in [QIds -> [task : Tasks \cup {NoTask},
                            status : {"absent", "open", "answered", "withdrawn"}]]
  /\ asked \in 0..MaxQuestions
  /\ pc \in [Workers -> Steps]
  /\ job \in [Workers -> Tasks \cup {NoTask}]
  /\ inHand \in [Workers -> Ids \cup {0}]
  /\ rekicks \in [Tasks -> 0..MaxRekicks]
  /\ crashes \in 0..MaxCrashes
  /\ sub \in [FeatureRequests -> SubStatuses]
  /\ told \in [FeatureRequests -> SUBSET SubStatuses]
  /\ items \in [FeatureRequests -> Nat]
  /\ itemCount \in [FeatureRequests -> Nat]
  /\ linked \in [FeatureRequests -> Nat]
  /\ verdict \in [Workers -> Outcomes \cup {"none"}]
  /\ due \in [Workers -> Nat]
  /\ made \in [Workers -> Nat]

\* submit_request has enqueued each request and announced it.
Init ==
  /\ DecisionsInit
  /\ sub = [r \in FeatureRequests |-> "submitted"]
  /\ told = [r \in FeatureRequests |-> {"submitted"}]
  /\ items = [r \in FeatureRequests |-> 0]
  /\ itemCount = [r \in FeatureRequests |-> 0]
  /\ linked = [r \in FeatureRequests |-> 0]
  /\ verdict = [w \in Workers |-> "none"]
  /\ due = [w \in Workers |-> 0]
  /\ made = [w \in Workers |-> 0]

-----------------------------------------------------------------------------
\* The worker dispatches a request to triage_request, anything else to its role.
FirstStep(t) == IF t \in FeatureRequests THEN "pick up" ELSE "run"
Grab(w, t) ==
  /\ Take(w, t, FirstStep(t))
  /\ UNCHANGED <<requestVars, triageVars>>

\* A triage is over, with or without a verdict.
Forget(w) ==
  /\ verdict' = [verdict EXCEPT ![w] = "none"]
  /\ due' = [due EXCEPT ![w] = 0]
  /\ made' = [made EXCEPT ![w] = 0]

\* _ensure_in_progress: two guarded hops that do nothing for a task in hand, and
\* pick a re-kicked one up again.
EnsureInProgress(w) ==
  /\ pc[w] = "pick up"
  /\ MovesFrom(job[w], "up_for_grabs", "in_progress")
  /\ Goto(w, "review")
  /\ UNCHANGED <<storeVars, waitsFor, rekicks, askVars, job, inHand, crashes,
                 requestVars, triageVars>>

\* set_request_status: an UPDATE by id, whatever the status was.
SetRequestStatus(r, s) == sub' = [sub EXCEPT ![r] = s]

\* _items_for_accept: the list the accept brings itself, whatever its length, else one
\* item per criterion, else one for the capability.
ItemsForAccept(own, r) ==
  IF own > 0 THEN own ELSE IF Criteria[r] > 0 THEN Criteria[r] ELSE 1

\* The request is put under review and announced; then the receiver evaluates it
\* through its own lens, which writes nothing.
AfterVerdict == [accepted |-> "decompose", declined |-> "mark",
                 needs_clarification |-> "mark", escalated |-> "escalate"]
Review(w) ==
  LET r == job[w] IN
  /\ pc[w] = "review"
  /\ SetRequestStatus(r, "under_review")
  /\ told' = [told EXCEPT ![r] = @ \cup {"under_review"}]
  /\ \E v \in Lens[r], own \in 0..OwnItems[r] :
       /\ verdict' = [verdict EXCEPT ![w] = v]
       /\ due' = [due EXCEPT ![w] = IF v = "accepted" THEN ItemsForAccept(own, r) ELSE 0]
       /\ Goto(w, AfterVerdict[v])
  /\ UNCHANGED <<storeVars, boardVars, askVars, job, inHand, crashes,
                 items, itemCount, linked, made>>

\* _decompose_request enqueues the list, each item in its own transaction and with the
\* length of the list in its payload.
DecomposeRequest(w) ==
  LET r == job[w] IN
  /\ pc[w] = "decompose"
  /\ made' = [made EXCEPT ![w] = @ + 1]
  /\ items' = [items EXCEPT ![r] = @ + 1]
  /\ itemCount' = [itemCount EXCEPT ![r] = due[w]]
  /\ Goto(w, IF made[w] + 1 < due[w] THEN "decompose" ELSE "mark")
  /\ UNCHANGED <<storeVars, boardVars, askVars, job, inHand, crashes,
                 sub, told, linked, verdict, due>>

Escalate(w) ==
  /\ pc[w] = "escalate"
  /\ RequestApproval(w, "mark")
  /\ UNCHANGED <<requestVars, triageVars>>

MarkAndClose(w) ==
  LET r == job[w] IN
  /\ pc[w] = "mark"
  /\ SetRequestStatus(r, verdict[w])
  /\ linked' = IF verdict[w] = "accepted" THEN [linked EXCEPT ![r] = made[w]] ELSE linked
  /\ IF verdict[w] = "accepted" THEN MovesFrom(r, "in_progress", "merged") ELSE UNCHANGED status
  /\ Goto(w, "tell")
  /\ UNCHANGED <<storeVars, waitsFor, rekicks, askVars, job, inHand, crashes,
                 told, items, itemCount, triageVars>>
Mark(w) ==
  LET r == job[w] IN
  /\ pc[w] = "mark"
  /\ SetRequestStatus(r, verdict[w])
  /\ linked' = IF verdict[w] = "accepted" THEN [linked EXCEPT ![r] = made[w]] ELSE linked
  /\ Goto(w, "tell")
  /\ UNCHANGED <<storeVars, boardVars, askVars, job, inHand, crashes,
                 told, items, itemCount, triageVars>>

Tell(w) ==
  /\ pc[w] = "tell"
  /\ told' = [told EXCEPT ![job[w]] = @ \cup {verdict[w]}]
  /\ Goto(w, "close")
  /\ UNCHANGED <<storeVars, boardVars, askVars, job, inHand, crashes,
                 sub, items, itemCount, linked, triageVars>>

\* complete_task, the clarification's way back to the board, or block_task: each
\* is guarded to in_progress.
Close(w) ==
  LET r == job[w]
      After == [accepted |-> "merged", declined |-> "abandoned",
                needs_clarification |-> "up_for_grabs", escalated |-> "blocked"]
  IN
  /\ pc[w] = "close"
  /\ IF verdict[w] = "escalated"
     THEN ParkOn(r, OnApproval(inHand[w]))
     ELSE MovesFrom(r, "in_progress", After[verdict[w]]) /\ UNCHANGED waitsFor
  /\ Leave(w) /\ Forget(w)
  /\ UNCHANGED <<storeVars, rekicks, askVars, crashes, requestVars>>

-----------------------------------------------------------------------------
TriageStep(w) ==
  \/ EnsureInProgress(w) \/ Review(w) \/ DecomposeRequest(w)
  \/ Escalate(w) \/ Mark(w) \/ Tell(w) \/ Close(w)

OtherStep ==
  /\ \/ \E w \in Workers : DecisionStep(w)
     \/ \E w \in Workers, t \in Tasks : ReadParked(w, t)
     \/ \E d \in QIds : AnswerDecision(d) \/ WithdrawDecision(d)
     \/ \E i \in Ids : Resolve(i)
     \/ \E t \in Tasks : Rekick(t) \/ GiveUp(t)
  /\ UNCHANGED <<requestVars, triageVars>>

Next ==
  \/ \E w \in Workers : TriageStep(w) \/ (Die(w) /\ Forget(w) /\ UNCHANGED requestVars)
  \/ \E w \in Workers, t \in Tasks : Grab(w, t)
  \/ OtherStep

Spec == Init /\ [][Next]_vars

\* Workers loop, the supervisor sweeps, the human answers what is asked.  Grabs
\* go by priority: the tasks of Prompt rank above any request that keeps coming
\* back, so they are grabbed although a pass may be busy each time one looks.
Decidable == {r \in FeatureRequests : Lens[r] \subseteq {"accepted", "declined"}}
Prompt == Askers \cup Decidable
Fairness ==
  /\ \A w \in Workers :
       /\ WF_vars(TriageStep(w))
       /\ WF_vars(DecisionStep(w) /\ UNCHANGED <<requestVars, triageVars>>)
  /\ \A t \in Prompt : SF_vars(\E w \in Workers : Grab(w, t))
  /\ \A d \in QIds : WF_vars(AnswerDecision(d) /\ UNCHANGED <<requestVars, triageVars>>)
  /\ \A t \in Prompt :
       WF_vars((Rekick(t) \/ GiveUp(t)) /\ UNCHANGED <<requestVars, triageVars>>)

FairSpec == Spec /\ Fairness

-----------------------------------------------------------------------------
(* Properties                                                              *)

\* What the requester is told is what happened: a request is over by a verdict
\* only after its sub-status and the stream say so, and a merged request links exactly
\* the list its work items say they belong to, every item of which is on the board,
\* whatever lists the passes that died before had begun to enqueue.
MergedIsDelivered ==
  \A r \in FeatureRequests : status[r] = "merged" =>
    /\ sub[r] = "accepted" /\ "accepted" \in told[r]
    /\ linked[r] = itemCount[r] /\ linked[r] \in 1..items[r]

\* A request is decomposed again only after a pass over it died: _decompose_request
\* has no memory of the items an earlier pass enqueued, and a new verdict may bring
\* another list.
Longest(r) ==
  IF OwnItems[r] > ItemsForAccept(0, r) THEN OwnItems[r] ELSE ItemsForAccept(0, r)
WorkedOnce ==
  \A r \in FeatureRequests : items[r] <= Longest(r) * (1 + crashes)

\* A task that asks the stakeholder, or a request that is accepted or declined,
\* ends, whichever passes die on the way.
AskerEnds ==
  \A t \in Prompt :
    status[t] = "in_progress" ~> status[t] \in Over

=============================================================================
