-------------------------- MODULE TaskQueue_proofs --------------------------
(***************************************************************************)
(* Theorems about TaskQueue, for every set of tasks and workers and every  *)
(* value of the thresholds.                                                *)
(***************************************************************************)
EXTENDS TaskQueue, TLAPS

-----------------------------------------------------------------------------
(* Facts about the helpers                                                 *)

\* No transition leaves or enters the pseudo-state of a row that does not exist.
LEMMA MovesType ==
  ASSUME NEW t \in Tasks, NEW to, NEW from, TypeOK, Moves(t, to, from)
  PROVE  to \in States /\ status[t] \in States
<1>1. status[t] \in States /\ to \in Successors[status[t]]
  BY DEF Moves, CanTransition
<1>2. \A s \in States : Successors[s] \subseteq States
  BY DEF Successors, States, Terminal
<1> QED
  BY <1>1, <1>2

-----------------------------------------------------------------------------
(* Type correctness                                                        *)

\* A worker that is about to retry has an attempt left: what keeps the attempt
\* number of _handle_work's loop within its range.
RetriesLeft == \A w \in Workers : pc[w] = "retry" => attempt[w] < MaxAttempts

TypeInv == TypeOK /\ RetriesLeft

LEMMA TypeInit == Init => TypeInv
BY ConstantsAssumption
   DEF Init, TypeInv, RetriesLeft, BoardInit, TypeOK, Leases, Nudges, Approvals, Steps, NotScanned, States

LEMMA GotoType ==
  ASSUME TypeOK, NEW w \in Workers, NEW p \in Steps, Goto(w, p)
  PROVE  /\ pc' \in [Workers -> Steps]
         /\ job' \in [Workers -> Tasks \cup {NoTask}]
         /\ attempt' \in [Workers -> 1..MaxAttempts]
BY DEF Goto, TypeOK

LEMMA FinishType ==
  ASSUME TypeOK, NEW w \in Workers, Finish(w)
  PROVE  /\ pc' \in [Workers -> Steps]
         /\ job' \in [Workers -> Tasks \cup {NoTask}]
         /\ attempt' \in [Workers -> 1..MaxAttempts]
BY ConstantsAssumption DEF Finish, TypeOK, Steps

LEMMA TypeNext == TypeInv /\ [Next]_vars => TypeOK'
<1> SUFFICES ASSUME TypeOK, RetriesLeft, [Next]_vars PROVE TypeOK'
  BY DEF TypeInv
<1> USE DEF TypeOK
<1>1. ASSUME NEW t \in Tasks, NEW D \in SUBSET Tasks, Enqueue(t, D)
      PROVE  TypeOK'
  BY <1>1 DEF Enqueue, Post, rowVars, gateVars, workerVars, States
<1>2. ASSUME NEW t \in Tasks, HeartbeatExpires(t)
      PROVE  TypeOK'
  BY <1>2 DEF HeartbeatExpires, gateVars, workerVars, Leases
<1>3. ASSUME NEW t \in Tasks, NudgeGraceElapses(t)
      PROVE  TypeOK'
  BY <1>3 DEF NudgeGraceElapses, gateVars, workerVars, Nudges
<1>4. ASSUME NEW t \in Tasks, Resolve(t)
      PROVE  TypeOK'
  BY <1>4 DEF Resolve, rowVars, workerVars, Approvals
<1>5. ASSUME NEW w \in Workers, NEW t \in Tasks, Grab(w, t)
      PROVE  TypeOK'
  BY <1>5 DEF Grab, SetStatus, gateVars, Leases, Steps, States
<1>6. ASSUME NEW w \in Workers, NEW t \in Tasks, ReadApproval(w, t)
      PROVE  TypeOK'
  BY <1>6 DEF ReadApproval, rowVars, gateVars, Steps
<1>7. ASSUME NEW w \in Workers, WorkerStep(w)
      PROVE  TypeOK'
  <2>1. CASE Start(w)
    <3>1. /\ pc' \in [Workers -> Steps]
          /\ job' \in [Workers -> Tasks \cup {NoTask}]
          /\ attempt' \in [Workers -> 1..MaxAttempts]
      BY <2>1, GotoType DEF Start, Steps
    <3>2. /\ status' \in [Tasks -> States \cup {Absent}]
          /\ deps' \in [Tasks -> SUBSET Tasks]
      BY <2>1 DEF Start, SetStatus, States
    <3>3. /\ lease' \in [Tasks -> Leases]
          /\ progressed' \in [Tasks -> BOOLEAN]
      BY <2>1 DEF Start, Leases
    <3> QED
      BY <2>1, <3>1, <3>2, <3>3 DEF Start, gateVars
  <2>2. CASE Heartbeat(w)
    <3>1. AfterBeat[pc[w]] \in Steps
      BY <2>2 DEF Heartbeat, AfterBeat, Steps
    <3> QED
      BY <2>2, <3>1, GotoType DEF Heartbeat, gateVars, Leases, Nudges
  <2>3. CASE Execute(w)
    <3>1. /\ pc' \in [Workers -> Steps]
          /\ job' \in [Workers -> Tasks \cup {NoTask}]
          /\ attempt' \in [Workers -> 1..MaxAttempts]
      BY <2>3, GotoType DEF Execute, Steps
    <3>2. asks' \in [Tasks -> 0..MaxAsks]
      BY <2>3, ConstantsAssumption DEF Execute
    <3>3. progressed' \in [Tasks -> BOOLEAN]
      BY <2>3 DEF Execute
    <3> QED
      BY <2>3, <3>1, <3>2, <3>3 DEF Execute
  <2>4. CASE Park(w)
    <3>1. approval' \in [Tasks -> Approvals]
      BY <2>4 DEF Park, Approvals
    <3>2. /\ status' \in [Tasks -> States \cup {Absent}]
          /\ deps' \in [Tasks -> SUBSET Tasks]
      BY <2>4 DEF Park, SetStatus, States
    <3> QED
      BY <2>4, FinishType, <3>1, <3>2 DEF Park, rowVars
  <2>5. CASE Fail(w)
    BY <2>5, FinishType DEF Fail, SetStatus, rowVars, gateVars, States
  <2>6. CASE Submit(w)
    <3>1. /\ pc' \in [Workers -> Steps]
          /\ job' \in [Workers -> Tasks \cup {NoTask}]
          /\ attempt' \in [Workers -> 1..MaxAttempts]
      BY <2>6, GotoType, FinishType DEF Submit, Steps
    <3> QED
      BY <2>6, <3>1 DEF Submit, SetStatus, rowVars, gateVars, States
  <2>7. CASE Verify(w)
    <3>1. /\ pc' \in [Workers -> Steps]
          /\ job' \in [Workers -> Tasks \cup {NoTask}]
          /\ attempt' \in [Workers -> 1..MaxAttempts]
      BY <2>7, GotoType DEF Verify, Steps
    <3> QED
      BY <2>7, <3>1 DEF Verify, rowVars
  <2>8. CASE Approve(w)
    <3>1. /\ pc' \in [Workers -> Steps]
          /\ job' \in [Workers -> Tasks \cup {NoTask}]
          /\ attempt' \in [Workers -> 1..MaxAttempts]
      BY <2>8, GotoType, FinishType DEF Approve, Hop, Steps
    <3> QED
      BY <2>8, <3>1 DEF Approve, Hop, SetStatus, rowVars, gateVars, States
  <2>9. CASE Merge(w)
    BY <2>9, FinishType DEF Merge, Hop, SetStatus, rowVars, gateVars, States
  <2>10. CASE Reject(w)
    <3>1. /\ pc' \in [Workers -> Steps]
          /\ job' \in [Workers -> Tasks \cup {NoTask}]
          /\ attempt' \in [Workers -> 1..MaxAttempts]
      BY <2>10, GotoType, FinishType DEF Reject, Hop, Steps
    <3> QED
      BY <2>10, <3>1 DEF Reject, Hop, SetStatus, rowVars, gateVars, States
  <2>11. CASE Retry(w)
    <3>1. attempt[w] + 1 \in 1..MaxAttempts
      BY <2>11, ConstantsAssumption DEF Retry, RetriesLeft
    <3>2. /\ pc' \in [Workers -> Steps]
          /\ job' \in [Workers -> Tasks \cup {NoTask}]
          /\ attempt' \in [Workers -> 1..MaxAttempts]
      BY <2>11, <3>1, FinishType DEF Retry, Hop, NextAttempt, Steps
    <3> QED
      BY <2>11, <3>2 DEF Retry, Hop, SetStatus, rowVars, gateVars, States
  <2>12. CASE GiveUp(w)
    BY <2>12, FinishType DEF GiveUp, Hop, SetStatus, rowVars, gateVars, States
  <2>13. CASE Requeue(w)
    <3>1. /\ status' \in [Tasks -> States \cup {Absent}]
          /\ deps' \in [Tasks -> SUBSET Tasks]
      BY <2>13 DEF Requeue, SetStatus, States
    <3>2. /\ owner' \in [Tasks -> Workers \cup {NoWorker}]
          /\ lease' \in [Tasks -> Leases]
      BY <2>13 DEF Requeue, ClearClaim, Leases
    <3> QED
      BY <2>13, FinishType, <3>1, <3>2 DEF Requeue, gateVars
  <2>14. CASE Deny(w)
    BY <2>14, FinishType DEF Deny, SetStatus, rowVars, gateVars, States
  <2> QED
    BY <1>7, <2>1, <2>2, <2>3, <2>4, <2>5, <2>6, <2>7, <2>8, <2>9, <2>10,
       <2>11, <2>12, <2>13, <2>14 DEF WorkerStep
<1>8. ASSUME NEW w \in Workers, PassDies(w)
      PROVE  TypeOK'
  BY <1>8, FinishType, ConstantsAssumption DEF PassDies, rowVars, gateVars
<1>9. CASE Scan
  BY <1>9 DEF Scan, NotScanned, Scanned, rowVars, gateVars, workerVars
<1>10. CASE SweepDies
  BY <1>10, ConstantsAssumption
     DEF SweepDies, NotScanned, rowVars, gateVars, workerVars
<1>11. ASSUME NEW t \in Tasks, Sweep(t)
       PROVE  TypeOK'
  <2>1. CASE Nudge(t)
    BY <2>1 DEF Nudge, Drop, NotScanned, Nudges, gateVars, workerVars
  <2>2. CASE Defer(t)
    BY <2>2 DEF Defer, Drop, NotScanned, rowVars, gateVars, workerVars
  <2>3. CASE Terminate(t)
    BY <2>3 DEF Terminate, Drop, SetStatus, NotScanned, States,
                rowVars, gateVars, workerVars
  <2>4. CASE Measure(t)
    <3>1. PICK p \in {"yes", "no"} : snap' = [snap EXCEPT ![t].progress = p]
      BY <2>4 DEF Measure
    <3>2. snap[t] \in Scanned
      BY <2>4 DEF Measure, GraceOver, NotScanned
    <3>3. [snap[t] EXCEPT !.progress = p] \in Scanned
      BY <3>2 DEF Scanned
    <3>4. snap' \in [Tasks -> {NotScanned} \cup Scanned]
      BY <3>1, <3>3
    <3> QED
      BY <2>4, <3>4 DEF Measure, rowVars, gateVars, workerVars
  <2>5. CASE Rekick(t)
    <3>1. snap' \in [Tasks -> {NotScanned} \cup Scanned]
      BY <2>5 DEF Rekick, Drop, NotScanned
    <3>2. /\ status' \in [Tasks -> States \cup {Absent}]
          /\ deps' \in [Tasks -> SUBSET Tasks]
          /\ owner' \in [Tasks -> Workers \cup {NoWorker}]
          /\ lease' \in [Tasks -> Leases]
      BY <2>5 DEF Rekick, SetStatus, ClearClaim, rowVars, Leases, States
    <3>3. /\ nudge' \in [Tasks -> Nudges]
          /\ retries' \in [Tasks -> Nat]
      BY <2>5 DEF Rekick, rowVars, Nudges
    <3>4. noProgress' \in [Tasks -> Nat]
      BY <2>5 DEF Rekick, rowVars
    <3>5. progressed' \in [Tasks -> BOOLEAN]
      BY <2>5 DEF Rekick, rowVars
    <3> QED
      BY <2>5, <3>1, <3>2, <3>3, <3>4, <3>5 DEF Rekick, gateVars, workerVars
  <2> QED
    BY <1>11, <2>1, <2>2, <2>3, <2>4, <2>5 DEF Sweep
<1>12. CASE UNCHANGED vars
  BY <1>12 DEF vars, rowVars, gateVars, workerVars
<1> QED
  BY <1>1, <1>2, <1>3, <1>4, <1>5, <1>6, <1>7, <1>8, <1>9, <1>10, <1>11, <1>12
     DEF Next

LEMMA RetriesLeftNext == TypeInv /\ [Next]_vars => RetriesLeft'
<1> SUFFICES ASSUME TypeOK, RetriesLeft, [Next]_vars PROVE RetriesLeft'
  BY DEF TypeInv
<1> USE DEF TypeOK, RetriesLeft
<1>1. ASSUME NEW w \in Workers, WorkerStep(w) \/ PassDies(w)
      PROVE  RetriesLeft'
  <2>1. CASE Reject(w)
    BY <2>1 DEF Reject, Hop, Goto, Finish, AttemptsLeft
  <2>2. CASE Heartbeat(w)
    <3>1. AfterBeat[pc[w]] # "retry"
      BY <2>2 DEF Heartbeat, AfterBeat
    <3> QED
      BY <2>2, <3>1 DEF Heartbeat, Goto
  <2>3. CASE ~Reject(w) /\ ~Heartbeat(w)
    BY <1>1, <2>3
       DEF WorkerStep, PassDies, Start, Execute, Park, Fail, Submit, Verify,
           Approve, Merge, Retry, GiveUp, Requeue, Deny, Hop, NextAttempt,
           Goto, Finish
  <2> QED
    BY <2>1, <2>2, <2>3
<1>2. ASSUME NEW w \in Workers, NEW t \in Tasks, Grab(w, t) \/ ReadApproval(w, t)
      PROVE  RetriesLeft'
  BY <1>2 DEF Grab, ReadApproval
<1>3. CASE UNCHANGED workerVars
  BY <1>3 DEF workerVars
<1> QED
  BY <1>1, <1>2, <1>3
     DEF Next, Enqueue, HeartbeatExpires, NudgeGraceElapses, Resolve, Scan,
         SweepDies, Sweep, Nudge, Defer, Terminate, Measure, Rekick, vars

\* Every variable of the queue keeps its type, for every set of tasks and
\* workers: no hop leaves the nine states of the status CHECK constraint, and
\* the review loop of _handle_work never exceeds WORKER_MAX_WORK_ATTEMPTS.
THEOREM TypeCorrect == Spec => []TypeOK
<1>1. Init => TypeInv
  BY TypeInit
<1>2. TypeInv /\ [Next]_vars => TypeInv'
  BY TypeNext, RetriesLeftNext DEF TypeInv
<1>3. TypeInv => TypeOK
  BY DEF TypeInv
<1> QED
  BY <1>1, <1>2, <1>3, PTL DEF Spec

-----------------------------------------------------------------------------
(* The recovery ladder                                                     *)

\* While the sweep still has to handle a row, the counters it read are the
\* current ones (rekick_task, their only writer, ends the handling of the row),
\* and a row whose progress it has measured had both counters below the limit.
SnapshotCurrent ==
  \A t \in Tasks : snap[t].seen =>
    /\ snap[t].retries = retries[t]
    /\ snap[t].noProgress = noProgress[t]
    /\ snap[t].progress # "unread" => ~Exhausted(t)

LEMMA WorkersLeaveLadder ==
  ASSUME NEW w \in Workers, WorkerStep(w) \/ PassDies(w)
  PROVE  UNCHANGED <<snap, retries, noProgress>>
BY DEF WorkerStep, PassDies, Start, Heartbeat, Execute, Park, Fail, Submit,
       Verify, Approve, Merge, Reject, Retry, GiveUp, Requeue, Deny, Hop,
       rowVars

LEMMA RecoveryNext ==
  TypeOK /\ TypeOK' /\ SnapshotCurrent /\ BoundedRecovery /\ [Next]_vars
    => SnapshotCurrent' /\ BoundedRecovery'
<1> SUFFICES ASSUME TypeOK, SnapshotCurrent, BoundedRecovery, TypeOK', [Next]_vars
             PROVE  SnapshotCurrent' /\ BoundedRecovery'
  OBVIOUS
<1> USE DEF SnapshotCurrent, BoundedRecovery
<1>1. CASE UNCHANGED <<snap, retries, noProgress>>
  BY <1>1 DEF Exhausted
<1>2. CASE Scan
  BY <1>2 DEF Scan, NotScanned, rowVars
<1>3. CASE SweepDies
  BY <1>3 DEF SweepDies, NotScanned, rowVars
<1>4. ASSUME NEW t \in Tasks, Sweep(t)
      PROVE  SnapshotCurrent' /\ BoundedRecovery'
  <2>1. CASE Nudge(t) \/ Defer(t) \/ Terminate(t)
    BY <2>1 DEF Nudge, Defer, Terminate, Drop, NotScanned, rowVars, Exhausted, TypeOK
  <2>2. CASE Measure(t)
    <3>1. PICK p \in {"yes", "no"} : snap' = [snap EXCEPT ![t].progress = p]
      BY <2>2 DEF Measure
    <3>2. /\ snap[t].seen /\ ~Exhausted(t)
          /\ UNCHANGED <<retries, noProgress>>
      BY <2>2 DEF Measure, GraceOver, rowVars
    <3>3. snap[t] \in Scanned
      BY <3>2 DEF TypeOK, NotScanned
    <3>4. /\ snap'[t].retries = snap[t].retries
          /\ snap'[t].noProgress = snap[t].noProgress
      BY <3>1, <3>3 DEF TypeOK, Scanned
    <3>5. \A u \in Tasks \ {t} : snap'[u] = snap[u]
      BY <3>1 DEF TypeOK
    <3> QED
      BY <3>2, <3>4, <3>5 DEF Exhausted
  <2>3. CASE Rekick(t)
    <3>1. ~snap'[t].seen /\ \A u \in Tasks \ {t} : snap'[u] = snap[u]
      BY <2>3 DEF Rekick, Drop, NotScanned, TypeOK
    <3>2. \A u \in Tasks \ {t} :
            retries'[u] = retries[u] /\ noProgress'[u] = noProgress[u]
      BY <2>3 DEF Rekick, rowVars, TypeOK
    <3>3. retries[t] < MaxRetries /\ noProgress[t] < StuckThreshold
      <4>1. ~Exhausted(t) /\ snap[t].seen
        BY <2>3 DEF Rekick
      <4>2. ~(noProgress[t] >= StuckThreshold) /\ ~(retries[t] >= MaxRetries)
        BY <4>1 DEF Exhausted
      <4>3. noProgress[t] \in Nat /\ retries[t] \in Nat
        BY DEF TypeOK
      <4> QED
        BY <4>2, <4>3, ConstantsAssumption
    <3>4. retries'[t] <= retries[t] + 1
      BY <2>3 DEF Rekick, rowVars, TypeOK
    <3>5. noProgress'[t] <= noProgress[t] + 1
      BY <2>3 DEF Rekick, rowVars, TypeOK
    <3>6. retries'[t] <= MaxRetries /\ noProgress'[t] <= StuckThreshold
      BY <3>3, <3>4, <3>5, ConstantsAssumption DEF TypeOK
    <3>7. BoundedRecovery'
      BY <3>2, <3>6
    <3>8. SnapshotCurrent'
      BY <3>1, <3>2 DEF Exhausted
    <3> QED
      BY <3>7, <3>8
  <2> QED
    BY <1>4, <2>1, <2>2, <2>3 DEF Sweep
<1> QED
  BY <1>1, <1>2, <1>3, <1>4, WorkersLeaveLadder
     DEF Next, vars, Enqueue, HeartbeatExpires, NudgeGraceElapses, Resolve,
         Grab, ReadApproval, rowVars

\* The recovery ladder of sweep ends for every value of SUPERVISOR_MAX_RETRIES
\* and SUPERVISOR_STUCK_THRESHOLD, although each of its rungs decides on
\* counters it read in an earlier transaction.
THEOREM RecoveryIsBounded == Spec => []BoundedRecovery
<1>1. Init => SnapshotCurrent /\ BoundedRecovery
  BY ConstantsAssumption DEF Init, SnapshotCurrent, BoundedRecovery, NotScanned
<1> QED
  BY <1>1, RecoveryNext, TypeCorrect, PTL DEF Spec

-----------------------------------------------------------------------------
(* Rows and claims                                                         *)

\* Where a row carries a claim: from grab_task until it is back in the pool.
\* The states of the review loop count, since Retry returns from them to a
\* held state without claiming anew.
ClaimInv ==
  \A t \in Tasks :
    /\ status[t] \in {Absent, "up_for_grabs"}
         => owner[t] = NoWorker /\ lease[t] = "none"
    /\ status[t] \in {"claimed", "in_progress", "blocked",
                      "ready_for_review", "reviewer_blocked"}
         => owner[t] \in Workers /\ lease[t] # "none"

\* A hop of the work loop leads neither into the pool nor out of it, unless to
\* an end state.
LEMMA ClaimSurvivesHop ==
  ASSUME TypeOK, ClaimInv, NEW t, NEW to, NEW from,
         Moves(t, to, from), SetStatus(t, to),
         to \in {"in_progress", "blocked", "ready_for_review",
                 "reviewer_blocked", "approved", "merged", "abandoned"},
         owner' = owner,
         lease' = lease \/ lease' = [lease EXCEPT ![t] = "fresh"]
  PROVE  ClaimInv'
<1>1. \A u \in Tasks : u # t => status'[u] = status[u] /\ lease'[u] = lease[u]
  BY DEF SetStatus, TypeOK
<1>2. t \in Tasks => status'[t] = to /\ (lease'[t] = lease[t] \/ lease'[t] = "fresh")
  BY DEF SetStatus, TypeOK
<1>3. status[t] \in States /\ to \in Successors[status[t]]
  BY DEF Moves, CanTransition
<1>4. to \in {"in_progress", "blocked", "ready_for_review", "reviewer_blocked"}
        => status[t] \in {"claimed", "in_progress", "blocked",
                         "ready_for_review", "reviewer_blocked"}
  BY <1>3 DEF Successors, States
<1>5. ASSUME NEW u \in Tasks, u = t
      PROVE  /\ status'[u] \in {Absent, "up_for_grabs"}
                  => owner'[u] = NoWorker /\ lease'[u] = "none"
             /\ status'[u] \in {"claimed", "in_progress", "blocked",
                               "ready_for_review", "reviewer_blocked"}
                  => owner'[u] \in Workers /\ lease'[u] # "none"
  BY <1>2, <1>4, <1>5 DEF ClaimInv, Absent
<1> QED
  BY <1>1, <1>5 DEF ClaimInv

LEMMA ClaimNext == TypeOK /\ ClaimInv /\ [Next]_vars => ClaimInv'
<1> SUFFICES ASSUME TypeOK, ClaimInv, [Next]_vars PROVE ClaimInv'
  OBVIOUS
<1>1. CASE UNCHANGED <<status, owner, lease>>
  BY <1>1 DEF ClaimInv
<1>2. ASSUME NEW t \in Tasks, NEW D \in SUBSET Tasks, Enqueue(t, D)
      PROVE  ClaimInv'
  BY <1>2 DEF Enqueue, Post, rowVars, ClaimInv, TypeOK, Absent
<1>3. ASSUME NEW t \in Tasks, HeartbeatExpires(t)
      PROVE  ClaimInv'
  BY <1>3 DEF HeartbeatExpires, ClaimInv, TypeOK, Held, Absent
<1>4. ASSUME NEW w \in Workers, NEW t \in Tasks, Grab(w, t)
      PROVE  ClaimInv'
  BY <1>4 DEF Grab, SetStatus, ClaimInv, TypeOK, Absent
<1>5. ASSUME NEW w \in Workers, WorkerStep(w)
      PROVE  ClaimInv'
  <2> DEFINE t == job[w]
  <2>1. CASE Start(w)
    BY <2>1, <1>1, ClaimSurvivesHop DEF Start
  <2>2. CASE Heartbeat(w)
    BY <2>2 DEF Heartbeat, ClaimInv, TypeOK, Held, Absent
  <2>3. CASE Park(w)
    BY <2>3, <1>1, ClaimSurvivesHop DEF Park, rowVars
  <2>4. CASE Fail(w)
    BY <2>4, <1>1, ClaimSurvivesHop DEF Fail, rowVars
  <2>5. CASE Submit(w)
    BY <2>5, <1>1, ClaimSurvivesHop DEF Submit, rowVars
  <2>6. CASE Approve(w) \/ Merge(w) \/ Reject(w) \/ Retry(w) \/ GiveUp(w)
    BY <2>6, <1>1, ClaimSurvivesHop
       DEF Approve, Merge, Reject, Retry, GiveUp, Hop, rowVars
  <2>7. CASE Execute(w) \/ Verify(w)
    BY <2>7, <1>1 DEF Execute, Verify, rowVars
  <2>8. CASE Requeue(w)
    BY <2>8 DEF Requeue, SetStatus, ClearClaim, ClaimInv, TypeOK, Absent
  <2>9. CASE Deny(w)
    BY <2>9 DEF Deny, SetStatus, rowVars, ClaimInv, TypeOK, Absent
  <2> QED
    BY <1>5, <2>1, <2>2, <2>3, <2>4, <2>5, <2>6, <2>7, <2>8, <2>9 DEF WorkerStep
<1>6. ASSUME NEW t \in Tasks, Sweep(t)
      PROVE  ClaimInv'
  <2>1. CASE Nudge(t) \/ Defer(t) \/ Measure(t)
    BY <2>1, <1>1 DEF Nudge, Defer, Measure, rowVars
  <2>2. CASE Terminate(t)
    BY <2>2, <1>1, ClaimSurvivesHop DEF Terminate, rowVars
  <2>3. CASE Rekick(t)
    BY <2>3 DEF Rekick, SetStatus, ClearClaim, rowVars, ClaimInv, TypeOK, Absent
  <2> QED
    BY <1>6, <2>1, <2>2, <2>3 DEF Sweep
<1> QED
  BY <1>1, <1>2, <1>3, <1>4, <1>5, <1>6
     DEF Next, vars, NudgeGraceElapses, Resolve, ReadApproval, PassDies, Scan,
         SweepDies, rowVars

\* A row in the pool carries no claim and a held row always carries one that can
\* expire, so every held task stays visible to find_stale_tasks.
THEOREM ClaimsAreConsistent == Spec => []ClaimConsistent
<1>1. Init => ClaimInv
  BY DEF Init, BoardInit, ClaimInv, Absent
<1>2. ClaimInv => ClaimConsistent
  BY DEF ClaimInv, ClaimConsistent, Held
<1> QED
  BY <1>1, <1>2, ClaimNext, TypeCorrect, PTL DEF Spec

-----------------------------------------------------------------------------
(* Verification comes before the merge                                     *)

\* A worker has a task in hand during a pass.
HasJob == \A w \in Workers : pc[w] # "idle" => job[w] \in Tasks

\* A worker that is on its way to approve or merge a work task has seen a pass.
VerdictInv ==
  \A w \in Workers :
    pc[w] \in {"beatPass", "approve", "merge"} /\ Kind[job[w]] = "work"
      => verified[job[w]]

LEMMA HasJobNext == TypeOK /\ HasJob /\ [Next]_vars => HasJob'
<1> SUFFICES ASSUME TypeOK, HasJob, [Next]_vars PROVE HasJob'
  OBVIOUS
<1> USE DEF TypeOK, HasJob
<1>1. ASSUME NEW w \in Workers, WorkerStep(w) \/ PassDies(w)
      PROVE  HasJob'
  <2>1. pc[w] # "idle"
    BY <1>1 DEF WorkerStep, PassDies, Start, Heartbeat, AfterBeat, Execute, Park,
                Fail, Submit, Verify, Approve, Merge, Reject, Retry, GiveUp,
                Requeue, Deny
  <2>2. \A v \in Workers \ {w} : pc'[v] = pc[v] /\ job'[v] = job[v]
    BY <1>1 DEF WorkerStep, PassDies, Start, Heartbeat, Execute, Park, Fail,
                Submit, Verify, Approve, Merge, Reject, Retry, GiveUp, Requeue,
                Deny, Hop, NextAttempt, Goto, Finish
  <2>3. pc'[w] = "idle" \/ job'[w] = job[w]
    BY <1>1 DEF WorkerStep, PassDies, Start, Heartbeat, Execute, Park, Fail,
                Submit, Verify, Approve, Merge, Reject, Retry, GiveUp, Requeue,
                Deny, Hop, NextAttempt, Goto, Finish
  <2> QED
    BY <2>1, <2>2, <2>3
<1>2. ASSUME NEW w \in Workers, NEW t \in Tasks, Grab(w, t) \/ ReadApproval(w, t)
      PROVE  HasJob'
  BY <1>2 DEF Grab, ReadApproval
<1>3. CASE UNCHANGED workerVars
  BY <1>3 DEF workerVars
<1> QED
  BY <1>1, <1>2, <1>3
     DEF Next, Enqueue, HeartbeatExpires, NudgeGraceElapses, Resolve, Scan,
         SweepDies, Sweep, Nudge, Defer, Terminate, Measure, Rekick, vars

\* One worker's pass never changes the place of another, and no verdict is taken
\* back.
LEMMA PassIsLocal ==
  ASSUME TypeOK, NEW w \in Workers, WorkerStep(w) \/ PassDies(w)
  PROVE  /\ \A v \in Workers \ {w} : pc'[v] = pc[v] /\ job'[v] = job[v]
         /\ \A t \in Tasks : verified[t] => verified'[t]
<1>1. CASE Verify(w)
  BY <1>1 DEF Verify, Goto, TypeOK
<1>2. CASE ~Verify(w)
  BY <1>2 DEF WorkerStep, PassDies, Start, Heartbeat, Execute, Park, Fail,
              Submit, Approve, Merge, Reject, Retry, GiveUp, Requeue, Deny,
              Hop, NextAttempt, Goto, Finish, gateVars, TypeOK
<1> QED
  BY <1>1, <1>2

LEMMA VerdictNext == TypeOK /\ HasJob /\ VerdictInv /\ [Next]_vars => VerdictInv'
<1> SUFFICES ASSUME TypeOK, HasJob, VerdictInv, [Next]_vars PROVE VerdictInv'
  OBVIOUS
<1> USE DEF TypeOK
<1>1. ASSUME NEW w \in Workers, WorkerStep(w) \/ PassDies(w)
      PROVE  VerdictInv'
  <2>1. \A v \in Workers \ {w} :
          pc'[v] \in {"beatPass", "approve", "merge"} /\ Kind[job'[v]] = "work"
            => verified'[job'[v]]
    BY <1>1, PassIsLocal DEF VerdictInv, HasJob
  <2>2. pc'[w] \in {"beatPass", "approve", "merge"} /\ Kind[job'[w]] = "work"
          => verified'[job'[w]]
    <3>1. CASE Heartbeat(w)
      <4>1. pc[w] # "beatPass" => AfterBeat[pc[w]] \notin {"beatPass", "approve", "merge"}
        BY <3>1 DEF Heartbeat, AfterBeat
      <4> QED
        BY <3>1, <4>1 DEF Heartbeat, Goto, VerdictInv, gateVars
    <3>2. CASE Verify(w)
      BY <3>2 DEF Verify, Goto, HasJob
    <3>3. CASE Submit(w) \/ Approve(w)
      BY <3>3 DEF Submit, Approve, Hop, Goto, Finish, VerdictInv, gateVars
    <3>4. CASE ~(Heartbeat(w) \/ Verify(w) \/ Submit(w) \/ Approve(w))
      BY <1>1, <3>4
         DEF WorkerStep, PassDies, Start, Execute, Park, Fail, Merge, Reject,
             Retry, GiveUp, Requeue, Deny, Hop, NextAttempt, Goto, Finish
    <3> QED
      BY <3>1, <3>2, <3>3, <3>4
  <2> QED
    BY <2>1, <2>2 DEF VerdictInv
<1>2. ASSUME NEW w \in Workers, NEW t \in Tasks, Grab(w, t) \/ ReadApproval(w, t)
      PROVE  VerdictInv'
  BY <1>2 DEF Grab, ReadApproval, VerdictInv, gateVars
<1>3. CASE UNCHANGED <<pc, job, verified>>
  BY <1>3 DEF VerdictInv
<1> QED
  BY <1>1, <1>2, <1>3
     DEF Next, Enqueue, HeartbeatExpires, NudgeGraceElapses, Resolve, Scan,
         SweepDies, Sweep, Nudge, Defer, Terminate, Measure, Rekick, vars,
         workerVars, gateVars

\* What a step may do to the status of a task: post it, deny it by force, or take
\* one edge of TRANSITIONS; only the approval step of a worker leads to approved
\* and only its merge step to merged.
LEMMA StatusStep ==
  ASSUME TypeOK, HasJob, [Next]_vars, NEW t \in Tasks, status'[t] # status[t]
  PROVE  \/ status[t] = Absent /\ status'[t] = "up_for_grabs"
         \/ \E w \in Workers :
              pc[w] = "deny" /\ job[w] = t /\ status'[t] = "abandoned"
         \/ /\ CanTransition(status[t], status'[t])
            /\ status'[t] \in {"approved", "merged"} =>
                 \E w \in Workers : pc[w] \in {"approve", "merge"} /\ job[w] = t
<1> USE DEF TypeOK
<1> DEFINE Legal == CanTransition(status[t], status'[t])
           Plain == status'[t] \notin {"approved", "merged"}
<1>1. ASSUME NEW u \in Tasks, NEW D \in SUBSET Tasks, Enqueue(u, D)
      PROVE  status[t] = Absent /\ status'[t] = "up_for_grabs"
  BY <1>1 DEF Enqueue, Post
<1>2. ASSUME NEW u \in Tasks, NEW w \in Workers, Grab(w, u)
      PROVE  Legal /\ Plain
  BY <1>2 DEF Grab, SetStatus, CanTransition, Successors, States
<1>3. ASSUME NEW w \in Workers, WorkerStep(w)
      PROVE  \/ pc[w] = "deny" /\ job[w] = t /\ status'[t] = "abandoned"
             \/ Legal /\ Plain
             \/ Legal /\ pc[w] \in {"approve", "merge"} /\ job[w] = t
  <2>1. CASE Start(w) \/ Park(w) \/ Fail(w) \/ Submit(w)
    BY <1>3, <2>1 DEF Start, Park, Fail, Submit, SetStatus, Moves
  <2>2. CASE Reject(w) \/ Retry(w) \/ GiveUp(w)
    BY <1>3, <2>2 DEF Reject, Retry, GiveUp, Hop, SetStatus, Moves
  <2>3. CASE Approve(w) \/ Merge(w)
    BY <1>3, <2>3 DEF Approve, Merge, Hop, SetStatus, Moves
  <2>4. CASE Requeue(w)
    BY <1>3, <2>4 DEF Requeue, SetStatus, Moves
  <2>5. CASE Deny(w)
    BY <1>3, <2>5 DEF Deny, SetStatus
  <2>6. CASE Heartbeat(w) \/ Execute(w) \/ Verify(w)
    BY <1>3, <2>6 DEF Heartbeat, Execute, Verify
  <2> QED
    BY <1>3, <2>1, <2>2, <2>3, <2>4, <2>5, <2>6 DEF WorkerStep
<1>4. ASSUME NEW u \in Tasks, Sweep(u)
      PROVE  Legal /\ Plain
  <2>1. CASE Terminate(u)
    BY <1>4, <2>1 DEF Terminate, SetStatus, Moves
  <2>2. CASE Rekick(u)
    BY <1>4, <2>2 DEF Rekick, StillHeld, Held, SetStatus, CanTransition,
                      Successors, States
  <2>3. CASE Nudge(u) \/ Defer(u) \/ Measure(u)
    BY <1>4, <2>3 DEF Nudge, Defer, Measure
  <2> QED
    BY <1>4, <2>1, <2>2, <2>3 DEF Sweep
<1>5. status' # status
  OBVIOUS
<1> QED
  BY <1>1, <1>2, <1>3, <1>4, <1>5
     DEF Next, vars, HeartbeatExpires, NudgeGraceElapses, Resolve, ReadApproval,
         PassDies, Scan, SweepDies

LEMMA JobsAreTasks == Spec => []HasJob
<1>1. Init => HasJob
  BY DEF Init, HasJob
<1> QED
  BY <1>1, HasJobNext, TypeCorrect, PTL DEF Spec

\* Outside resume_approved's forced denial every step of every worker and of the
\* supervisor respects TRANSITIONS, however late it acts on what it has read.
THEOREM TransitionsAreLegal == Spec => LegalUnlessForced
<1>1. TypeOK /\ HasJob /\ [Next]_vars =>
        [\A t \in Tasks : status'[t] # status[t] =>
           \/ status[t] = Absent
           \/ CanTransition(status[t], status'[t])
           \/ \E w \in Workers : pc[w] = "deny" /\ job[w] = t]_vars
  BY StatusStep
<1> QED
  BY <1>1, TypeCorrect, JobsAreTasks, PTL DEF Spec, LegalUnlessForced

\* Nothing reaches approved or merged through the review loop of _handle_work
\* unless a Verifier passed it, even when several workers hold the same task.
THEOREM MergedIsVerified == Spec => []MergedWasVerified
<1>1. Init => VerdictInv /\ MergedWasVerified
  BY DEF Init, BoardInit, VerdictInv, MergedWasVerified, Absent
<1>2. TypeOK /\ HasJob /\ VerdictInv /\ MergedWasVerified /\ [Next]_vars
        => MergedWasVerified'
  <2> SUFFICES ASSUME TypeOK, HasJob, VerdictInv, MergedWasVerified, [Next]_vars,
                      NEW t \in Tasks, Kind[t] = "work",
                      status'[t] \in {"approved", "merged"}
               PROVE  verified'[t]
    BY DEF MergedWasVerified
  <2>1. verified[t] => verified'[t]
    BY PassIsLocal
       DEF Next, Enqueue, HeartbeatExpires, NudgeGraceElapses, Resolve, Grab,
           ReadApproval, PassDies, Scan, SweepDies, Sweep, Nudge, Defer,
           Terminate, Measure, Rekick, vars, gateVars
  <2>2. CASE status'[t] = status[t]
    BY <2>1, <2>2 DEF MergedWasVerified
  <2>3. CASE status'[t] # status[t]
    <3>1. \E w \in Workers : pc[w] \in {"approve", "merge"} /\ job[w] = t
      BY <2>3, StatusStep
    <3> QED
      BY <2>1, <3>1 DEF VerdictInv
  <2> QED
    BY <2>2, <2>3
<1> QED
  BY <1>1, <1>2, VerdictNext, TypeCorrect, JobsAreTasks, PTL DEF Spec

\* The park race: a rung of the ladder that meets a task which was parked after
\* the scan leaves it parked.
THEOREM ParkedIsSpared == Spec => SweepSparesParked
<1>1. TypeOK /\ [Next]_vars =>
        [\A t \in Tasks : status[t] = "blocked" /\ snap'[t] # snap[t]
           => status'[t] = status[t]]_vars
  <2> SUFFICES ASSUME TypeOK, Next, NEW t \in Tasks,
                      status[t] = "blocked", snap'[t] # snap[t]
               PROVE  status'[t] = status[t]
    BY DEF vars
  <2>1. ASSUME NEW w \in Workers, WorkerStep(w) \/ PassDies(w)
        PROVE  FALSE
    BY <2>1, WorkersLeaveLadder
  <2>2. ASSUME NEW u \in Tasks, Sweep(u)
        PROVE  status'[t] = status[t]
    BY <2>2 DEF Sweep, Nudge, Defer, Terminate, Measure, Rekick, StillHeld,
                Moves, Held, SetStatus, TypeOK
  <2> QED
    BY <2>1, <2>2
       DEF Next, Enqueue, HeartbeatExpires, NudgeGraceElapses, Resolve, Grab,
           ReadApproval, Scan, SweepDies
<1> QED
  BY <1>1, TypeCorrect, PTL DEF Spec, SweepSparesParked

-----------------------------------------------------------------------------
(* An accurate detector makes the claim exclusive                          *)

\* If a heartbeat expires only when nobody works on the task, a pass holds its
\* row for itself: the row names the worker, its heartbeat is fresh, the sweep
\* has not seen it, and it is not where another worker could take it up.  A row
\* the sweep has seen can only have been abandoned since.
Exclusive ==
  /\ SingleExecutor
  /\ \A w \in Workers : pc[w] \in Working =>
       /\ owner[job[w]] = w
       /\ lease[job[w]] = "fresh"
       /\ ~snap[job[w]].seen
       /\ status[job[w]] \notin {Absent, "up_for_grabs", "blocked"}
  /\ \A t \in Tasks : snap[t].seen => status[t] \in Held \cup {"abandoned"}

\* The steps of a pass that write a row: they either leave its claim and its
\* place outside the pool alone or end the pass.
LEMMA PassKeepsRow ==
  ASSUME TypeOK, NEW w \in Workers, pc[w] \in Working, WorkerStep(w)
  PROVE  /\ owner' = owner /\ snap' = snap
         /\ job'[w] = job[w] \/ pc'[w] = "idle"
         /\ \A t \in Tasks : lease'[t] = lease[t] \/ lease'[t] = "fresh"
         /\ \A t \in Tasks \ {job[w]} : status'[t] = status[t]
         /\ \A t \in Tasks : status'[t] # status[t] =>
              status'[t] \in States \ {"up_for_grabs", "blocked"}
                \/ (status'[t] = "blocked" /\ pc'[w] = "idle")
<1> USE DEF TypeOK
<1>1. CASE Start(w)
  BY <1>1 DEF Start, Goto, SetStatus, States
<1>2. CASE Heartbeat(w)
  BY <1>2 DEF Heartbeat, Goto
<1>3. CASE Execute(w) \/ Verify(w)
  BY <1>3 DEF Execute, Verify, Goto, rowVars
<1>4. CASE Park(w) \/ Fail(w)
  BY <1>4 DEF Park, Fail, Finish, SetStatus, rowVars, States
<1>5. CASE Submit(w) \/ Approve(w)
  BY <1>5 DEF Submit, Approve, Hop, Goto, Finish, SetStatus, rowVars, States
<1>6. CASE Merge(w) \/ GiveUp(w)
  BY <1>6 DEF Merge, GiveUp, Hop, Finish, SetStatus, rowVars, States
<1>7. CASE Reject(w) \/ Retry(w)
  BY <1>7 DEF Reject, Retry, Hop, Goto, NextAttempt, Finish, SetStatus, rowVars, States
<1>8. ~Requeue(w) /\ ~Deny(w)
  BY DEF Requeue, Deny, Working
<1> QED
  BY <1>1, <1>2, <1>3, <1>4, <1>5, <1>6, <1>7, <1>8 DEF WorkerStep

LEMMA ExclusiveNext ==
  ASSUME AccurateDetector
  PROVE  TypeOK /\ HasJob /\ HasJob' /\ Exclusive /\ [Next]_vars => Exclusive'
<1> SUFFICES ASSUME TypeOK, HasJob, HasJob', Exclusive, [Next]_vars PROVE Exclusive'
  OBVIOUS
<1> USE DEF TypeOK, HasJob, Exclusive, SingleExecutor
<1>1. CASE UNCHANGED <<status, owner, lease, pc, job, snap>>
  BY <1>1
<1>2. ASSUME NEW t \in Tasks, NEW D \in SUBSET Tasks, Enqueue(t, D)
      PROVE  Exclusive'
  BY <1>2 DEF Enqueue, Post, rowVars, workerVars, Held, Absent, Working
<1>3. ASSUME NEW t \in Tasks, HeartbeatExpires(t)
      PROVE  Exclusive'
  BY <1>3 DEF HeartbeatExpires, Busy, workerVars
<1>4. ASSUME NEW w \in Workers, NEW t \in Tasks, Grab(w, t)
      PROVE  Exclusive'
  BY <1>4 DEF Grab, SetStatus, Held, Absent, Working
<1>5. ASSUME NEW w \in Workers, NEW t \in Tasks, ReadApproval(w, t)
      PROVE  Exclusive'
  BY <1>5 DEF ReadApproval, rowVars, Working
<1>6. ASSUME NEW w \in Workers, WorkerStep(w)
      PROVE  Exclusive'
  <2>0. \A v \in Workers \ {w} : pc'[v] = pc[v] /\ job'[v] = job[v]
    BY <1>6, PassIsLocal
  <2>1. CASE Requeue(w)
    BY <2>1, <2>0 DEF Requeue, Finish, SetStatus, ClearClaim, Moves, Held, Working
  <2>2. CASE Deny(w)
    BY <2>2, <2>0 DEF Deny, Finish, SetStatus, rowVars, Held, Working, Absent
  <2>3. CASE pc[w] \in Working
    <3>1. /\ owner' = owner /\ snap' = snap
          /\ job'[w] = job[w] \/ pc'[w] = "idle"
          /\ \A t \in Tasks : lease'[t] = lease[t] \/ lease'[t] = "fresh"
          /\ \A t \in Tasks \ {job[w]} : status'[t] = status[t]
          /\ \A t \in Tasks : status'[t] # status[t] =>
               status'[t] \in States \ {"up_for_grabs", "blocked"}
                 \/ (status'[t] = "blocked" /\ pc'[w] = "idle")
      BY <1>6, <2>3, PassKeepsRow
    <3>2. SingleExecutor'
      BY <2>0, <2>3, <3>1 DEF Working
    <3>3. ASSUME NEW v \in Workers, pc'[v] \in Working
          PROVE  /\ owner'[job'[v]] = v
                 /\ lease'[job'[v]] = "fresh"
                 /\ ~snap'[job'[v]].seen
                 /\ status'[job'[v]] \notin {Absent, "up_for_grabs", "blocked"}
      <4>1. job'[v] = job[v] /\ pc[v] \in Working /\ job[v] \in Tasks
        BY <2>0, <2>3, <3>1, <3>3 DEF Working
      <4>2. status'[job[v]] \notin {Absent, "up_for_grabs", "blocked"}
        BY <2>3, <3>1, <3>3, <4>1 DEF Working, Absent, States
      <4> QED
        BY <3>1, <4>1, <4>2
    <3>4. ASSUME NEW t \in Tasks, snap'[t].seen
          PROVE  status'[t] \in Held \cup {"abandoned"}
      BY <2>3, <3>1, <3>4
    <3> QED
      BY <3>2, <3>3, <3>4
  <2>4. pc[w] \in Working \/ Requeue(w) \/ Deny(w)
    BY <1>6 DEF WorkerStep, Start, Heartbeat, AfterBeat, Execute, Park, Fail,
                Submit, Verify, Approve, Merge, Reject, Retry, GiveUp, Working,
                Steps
  <2> QED
    BY <2>1, <2>2, <2>3, <2>4
<1>7. ASSUME NEW w \in Workers, PassDies(w)
      PROVE  Exclusive'
  BY <1>7 DEF PassDies, Finish, rowVars, Working
<1>8. CASE Scan
  <2>1. \A t \in Tasks : snap'[t].seen => Stale(t)
    BY <1>8 DEF Scan, NotScanned
  <2> QED
    BY <1>8, <2>1 DEF Scan, Stale, rowVars, workerVars, Held, Working
<1>9. CASE SweepDies
  BY <1>9 DEF SweepDies, NotScanned, rowVars, workerVars, Working
<1>10. ASSUME NEW t \in Tasks, Sweep(t)
       PROVE  Exclusive'
  <2>1. snap[t].seen /\ UNCHANGED <<pc, job>>
    BY <1>10 DEF Sweep, Nudge, Defer, Terminate, GraceOver, Measure, Rekick,
                 workerVars
  <2>2. \A w \in Workers : pc[w] \in Working => job[w] # t
    BY <2>1
  <2>3. \A u \in Tasks \ {t} :
          /\ status'[u] = status[u] /\ owner'[u] = owner[u]
          /\ lease'[u] = lease[u] /\ snap'[u] = snap[u]
    BY <1>10 DEF Sweep, Nudge, Defer, Terminate, Measure, Rekick, Drop,
                 SetStatus, ClearClaim, rowVars
  <2>4. snap'[t].seen => status'[t] = status[t]
    BY <1>10 DEF Sweep, Nudge, Defer, Terminate, Measure, Rekick, Drop, NotScanned
  <2> QED
    BY <2>1, <2>2, <2>3, <2>4 DEF Working
<1> QED
  BY <1>1, <1>2, <1>3, <1>4, <1>5, <1>6, <1>7, <1>8, <1>9, <1>10
     DEF Next, vars, NudgeGraceElapses, Resolve, rowVars, workerVars

LEMMA ExclusiveAlways ==
  ASSUME AccurateDetector
  PROVE  Spec => []Exclusive
<1>1. Init => Exclusive
  BY DEF Init, Exclusive, SingleExecutor, NotScanned, Working
<1>2. TypeOK /\ HasJob /\ HasJob' /\ Exclusive /\ [Next]_vars => Exclusive'
  BY ExclusiveNext
<1> QED
  BY <1>1, <1>2, TypeCorrect, JobsAreTasks, PTL DEF Spec

\* With a detector that is never wrong about a worker (a stale threshold above
\* every gap between heartbeats), crashes, parks, retries and re-kicks never lead
\* two passes onto one task.
THEOREM ExecutionIsExclusive ==
  ASSUME AccurateDetector
  PROVE  Spec => []SingleExecutor
<1>1. Exclusive => SingleExecutor
  BY DEF Exclusive
<1> QED
  BY <1>1, ExclusiveAlways, PTL

\* With such a detector a worker finalizes only tasks it still owns.
THEOREM FinalizerOwnsTask ==
  ASSUME AccurateDetector
  PROVE  Spec => OnlyOwnerFinalizes
<1>1. Exclusive /\ [Next]_vars =>
        [\A w \in Workers : LET t == job[w] IN
           /\ pc[w] \in {"submit", "fail"} /\ pc'[w] # pc[w]
           /\ status'[t] # status[t]
           => owner[t] = w]_vars
  BY DEF Exclusive, Working, Steps
<1> QED
  BY <1>1, ExclusiveAlways, PTL DEF Spec, OnlyOwnerFinalizes

\* What the sweep knows of a nudge stays true until it has handled the row: no
\* pass is under way that could beat and so close the episode.
NudgeStands ==
  \A t \in Tasks : snap[t].seen =>
    /\ snap[t].nudge = "elapsed" => nudge[t] = "elapsed"
    /\ snap[t].progress # "unread" /\ NudgeEnabled => snap[t].nudge = "elapsed"

LEMMA NudgeStandsNext ==
  ASSUME AccurateDetector
  PROVE  TypeOK /\ HasJob /\ Exclusive /\ NudgeStands /\ [Next]_vars => NudgeStands'
<1> SUFFICES ASSUME TypeOK, HasJob, Exclusive, NudgeStands, [Next]_vars
             PROVE  NudgeStands'
  OBVIOUS
<1> USE DEF TypeOK, NudgeStands
<1>1. CASE UNCHANGED <<snap, nudge>>
  BY <1>1
<1>2. ASSUME NEW t \in Tasks, NudgeGraceElapses(t)
      PROVE  NudgeStands'
  BY <1>2 DEF NudgeGraceElapses
<1>3. ASSUME NEW w \in Workers, WorkerStep(w) \/ PassDies(w)
      PROVE  NudgeStands'
  <2>1. CASE Heartbeat(w)
    <3>1. pc[w] \in Working
      BY <2>1 DEF Heartbeat, AfterBeat, Working, Steps
    <3>2. ~snap[job[w]].seen
      BY <3>1 DEF Exclusive
    <3> QED
      BY <2>1, <3>2 DEF Heartbeat
  <2>2. CASE ~Heartbeat(w)
    BY <1>3, <1>1, <2>2
       DEF WorkerStep, PassDies, Start, Execute, Park, Fail, Submit, Verify,
           Approve, Merge, Reject, Retry, GiveUp, Requeue, Deny, Hop, rowVars
  <2> QED
    BY <2>1, <2>2
<1>4. CASE Scan
  BY <1>4 DEF Scan, NotScanned, rowVars
<1>5. CASE SweepDies
  BY <1>5 DEF SweepDies, NotScanned
<1>6. ASSUME NEW t \in Tasks, Sweep(t)
      PROVE  NudgeStands'
  <2>1. CASE Measure(t)
    <3>1. PICK p \in {"yes", "no"} : snap' = [snap EXCEPT ![t].progress = p]
      BY <2>1 DEF Measure
    <3>2. /\ snap[t].seen /\ nudge' = nudge
          /\ NudgeEnabled => snap[t].nudge = "elapsed"
      BY <2>1 DEF Measure, GraceOver, rowVars
    <3>3. snap[t] \in Scanned
      BY <3>2 DEF NotScanned
    <3>4. snap'[t].nudge = snap[t].nudge
      BY <3>1, <3>3 DEF Scanned
    <3>5. \A u \in Tasks \ {t} : snap'[u] = snap[u]
      BY <3>1
    <3> QED
      BY <3>2, <3>4, <3>5
  <2>2. CASE ~Measure(t)
    <3>1. ~snap'[t].seen
      BY <1>6, <2>2 DEF Sweep, Nudge, Defer, Terminate, Rekick, Drop, NotScanned
    <3>2. \A u \in Tasks \ {t} : snap'[u] = snap[u] /\ nudge'[u] = nudge[u]
      BY <1>6, <2>2 DEF Sweep, Nudge, Defer, Terminate, Rekick, Drop, rowVars
    <3> QED
      BY <3>1, <3>2
  <2> QED
    BY <2>1, <2>2
<1> QED
  BY <1>1, <1>2, <1>3, <1>4, <1>5, <1>6
     DEF Next, vars, Enqueue, HeartbeatExpires, Resolve, Grab, ReadApproval,
         rowVars

\* With such a detector no task is re-kicked within its nudge grace, nor after a
\* heartbeat has closed the episode.
THEOREM RekickIsNudgedFirst ==
  ASSUME AccurateDetector
  PROVE  Spec => RekickFollowsNudge
<1>1. Init => NudgeStands
  BY DEF Init, NudgeStands, NotScanned
<1>2. TypeOK /\ HasJob /\ Exclusive /\ NudgeStands /\ [Next]_vars => NudgeStands'
  BY NudgeStandsNext
<1>3. TypeOK /\ NudgeStands /\ [Next]_vars =>
        [\A t \in Tasks :
           NudgeEnabled /\ status[t] \in Held /\ status'[t] = "up_for_grabs"
           => nudge[t] = "elapsed"]_vars
  <2> SUFFICES ASSUME TypeOK, NudgeStands, Next, NEW t \in Tasks, NudgeEnabled,
                      status[t] \in Held, status'[t] = "up_for_grabs"
               PROVE  nudge[t] = "elapsed"
    BY DEF vars
  <2>1. ASSUME NEW w \in Workers, WorkerStep(w)
        PROVE  FALSE
    BY <2>1 DEF WorkerStep, Start, Heartbeat, Execute, Park, Fail, Submit,
                Verify, Approve, Merge, Reject, Retry, GiveUp, Requeue, Deny,
                Hop, SetStatus, Moves, Held, TypeOK
  <2>2. ASSUME NEW u \in Tasks, Sweep(u)
        PROVE  Rekick(t)
    BY <2>2 DEF Sweep, Nudge, Defer, Terminate, Measure, Rekick, SetStatus,
                Held, TypeOK
  <2>3. Rekick(t)
    BY <2>1, <2>2
       DEF Next, Enqueue, Post, HeartbeatExpires, NudgeGraceElapses, Resolve,
           Grab, SetStatus, ReadApproval, PassDies, Scan, SweepDies, Held,
           Absent, TypeOK
  <2> QED
    BY <2>3 DEF Rekick, NudgeStands
<1> QED
  BY <1>1, <1>2, <1>3, ExclusiveAlways, TypeCorrect, JobsAreTasks, PTL
     DEF Spec, RekickFollowsNudge

-----------------------------------------------------------------------------
(* The queue implements the board                                           *)

\* What a step may do to the place of one worker.
LEMMA JobStep ==
  ASSUME TypeOK, [Next]_vars, NEW v \in Workers
  PROVE  \/ pc'[v] = "idle"
         \/ pc[v] # "idle" /\ job'[v] = job[v] /\ (pc[v] \in Working \/ pc'[v] = pc[v])
         \/ \E t \in Tasks : Grab(v, t) \/ ReadApproval(v, t)
<1> USE DEF TypeOK
<1> DEFINE Stays == pc[v] # "idle" /\ job'[v] = job[v]
                      /\ (pc[v] \in Working \/ pc'[v] = pc[v])
<1>1. CASE pc'[v] = pc[v] /\ job'[v] = job[v]
  BY <1>1
<1>2. ASSUME NEW w \in Workers, WorkerStep(w) \/ PassDies(w)
      PROVE  pc'[v] = "idle" \/ Stays
  <2>1. CASE v # w
    BY <1>2, <2>1, PassIsLocal
  <2>2. CASE v = w /\ (Start(w) \/ Execute(w) \/ Verify(w))
    BY <2>2 DEF Start, Execute, Verify, Goto, Working, Steps
  <2>3. CASE v = w /\ Heartbeat(w)
    BY <2>3 DEF Heartbeat, AfterBeat, Goto, Working, Steps
  <2>4. CASE v = w /\ (Submit(w) \/ Approve(w) \/ Reject(w) \/ Retry(w))
    BY <2>4 DEF Submit, Approve, Reject, Retry, Hop, Goto, NextAttempt, Finish,
                Working, Steps
  <2>5. CASE v = w /\ (Park(w) \/ Fail(w) \/ Merge(w) \/ GiveUp(w) \/ Requeue(w)
                        \/ Deny(w) \/ PassDies(w))
    BY <2>5 DEF Park, Fail, Merge, GiveUp, Requeue, Deny, PassDies, Hop, Finish
  <2> QED
    BY <1>2, <2>1, <2>2, <2>3, <2>4, <2>5 DEF WorkerStep
<1>3. ASSUME NEW w \in Workers, NEW t \in Tasks, Grab(w, t) \/ ReadApproval(w, t)
      PROVE  \/ Grab(v, t) \/ ReadApproval(v, t)
             \/ pc'[v] = pc[v] /\ job'[v] = job[v]
  BY <1>3 DEF Grab, ReadApproval
<1>4. CASE UNCHANGED workerVars
  BY <1>4 DEF workerVars
<1> QED
  BY <1>1, <1>2, <1>3, <1>4
     DEF Next, Enqueue, HeartbeatExpires, NudgeGraceElapses, Resolve, Scan,
         SweepDies, Sweep, Nudge, Defer, Terminate, Measure, Rekick, vars

\* A row a worker has in hand exists.
JobPosted == \A w \in Workers : pc[w] # "idle" => status[job[w]] # Absent

LEMMA JobPostedNext == TypeOK /\ HasJob /\ JobPosted /\ [Next]_vars => JobPosted'
<1> SUFFICES ASSUME TypeOK, HasJob, JobPosted, [Next]_vars,
                    NEW v \in Workers, pc'[v] # "idle"
             PROVE  status'[job'[v]] # Absent
  BY DEF JobPosted
<1>1. ASSUME NEW t \in Tasks, status[t] # Absent
      PROVE  status'[t] # Absent
  <2>1. CASE status'[t] # status[t]
    <3>1. Absent \notin States /\ \A s \in States : Successors[s] \subseteq States
      BY DEF Absent, Successors, States, Terminal
    <3>. QED BY <1>1, <2>1, <3>1, StatusStep DEF CanTransition, Absent
  <2>. QED BY <1>1, <2>1
<1>2. CASE pc[v] # "idle" /\ job'[v] = job[v]
  BY <1>1, <1>2 DEF HasJob, JobPosted
<1>3. ASSUME NEW t \in Tasks, Grab(v, t) \/ ReadApproval(v, t)
      PROVE  status'[job'[v]] # Absent
  BY <1>3 DEF Grab, ReadApproval, SetStatus, Absent, TypeOK
<1> QED
  BY <1>2, <1>3, JobStep

\* Every guarded hop but the claim is one legal edge of the board.
LEMMA HopAdvances ==
  ASSUME NEW t \in Tasks, NEW to \in States \ {"claimed"}, NEW from,
         Moves(t, to, from), SetStatus(t, to)
  PROVE  BoardNext
BY DEF Moves, SetStatus, Advance, BoardNext

LEMMA BoardStep ==
  TypeOK /\ HasJob /\ JobPosted /\ [Next]_vars => [BoardNext]_boardVars
<1> SUFFICES ASSUME TypeOK, HasJob, JobPosted, [Next]_vars PROVE [BoardNext]_boardVars
  OBVIOUS
<1>1. CASE UNCHANGED <<status, deps>>
  BY <1>1 DEF boardVars
<1>2. ASSUME NEW t \in Tasks, NEW D \in SUBSET Tasks, Enqueue(t, D)
      PROVE  BoardNext
  BY <1>2 DEF Enqueue, BoardNext
<1>3. ASSUME NEW w \in Workers, NEW t \in Tasks, Grab(w, t)
      PROVE  BoardNext
  <2>1. CanTransition(status[t], "claimed") /\ Ready(t) /\ SetStatus(t, "claimed")
    BY <1>3 DEF Grab, CanTransition, Successors, States
  <2>. QED BY <2>1 DEF SetStatus, Advance, BoardNext, States
<1>4. ASSUME NEW w \in Workers, WorkerStep(w)
      PROVE  [BoardNext]_boardVars
  <2>0. pc[w] # "idle"
    BY <1>4 DEF WorkerStep, Start, Heartbeat, AfterBeat, Execute, Park, Fail,
                Submit, Verify, Approve, Merge, Reject, Retry, GiveUp, Requeue, Deny
  <2>1. job[w] \in Tasks /\ status[job[w]] # Absent
    BY <2>0 DEF HasJob, JobPosted
  <2>2. CASE Deny(w)
    <3>1. Refuse(job[w])
      BY <2>1, <2>2 DEF Deny, SetStatus, Refuse
    <3>. QED BY <2>1, <3>1 DEF BoardNext
  <2>3. CASE Start(w) \/ Park(w) \/ Fail(w) \/ Submit(w) \/ Requeue(w)
    <3>1. \/ UNCHANGED <<status, deps>>
          \/ \E to \in States \ {"claimed"} : \E from \in {{"claimed"}, {"in_progress"}, {"blocked"}, SubmitFrom(job[w])} :
               Moves(job[w], to, from) /\ SetStatus(job[w], to)
      BY <2>3 DEF Start, Park, Fail, Submit, Requeue, States
    <3>. QED BY <2>1, <3>1, HopAdvances, <1>1
  <2>4. CASE Approve(w) \/ Merge(w) \/ Reject(w) \/ Retry(w) \/ GiveUp(w)
    <3>1. \/ UNCHANGED <<status, deps>>
          \/ \E to \in States \ {"claimed"} :
               Moves(job[w], to, States) /\ SetStatus(job[w], to)
      BY <2>4 DEF Approve, Merge, Reject, Retry, GiveUp, Hop, States
    <3>. QED BY <2>1, <3>1, HopAdvances, <1>1
  <2>5. CASE Heartbeat(w) \/ Execute(w) \/ Verify(w)
    BY <2>5, <1>1 DEF Heartbeat, Execute, Verify
  <2> QED
    BY <1>4, <2>2, <2>3, <2>4, <2>5 DEF WorkerStep
<1>5. ASSUME NEW t \in Tasks, Sweep(t)
      PROVE  [BoardNext]_boardVars
  <2>1. CASE Terminate(t)
    BY <2>1, <1>1, HopAdvances DEF Terminate, States
  <2>2. CASE Rekick(t) /\ StillHeld(t)
    <3>1. CanTransition(status[t], "up_for_grabs") /\ SetStatus(t, "up_for_grabs")
      BY <2>2 DEF Rekick, StillHeld, Held, CanTransition, Successors, States
    <3>. QED BY <3>1 DEF SetStatus, Advance, BoardNext, States
  <2>3. CASE Nudge(t) \/ Defer(t) \/ Measure(t) \/ (Rekick(t) /\ ~StillHeld(t))
    BY <2>3, <1>1 DEF Nudge, Defer, Measure, Rekick
  <2> QED
    BY <1>5, <2>1, <2>2, <2>3 DEF Sweep
<1> QED
  BY <1>1, <1>2, <1>3, <1>4, <1>5
     DEF Next, vars, HeartbeatExpires, NudgeGraceElapses, Resolve, ReadApproval,
         PassDies, Scan, SweepDies

\* The queue, its workers, zombies, crashes and sweeps implement the board: whoever
\* moves a row moves it along one edge of TRANSITIONS or refuses it by force, and only
\* grab_task claims, behind the dependency gate.
THEOREM QueueImplementsBoard == Spec => ImplementsBoard
<1>1. Init => BoardInit /\ JobPosted
  BY DEF Init, JobPosted
<1>2. TypeOK /\ HasJob /\ JobPosted /\ [Next]_vars => JobPosted'
  BY JobPostedNext
<1>3. TypeOK /\ HasJob /\ JobPosted /\ [Next]_vars => [BoardNext]_boardVars
  BY BoardStep
<1> QED
  BY <1>1, <1>2, <1>3, TypeCorrect, JobsAreTasks, PTL
     DEF Spec, ImplementsBoard, BoardSpec

-----------------------------------------------------------------------------
(* The verdict on a task's only request                                     *)

\* What is known of a task whose passes asked once, and of the workers that read its
\* verdict: while the request is pending the task is parked, once it is denied the
\* task stays parked until it is abandoned, and what a reader remembers still stands.
OneAsk(t) ==
  asks[t] = 1 =>
    /\ approval[t] = "pending" => status[t] = "blocked"
    /\ approval[t] = "denied" => status[t] \in {"blocked", "abandoned"}

Remembers(w) ==
  LET t == job[w] IN
  /\ pc[w] \in {"requeue", "deny"} => approval[t] # "none"
  /\ pc[w] = "park" => asks[t] # 0
  /\ asks[t] = 1 =>
       /\ pc[w] = "requeue" => approval[t] = "approved"
       /\ pc[w] = "deny" => approval[t] = "denied"
       /\ pc[w] = "park" => approval[t] = "none"

AskInv ==
  /\ \A t \in Tasks : OneAsk(t) /\ (approval[t] # "none" => asks[t] # 0)
  /\ \A w \in Workers : Remembers(w)

\* A parked task is moved by nobody but a worker that has read its verdict.
LEMMA ParkedStep ==
  ASSUME TypeOK, HasJob, Exclusive, [Next]_vars, NEW t \in Tasks,
         status[t] = "blocked", status'[t] # "blocked"
  PROVE  \E w \in Workers : job[w] = t /\ (Requeue(w) \/ Deny(w))
<1> USE DEF TypeOK
<1>1. ASSUME NEW u \in Tasks, NEW D \in SUBSET Tasks, Enqueue(u, D)
      PROVE  FALSE
  BY <1>1 DEF Enqueue, Post, Absent
<1>2. ASSUME NEW u \in Tasks, NEW w \in Workers, Grab(w, u)
      PROVE  FALSE
  BY <1>2 DEF Grab, SetStatus
<1>3. ASSUME NEW w \in Workers, WorkerStep(w)
      PROVE  job[w] = t /\ (Requeue(w) \/ Deny(w))
  <2>1. CASE pc[w] \in Working
    <3>1. job[w] = t
      BY <1>3, <2>1, PassKeepsRow
    <3>. QED BY <2>1, <3>1 DEF Exclusive
  <2>2. CASE Requeue(w) \/ Deny(w)
    BY <2>2 DEF Requeue, Deny, SetStatus
  <2>3. pc[w] \in Working \/ Requeue(w) \/ Deny(w)
    BY <1>3 DEF WorkerStep, Start, Heartbeat, AfterBeat, Execute, Park, Fail,
                Submit, Verify, Approve, Merge, Reject, Retry, GiveUp, Working,
                Steps
  <2> QED
    BY <2>1, <2>2, <2>3
<1>4. ASSUME NEW u \in Tasks, Sweep(u)
      PROVE  FALSE
  BY <1>4 DEF Sweep, Nudge, Defer, Terminate, Measure, Rekick, StillHeld, Moves,
              Held, SetStatus
<1> QED
  BY <1>1, <1>2, <1>3, <1>4
     DEF Next, vars, HeartbeatExpires, NudgeGraceElapses, Resolve, ReadApproval,
         PassDies, Scan, SweepDies

\* A row that is over is rewritten by a forced denial only.
LEMMA OverStep ==
  ASSUME TypeOK, HasJob, [Next]_vars, NEW t \in Tasks,
         status[t] \in Terminal, status'[t] # status[t]
  PROVE  \E w \in Workers : pc[w] = "deny" /\ job[w] = t /\ status'[t] = "abandoned"
BY StatusStep DEF CanTransition, Successors, States, Terminal, Absent

\* The steps that touch neither a request nor its verdict keep what is known of a task.
LEMMA OneAskKept ==
  ASSUME TypeOK, HasJob, Exclusive, AskInv, [Next]_vars, NEW t \in Tasks,
         approval'[t] = approval[t], asks'[t] = asks[t]
  PROVE  OneAsk(t)'
<1> SUFFICES ASSUME asks[t] = 1, approval[t] \in {"pending", "denied"}, status'[t] # status[t]
             PROVE  approval[t] = "denied" /\ status'[t] \in {"blocked", "abandoned"}
  BY DEF AskInv, OneAsk
<1>1. status[t] \in {"blocked", "abandoned"}
  BY DEF AskInv, OneAsk
<1>2. CASE status[t] = "blocked"
  <2>1. PICK w \in Workers : job[w] = t /\ (Requeue(w) \/ Deny(w))
    BY <1>2, ParkedStep
  <2>2. Remembers(w)
    BY DEF AskInv
  <2>3. Deny(w) /\ approval[t] = "denied"
    BY <2>1, <2>2 DEF Remembers, Requeue, Deny
  <2>. QED BY <2>1, <2>3 DEF Deny, SetStatus, TypeOK
<1>3. CASE status[t] = "abandoned"
  BY <1>3, OverStep DEF Terminal
<1>. QED BY <1>1, <1>2, <1>3

\* A worker comes to remember a verdict by reading it, and to a park by asking.
LEMMA ReaderStep ==
  ASSUME TypeOK, HasJob, [Next]_vars, UNCHANGED <<approval, asks>>, NEW v \in Workers
  PROVE  \/ pc'[v] \notin {"requeue", "deny", "park"}
         \/ pc'[v] = pc[v] /\ job'[v] = job[v]
         \/ \E t \in Tasks : ReadApproval(v, t)
<1> USE DEF TypeOK
<1> DEFINE Away == pc'[v] \notin {"requeue", "deny", "park"}
           Stays == pc'[v] = pc[v] /\ job'[v] = job[v]
<1>1. ASSUME NEW w \in Workers, WorkerStep(w) \/ PassDies(w)
      PROVE  Away \/ Stays
  <2>1. CASE v # w
    BY <1>1, <2>1, PassIsLocal
  <2>2. CASE v = w /\ Execute(w)
    <3>1. job[w] \in Tasks /\ asks[job[w]] \in Nat
      BY <2>2, ConstantsAssumption DEF Execute, HasJob
    <3>2. asks # [asks EXCEPT ![job[w]] = @ + 1]
      BY <3>1
    <3>3. pc' \in {[pc EXCEPT ![w] = "beatSubmit"], [pc EXCEPT ![w] = "fail"]}
      BY <2>2, <3>2 DEF Execute, Goto
    <3>. QED BY <2>2, <3>3
  <2>3. CASE v = w /\ (Start(w) \/ Verify(w))
    BY <2>3 DEF Start, Verify, Goto
  <2>4. CASE v = w /\ Heartbeat(w)
    BY <2>4 DEF Heartbeat, AfterBeat, Goto
  <2>5. CASE v = w /\ (Submit(w) \/ Approve(w) \/ Reject(w) \/ Retry(w))
    BY <2>5 DEF Submit, Approve, Reject, Retry, Hop, Goto, NextAttempt, Finish
  <2>6. CASE v = w /\ (Park(w) \/ Fail(w) \/ Merge(w) \/ GiveUp(w) \/ Requeue(w)
                        \/ Deny(w) \/ PassDies(w))
    BY <2>6 DEF Park, Fail, Merge, GiveUp, Requeue, Deny, PassDies, Hop, Finish
  <2> QED
    BY <1>1, <2>1, <2>2, <2>3, <2>4, <2>5, <2>6 DEF WorkerStep
<1>2. ASSUME NEW w \in Workers, NEW t \in Tasks, Grab(w, t) \/ ReadApproval(w, t)
      PROVE  Away \/ Stays \/ ReadApproval(v, t)
  BY <1>2 DEF Grab, ReadApproval
<1>3. CASE UNCHANGED workerVars
  BY <1>3 DEF workerVars
<1> QED
  BY <1>1, <1>2, <1>3
     DEF Next, Enqueue, HeartbeatExpires, NudgeGraceElapses, Resolve, Scan,
         SweepDies, Sweep, Nudge, Defer, Terminate, Measure, Rekick, vars

LEMMA AskNext ==
  TypeOK /\ HasJob /\ HasJob' /\ Exclusive /\ AskInv /\ [Next]_vars => AskInv'
<1> SUFFICES ASSUME TypeOK, HasJob, HasJob', Exclusive, AskInv, [Next]_vars PROVE AskInv'
  OBVIOUS
<1> DEFINE Same(v) == pc'[v] = "idle" \/ (pc'[v] = pc[v] /\ job'[v] = job[v])
<1>1. CASE UNCHANGED <<approval, asks>>
  <2>1. \A t \in Tasks : OneAsk(t)' /\ (approval'[t] # "none" => asks'[t] # 0)
    BY <1>1, OneAskKept DEF AskInv
  <2>2. ASSUME NEW v \in Workers PROVE Remembers(v)'
    <3>1. CASE pc'[v] \notin {"requeue", "deny", "park"}
      BY <3>1 DEF Remembers
    <3>2. CASE pc'[v] = pc[v] /\ job'[v] = job[v]
      BY <1>1, <3>2 DEF Remembers, AskInv
    <3>3. ASSUME NEW t \in Tasks, ReadApproval(v, t) PROVE Remembers(v)'
      BY <3>3 DEF ReadApproval, Resolved, Remembers, gateVars, TypeOK
    <3>. QED
      BY <1>1, <3>1, <3>2, <3>3, ReaderStep
  <2>. QED BY <2>1, <2>2 DEF AskInv
<1>2. ASSUME NEW t \in Tasks, Resolve(t) PROVE AskInv'
  <2>1. /\ approval[t] = "pending" /\ approval'[t] \in {"approved", "denied"}
        /\ \A u \in Tasks \ {t} : approval'[u] = approval[u]
        /\ asks' = asks /\ pc' = pc /\ job' = job /\ status' = status
    BY <1>2 DEF Resolve, workerVars, TypeOK
  <2>2. ASSUME NEW u \in Tasks
        PROVE  OneAsk(u)' /\ (approval'[u] # "none" => asks'[u] # 0)
    BY <2>1 DEF AskInv, OneAsk
  <2>3. ASSUME NEW v \in Workers PROVE Remembers(v)'
    <3>1. CASE pc[v] \in {"requeue", "deny", "park"}
      <4>1. job[v] \in Tasks
        BY <3>1 DEF HasJob
      <4>2. CASE job[v] = t
        BY <2>1, <3>1, <4>2 DEF AskInv, Remembers
      <4>3. CASE job[v] # t
        BY <2>1, <4>1, <4>3 DEF AskInv, Remembers
      <4>. QED BY <4>2, <4>3
    <3>2. CASE pc[v] \notin {"requeue", "deny", "park"}
      BY <2>1, <3>2 DEF Remembers
    <3>. QED BY <3>1, <3>2
  <2>. QED BY <2>2, <2>3 DEF AskInv
<1>3. ASSUME NEW w \in Workers, Execute(w), asks' # asks PROVE AskInv'
  <2> DEFINE t == job[w]
  <2>1. /\ pc[w] = "exec" /\ pc' = [pc EXCEPT ![w] = "park"] /\ job' = job
        /\ asks' = [asks EXCEPT ![t] = @ + 1]
        /\ approval' = approval /\ status' = status
    BY <1>3 DEF Execute, Goto
  <2>2. t \in Tasks /\ asks[t] \in Nat
    BY <2>1, ConstantsAssumption DEF HasJob, TypeOK
  <2>3. /\ asks'[t] = asks[t] + 1 /\ pc'[w] = "park"
        /\ \A u \in Tasks \ {t} : asks'[u] = asks[u]
        /\ \A v \in Workers \ {w} : pc'[v] = pc[v]
    BY <2>1, <2>2 DEF TypeOK
  <2>4. asks'[t] # 0 /\ (asks'[t] = 1 => asks[t] = 0)
    BY <2>2, <2>3
  <2> HIDE DEF t
  <2>5. ASSUME NEW u \in Tasks
        PROVE  OneAsk(u)' /\ (approval'[u] # "none" => asks'[u] # 0)
    BY <2>1, <2>3, <2>4 DEF AskInv, OneAsk
  <2>6. ASSUME NEW v \in Workers PROVE Remembers(v)'
    <3>1. CASE v = w
      BY <2>1, <2>2, <2>3, <2>4, <3>1 DEF AskInv, Remembers, t
    <3>2. CASE v # w /\ pc[v] \in {"requeue", "deny", "park"}
      <4>1. job[v] \in Tasks
        BY <3>2 DEF HasJob
      <4>2. CASE job[v] = t
        <5>1. asks[t] # 0
          BY <2>2, <3>2, <4>1, <4>2 DEF AskInv, Remembers
        <5>. QED BY <2>1, <2>3, <2>4, <3>2, <4>2, <5>1 DEF AskInv, Remembers
      <4>3. CASE job[v] # t
        BY <2>1, <2>3, <3>2, <4>1, <4>3 DEF AskInv, Remembers
      <4>. QED BY <4>2, <4>3
    <3>3. CASE v # w /\ pc[v] \notin {"requeue", "deny", "park"}
      BY <2>3, <3>3 DEF Remembers
    <3>. QED BY <3>1, <3>2, <3>3
  <2>. QED BY <2>5, <2>6 DEF AskInv
<1>4. ASSUME NEW w \in Workers, Park(w), approval' # approval PROVE AskInv'
  <2> DEFINE t == job[w]
  <2>1. /\ pc[w] = "park" /\ pc' = [pc EXCEPT ![w] = "idle"]
        /\ job' = [job EXCEPT ![w] = NoTask] /\ asks' = asks
        /\ status' = [status EXCEPT ![t] = "blocked"]
        /\ approval' = [approval EXCEPT ![t] = "pending"]
    BY <1>4 DEF Park, Finish, SetStatus
  <2>2. t \in Tasks /\ asks[t] # 0 /\ (asks[t] = 1 => approval[t] = "none")
    BY <2>1 DEF HasJob, AskInv, Remembers
  <2>3. /\ status'[t] = "blocked" /\ approval'[t] = "pending" /\ pc'[w] = "idle"
        /\ \A u \in Tasks \ {t} : approval'[u] = approval[u] /\ status'[u] = status[u]
        /\ \A v \in Workers \ {w} : pc'[v] = pc[v] /\ job'[v] = job[v]
    BY <2>1, <2>2 DEF TypeOK
  <2>4. \A v \in Workers \ {w} : pc[v] = "park" => job[v] # t
    BY <2>1 DEF Exclusive, SingleExecutor, Working, Steps
  <2> HIDE DEF t
  <2>5. ASSUME NEW u \in Tasks
        PROVE  OneAsk(u)' /\ (approval'[u] # "none" => asks'[u] # 0)
    BY <2>1, <2>2, <2>3 DEF AskInv, OneAsk
  <2>6. ASSUME NEW v \in Workers PROVE Remembers(v)'
    <3>1. CASE v = w
      BY <2>3, <3>1 DEF Remembers
    <3>2. CASE v # w /\ pc[v] \in {"requeue", "deny", "park"}
      <4>1. job[v] \in Tasks
        BY <3>2 DEF HasJob
      <4>2. CASE job[v] = t
        BY <2>1, <2>2, <2>3, <2>4, <3>2, <4>2 DEF AskInv, Remembers
      <4>3. CASE job[v] # t
        BY <2>1, <2>3, <3>2, <4>1, <4>3 DEF AskInv, Remembers
      <4>. QED BY <4>2, <4>3
    <3>3. CASE v # w /\ pc[v] \notin {"requeue", "deny", "park"}
      BY <2>3, <3>3 DEF Remembers
    <3>. QED BY <3>1, <3>2, <3>3
  <2>. QED BY <2>5, <2>6 DEF AskInv
<1>5. \/ UNCHANGED <<approval, asks>>
      \/ \E t \in Tasks : Resolve(t)
      \/ \E w \in Workers : \/ Execute(w) /\ asks' # asks
                            \/ Park(w) /\ approval' # approval
  BY DEF Next, vars, gateVars, Enqueue, HeartbeatExpires, NudgeGraceElapses, Grab,
         ReadApproval, WorkerStep, PassDies, Start, Heartbeat, Execute, Park, Fail,
         Submit, Verify, Approve, Merge, Reject, Retry, GiveUp, Requeue, Deny, Hop,
         Scan, SweepDies, Sweep, Nudge, Defer, Terminate, Measure, Rekick
<1> QED
  BY <1>1, <1>2, <1>3, <1>4, <1>5

\* With an accurate detector the first verdict on a task stands: the task waits for it,
\* follows it, and once over is never rewritten, whichever workers read the verdict at
\* the same time.  TaskQueue_claims.cfg shows that a second request of the task breaks
\* both.
THEOREM FirstVerdictStands ==
  ASSUME AccurateDetector
  PROVE  Spec => FirstVerdictIsKept
<1>1. Init => AskInv
  BY DEF Init, AskInv, OneAsk, Remembers
<1>2. TypeOK /\ HasJob /\ HasJob' /\ Exclusive /\ AskInv /\ [Next]_vars => AskInv'
  BY AskNext
<1>3. TypeOK /\ HasJob /\ Exclusive /\ AskInv /\ [Next]_vars =>
        [\A t \in Tasks : asks[t] <= 1 /\ status'[t] # status[t] =>
           /\ status[t] \notin Terminal
           /\ status[t] = "blocked" =>
                \/ approval[t] = "approved" /\ status'[t] = "up_for_grabs"
                \/ approval[t] = "denied" /\ status'[t] = "abandoned"]_vars
  <2> SUFFICES ASSUME TypeOK, HasJob, Exclusive, AskInv, [Next]_vars, NEW t \in Tasks,
                      asks[t] <= 1, status'[t] # status[t]
               PROVE  /\ status[t] \notin Terminal
                      /\ status[t] = "blocked" =>
                           \/ approval[t] = "approved" /\ status'[t] = "up_for_grabs"
                           \/ approval[t] = "denied" /\ status'[t] = "abandoned"
    OBVIOUS
  <2>0. asks[t] \in Nat
    BY ConstantsAssumption DEF TypeOK
  <2>1. \A w \in Workers : job[w] = t /\ pc[w] \in {"requeue", "deny"} => asks[t] = 1
    BY <2>0 DEF AskInv, Remembers
  <2>2. CASE status[t] \in Terminal
    <3>1. PICK w \in Workers : pc[w] = "deny" /\ job[w] = t /\ status'[t] = "abandoned"
      BY <2>2, OverStep
    <3>2. asks[t] = 1 /\ approval[t] = "denied"
      BY <2>1, <3>1 DEF AskInv, Remembers
    <3>. QED BY <2>2, <3>1, <3>2 DEF AskInv, OneAsk, Terminal
  <2>3. CASE status[t] = "blocked"
    <3>1. PICK w \in Workers : job[w] = t /\ (Requeue(w) \/ Deny(w))
      BY <2>3, ParkedStep
    <3>2. pc[w] \in {"requeue", "deny"}
      BY <3>1 DEF Requeue, Deny
    <3>3. /\ pc[w] = "requeue" => approval[t] = "approved"
          /\ pc[w] = "deny" => approval[t] = "denied"
      BY <2>1, <3>1, <3>2 DEF AskInv, Remembers
    <3>. QED BY <2>3, <3>1, <3>3 DEF Requeue, Deny, SetStatus, Terminal, TypeOK
  <2>. QED BY <2>2, <2>3
<1> QED
  BY <1>1, <1>2, <1>3, ExclusiveAlways, TypeCorrect, JobsAreTasks, PTL
     DEF Spec, FirstVerdictIsKept

=============================================================================
