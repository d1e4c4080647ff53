----------------------------- MODULE TaskQueue -----------------------------
(***************************************************************************)
(* The task queue of runtime/tasks.py, the worker loop of                  *)
(* runtime/worker.py and the recovery ladder of runtime/supervisor.py.     *)
(*                                                                         *)
(* The tasks table is the only shared state.  Each action below is one     *)
(* database transaction (or one step of a handler between transactions),   *)
(* so every interleaving of workers, the supervisor and the human who      *)
(* resolves approvals is a behaviour.  A worker keeps its program counter  *)
(* and its task between transactions and does not look again at who owns   *)
(* the row: after a re-kick two workers may run one task.                  *)
(***************************************************************************)
EXTENDS TaskBoard, Integers

CONSTANTS
  Workers,           \* worker processes (worker.run), each with its WORKER_ID
  NoWorker, NoTask,
  Kind,              \* Kind[t]: "work" (the review loop) or "internal"
  Eligible,          \* Eligible[t]: workers whose assignee/workstream filter admits t
  MaxAttempts,       \* WORKER_MAX_WORK_ATTEMPTS
  MaxRetries,        \* SUPERVISOR_MAX_RETRIES
  StuckThreshold,    \* SUPERVISOR_STUCK_THRESHOLD
  NudgeEnabled,      \* SUPERVISOR_NUDGE_GRACE_S > 0
  AccurateDetector,  \* a heartbeat expires only once nobody works on the task
  MaxAsks,           \* bound: how often the passes over one task may request an approval
  MaxCrashes         \* bound: how many worker passes and sweeps may die

ASSUME ConstantsAssumption ==
  /\ NoWorker \notin Workers /\ NoTask \notin Tasks
  /\ Kind \in [Tasks -> {"work", "internal"}]
  /\ Eligible \in [Tasks -> SUBSET Workers]
  /\ MaxAttempts \in Nat \ {0} /\ MaxRetries \in Nat /\ StuckThreshold \in Nat
  /\ MaxAsks \in Nat /\ MaxCrashes \in Nat
  /\ NudgeEnabled \in BOOLEAN /\ AccurateDetector \in BOOLEAN

VARIABLES
  owner,       \* claimed_by
  lease,       \* heartbeat_at: NULL, or within / beyond the stale threshold
  nudge,       \* nudged_at: NULL, or within / beyond the nudge grace
  retries,     \* retries
  noProgress,  \* no_progress_rekicks
  progressed,  \* is a model.call event newer than last_progress_at?
  approval,    \* the approval a task was last parked on
  asks,        \* how many approvals its passes have requested
  verified,    \* history: a Verifier has passed the task
  pc, job, attempt,  \* per worker: next step, task in hand, attempt number
  snap,        \* the supervisor's scan: what is left of the current sweep
  crashes

rowVars == <<owner, lease, nudge, retries, noProgress, progressed>>
gateVars == <<approval, asks, verified>>
workerVars == <<pc, job, attempt>>
vars == <<status, deps, rowVars, gateVars, workerVars, snap, crashes>>

Leases == {"none", "fresh", "stale"}
Nudges == {"none", "open", "elapsed"}
Approvals == {"none", "pending", "approved", "denied"}
Steps == {"idle", "start", "beatExec", "exec", "park", "fail", "beatSubmit",
          "submit", "verify", "beatPass", "beatFail", "approve", "merge",
          "reject", "retry", "giveUp", "requeue", "deny"}

\* A pass over a task it claimed; the other two steps are resume_approved's.
Working == Steps \ {"idle", "requeue", "deny"}

NotScanned == [seen |-> FALSE]
Scanned == [seen : {TRUE}, nudge : Nudges, retries : Nat, noProgress : Nat,
            progress : {"unread", "yes", "no"}]

TypeOK ==
  /\ status \in [Tasks -> States \cup {Absent}]
  /\ deps \in [Tasks -> SUBSET Tasks]
  /\ owner \in [Tasks -> Workers \cup {NoWorker}]
  /\ lease \in [Tasks -> Leases]
  /\ nudge \in [Tasks -> Nudges]
  /\ retries \in [Tasks -> Nat]
  /\ noProgress \in [Tasks -> Nat]
  /\ progressed \in [Tasks -> BOOLEAN]
  /\ approval \in [Tasks -> Approvals]
  /\ asks \in [Tasks -> 0..MaxAsks]
  /\ verified \in [Tasks -> BOOLEAN]
  /\ pc \in [Workers -> Steps]
  /\ job \in [Workers -> Tasks \cup {NoTask}]
  /\ attempt \in [Workers -> 1..MaxAttempts]
  /\ snap \in [Tasks -> {NotScanned} \cup Scanned]
  /\ crashes \in 0..MaxCrashes

Init ==
  /\ BoardInit
  /\ owner = [t \in Tasks |-> NoWorker]
  /\ lease = [t \in Tasks |-> "none"]
  /\ nudge = [t \in Tasks |-> "none"]
  /\ retries = [t \in Tasks |-> 0]
  /\ noProgress = [t \in Tasks |-> 0]
  /\ progressed = [t \in Tasks |-> FALSE]
  /\ approval = [t \in Tasks |-> "none"]
  /\ asks = [t \in Tasks |-> 0]
  /\ verified = [t \in Tasks |-> FALSE]
  /\ pc = [w \in Workers |-> "idle"]
  /\ job = [w \in Workers |-> NoTask]
  /\ attempt = [w \in Workers |-> 1]
  /\ snap = [t \in Tasks |-> NotScanned]
  /\ crashes = 0

-----------------------------------------------------------------------------
(* Helpers                                                                 *)

Busy(t) == \E w \in Workers : job[w] = t /\ pc[w] \in Working

\* Worker w goes on to step p with the task it has.
Goto(w, p) == pc' = [pc EXCEPT ![w] = p] /\ UNCHANGED <<job, attempt>>

\* The pass of worker w is over (it returned, or raised and run() caught it).
Finish(w) ==
  /\ pc' = [pc EXCEPT ![w] = "idle"]
  /\ job' = [job EXCEPT ![w] = NoTask]
  /\ attempt' = [attempt EXCEPT ![w] = 1]

\* transition(task, to, expected_from): the guarded write succeeds, is a no-op
\* that returns None, or raises IllegalTransition.
MovesUnchecked(t, to, from) == status[t] \in from /\ status[t] # to
Moves(t, to, from) == status[t] \in from /\ CanTransition(status[t], to)
Skips(t, to, from) == status[t] \notin from \/ status[t] = to
Raises(t, to, from) == ~Moves(t, to, from) /\ ~Skips(t, to, from)

\* clear_claim=True
ClearClaim(t) ==
  /\ owner' = [owner EXCEPT ![t] = NoWorker]
  /\ lease' = [lease EXCEPT ![t] = "none"]

SetStatus(t, to) == status' = [status EXCEPT ![t] = to] /\ UNCHANGED deps

-----------------------------------------------------------------------------
(* Producers and the clock                                                 *)

\* enqueue_task
Enqueue(t, D) ==
  /\ Post(t, D)
  /\ UNCHANGED <<rowVars, gateVars, workerVars, snap, crashes>>

\* The heartbeat of a held task grows older than SUPERVISOR_STALE_S.
HeartbeatExpires(t) ==
  /\ status[t] \in Held /\ lease[t] = "fresh"
  /\ AccurateDetector => ~Busy(t)
  /\ lease' = [lease EXCEPT ![t] = "stale"]
  /\ UNCHANGED <<status, deps, owner, nudge, retries, noProgress, progressed,
                 gateVars, workerVars, snap, crashes>>

\* SUPERVISOR_NUDGE_GRACE_S passes after nudged_at.
NudgeGraceElapses(t) ==
  /\ nudge[t] = "open"
  /\ nudge' = [nudge EXCEPT ![t] = "elapsed"]
  /\ UNCHANGED <<status, deps, owner, lease, retries, noProgress, progressed,
                 gateVars, workerVars, snap, crashes>>

-----------------------------------------------------------------------------
(* Worker: claim                                                           *)

\* grab_task: one of the grabbable rows (ORDER BY ... SKIP LOCKED may pass over
\* any row another grab has locked, so which one is not determined).
Grab(w, t) ==
  /\ pc[w] = "idle"
  /\ w \in Eligible[t]
  /\ status[t] = "up_for_grabs"
  /\ Ready(t)
  /\ SetStatus(t, "claimed")
  /\ owner' = [owner EXCEPT ![t] = w]
  /\ lease' = [lease EXCEPT ![t] = "fresh"]
  /\ pc' = [pc EXCEPT ![w] = "start"]
  /\ job' = [job EXCEPT ![w] = t]
  /\ UNCHANGED <<attempt, nudge, retries, noProgress, progressed, gateVars,
                 snap, crashes>>

\* start_task, the second half of claim_task: expects claimed, but not by whom;
\* claim_task returns the task whether or not the row was still claimed.
Start(w) ==
  LET t == job[w] IN
  /\ pc[w] = "start"
  /\ Goto(w, "beatExec")
  /\ \/ /\ Moves(t, "in_progress", {"claimed"})
        /\ SetStatus(t, "in_progress")
        /\ lease' = [lease EXCEPT ![t] = "fresh"]
        /\ progressed' = [progressed EXCEPT ![t] = FALSE]
     \/ /\ Skips(t, "in_progress", {"claimed"})
        /\ UNCHANGED <<status, deps, lease, progressed>>
  /\ UNCHANGED <<owner, nudge, retries, noProgress, gateVars, snap, crashes>>

\* heartbeat: only the claim holder of a held task; closes a nudge episode.
AfterBeatFailApproves == [beatExec |-> "exec", beatSubmit |-> "submit",
                          beatPass |-> "approve", beatFail |-> "approve"]
AfterBeat == [beatExec |-> "exec", beatSubmit |-> "submit",
              beatPass |-> "approve", beatFail |-> "reject"]

Heartbeat(w) ==
  LET t == job[w]
      holds == owner[t] = w /\ status[t] \in Held IN
  /\ pc[w] \in DOMAIN AfterBeat
  /\ Goto(w, AfterBeat[pc[w]])
  /\ lease' = IF holds THEN [lease EXCEPT ![t] = "fresh"] ELSE lease
  /\ nudge' = IF holds THEN [nudge EXCEPT ![t] = "none"] ELSE nudge
  /\ UNCHANGED <<status, deps, owner, retries, noProgress, progressed,
                 gateVars, snap, crashes>>

-----------------------------------------------------------------------------
(* Worker: run the task                                                    *)

\* The role runs: model calls may be logged (progress), and it ends with a
\* result, with a tool call that requested an approval, or (internal roles)
\* with a failure.
Execute(w) ==
  LET t == job[w] IN
  /\ pc[w] = "exec"
  /\ \/ Goto(w, "beatSubmit") /\ UNCHANGED asks
     \/ /\ asks[t] < MaxAsks
        /\ Goto(w, "park")
        /\ asks' = [asks EXCEPT ![t] = @ + 1]
     \/ Kind[t] = "internal" /\ Goto(w, "fail") /\ UNCHANGED asks
  /\ progressed' \in {progressed, [progressed EXCEPT ![t] = TRUE]}
  /\ UNCHANGED <<status, deps, owner, lease, nudge, retries, noProgress,
                 approval, verified, snap, crashes>>

\* block_task: park an in_progress task on the approval just requested.  The
\* verdict matters only once the task is parked, so it counts as pending from
\* here on; ApprovalGate models the approval rows themselves.
Park(w) ==
  LET t == job[w] IN
  /\ pc[w] = "park"
  /\ Finish(w)
  /\ \/ /\ Moves(t, "blocked", {"in_progress"})
        /\ SetStatus(t, "blocked")
        /\ approval' = [approval EXCEPT ![t] = "pending"]
     \/ /\ Skips(t, "blocked", {"in_progress"})
        /\ UNCHANGED <<status, deps, approval>>
  /\ UNCHANGED <<rowVars, asks, verified, snap, crashes>>

\* complete_task(ABANDONED) by an internal handler (or an unknown task type).
Fail(w) ==
  LET t == job[w] IN
  /\ pc[w] = "fail"
  /\ Finish(w)
  /\ \/ Moves(t, "abandoned", {"in_progress"}) /\ SetStatus(t, "abandoned")
     \/ Skips(t, "abandoned", {"in_progress"}) /\ UNCHANGED <<status, deps>>
  /\ UNCHANGED <<rowVars, gateVars, snap, crashes>>

\* The states from which worker w submits: _handle_work passes no
\* expected_from, complete_task expects in_progress.
SubmitFrom(t) == IF Kind[t] = "work" THEN States ELSE {"in_progress"}

\* -> ready_for_review.  complete_task stops when the hop is a no-op.
Submit(w) ==
  LET t == job[w] IN
  /\ pc[w] = "submit"
  /\ \/ /\ Moves(t, "ready_for_review", SubmitFrom(t))
        /\ SetStatus(t, "ready_for_review")
        /\ Goto(w, IF Kind[t] = "work" THEN "verify" ELSE "approve")
     \/ /\ Skips(t, "ready_for_review", SubmitFrom(t))
        /\ IF Kind[t] = "work" THEN Goto(w, "verify") ELSE Finish(w)
        /\ UNCHANGED <<status, deps>>
     \/ /\ Raises(t, "ready_for_review", SubmitFrom(t))
        /\ Finish(w) /\ UNCHANGED <<status, deps>>
  /\ UNCHANGED <<rowVars, gateVars, snap, crashes>>

\* run_verify reaches a verdict on the artifact of this worker.
Verify(w) ==
  /\ pc[w] = "verify"
  /\ \/ /\ Goto(w, "beatPass")
        /\ verified' = [verified EXCEPT ![job[w]] = TRUE]
     \/ Goto(w, "beatFail") /\ UNCHANGED verified
  /\ UNCHANGED <<status, deps, rowVars, approval, asks, snap, crashes>>

\* A hop with no expected_from, shared by the steps below: done follows a
\* successful write, skipped a no-op, and IllegalTransition ends the pass.
Hop(w, to, Done, Skipped) ==
  LET t == job[w] IN
  /\ \/ Moves(t, to, States) /\ SetStatus(t, to) /\ Done
     \/ Skips(t, to, States) /\ Skipped /\ UNCHANGED <<status, deps>>
     \/ Raises(t, to, States) /\ Finish(w) /\ UNCHANGED <<status, deps>>
  /\ UNCHANGED <<rowVars, gateVars, snap, crashes>>

\* ready_for_review -> approved; complete_task stops on a no-op, the work loop
\* does not look at the answer.
Approve(w) ==
  /\ pc[w] = "approve"
  /\ Hop(w, "approved", Goto(w, "merge"),
         IF Kind[job[w]] = "work" THEN Goto(w, "merge") ELSE Finish(w))

Merge(w) == pc[w] = "merge" /\ Hop(w, "merged", Finish(w), Finish(w))

AttemptsLeft(w) == attempt[w] < MaxAttempts

\* ready_for_review -> reviewer_blocked, then retry or give up.
Reject(w) ==
  LET next == IF AttemptsLeft(w) THEN "retry" ELSE "giveUp" IN
  /\ pc[w] = "reject"
  /\ Hop(w, "reviewer_blocked", Goto(w, next), Goto(w, next))

NextAttempt(w) ==
  /\ pc' = [pc EXCEPT ![w] = "beatExec"]
  /\ attempt' = [attempt EXCEPT ![w] = @ + 1]
  /\ UNCHANGED job

Retry(w) ==
  pc[w] = "retry" /\ Hop(w, "in_progress", NextAttempt(w), NextAttempt(w))

GiveUp(w) == pc[w] = "giveUp" /\ Hop(w, "abandoned", Finish(w), Finish(w))

-----------------------------------------------------------------------------
(* Worker: resume_approved, and the end of a pass                          *)

\* The human resolves a pending approval.
Resolve(t) ==
  /\ approval[t] = "pending"
  /\ \E v \in {"approved", "denied"} : approval' = [approval EXCEPT ![t] = v]
  /\ UNCHANGED <<status, deps, rowVars, asks, verified, workerVars, snap, crashes>>

ResolvedIfAny(t) == approval[t] # "none"
Resolved(t) == approval[t] \in {"approved", "denied"}

\* find_blocked_tasks + get_approval: the worker has read a resolved approval.
ReadApproval(w, t) ==
  /\ pc[w] = "idle"
  /\ status[t] = "blocked"
  /\ Resolved(t)
  /\ pc' = [pc EXCEPT ![w] = IF approval[t] = "approved" THEN "requeue" ELSE "deny"]
  /\ job' = [job EXCEPT ![w] = t]
  /\ UNCHANGED <<status, deps, rowVars, gateVars, attempt, snap, crashes>>

\* requeue_blocked_task
Requeue(w) ==
  LET t == job[w] IN
  /\ pc[w] = "requeue"
  /\ Finish(w)
  /\ \/ /\ Moves(t, "up_for_grabs", {"blocked"})
        /\ SetStatus(t, "up_for_grabs")
        /\ ClearClaim(t)
     \/ /\ Skips(t, "up_for_grabs", {"blocked"})
        /\ UNCHANGED <<status, deps, owner, lease>>
  /\ UNCHANGED <<nudge, retries, noProgress, progressed, gateVars, snap, crashes>>

\* complete_task(ABANDONED, force=True): the state machine is not consulted.
Deny(w) ==
  /\ pc[w] = "deny"
  /\ Finish(w)
  /\ SetStatus(job[w], "abandoned")
  /\ UNCHANGED <<rowVars, gateVars, snap, crashes>>

\* The worker process dies, or its pass raises (database lost, role error).
PassDies(w) ==
  /\ pc[w] # "idle"
  /\ crashes < MaxCrashes
  /\ crashes' = crashes + 1
  /\ Finish(w)
  /\ UNCHANGED <<status, deps, rowVars, gateVars, snap>>

-----------------------------------------------------------------------------
(* Supervisor                                                              *)

StaleWhateverBeat(t) == status[t] \in Held
StaleIfStarted(t) == status[t] = "in_progress" /\ lease[t] # "fresh"
Stale(t) == status[t] \in Held /\ lease[t] # "fresh"
Drop(t) == snap' = [snap EXCEPT ![t] = NotScanned]

\* find_stale_tasks: one statement, a snapshot the whole sweep works from.
Scan ==
  /\ \A t \in Tasks : ~snap[t].seen
  /\ \E t \in Tasks : Stale(t)
  /\ snap' = [t \in Tasks |->
                IF Stale(t)
                THEN [seen |-> TRUE, nudge |-> nudge[t], retries |-> retries[t],
                      noProgress |-> noProgress[t], progress |-> "unread"]
                ELSE NotScanned]
  /\ UNCHANGED <<status, deps, rowVars, gateVars, workerVars, crashes>>

\* The row lock and re-check of nudge_task and rekick_task.
StillThere(t) == status[t] # Absent
StillHeld(t) == status[t] \in Held

\* Rung 1, nudge_task: guarded to a held task with no open episode.
Nudge(t) ==
  /\ snap[t].seen /\ NudgeEnabled /\ snap[t].nudge = "none"
  /\ Drop(t)
  /\ nudge' = IF StillHeld(t) /\ nudge[t] = "none"
              THEN [nudge EXCEPT ![t] = "open"] ELSE nudge
  /\ UNCHANGED <<status, deps, owner, lease, retries, noProgress, progressed,
                 gateVars, workerVars, crashes>>

\* Rung 2: still within the grace window at the time of the scan.
Defer(t) ==
  /\ snap[t].seen /\ NudgeEnabled /\ snap[t].nudge = "open"
  /\ Drop(t)
  /\ UNCHANGED <<status, deps, rowVars, gateVars, workerVars, crashes>>

GraceOverOnceNudged(t) == snap[t].seen /\ (NudgeEnabled => snap[t].nudge # "none")
GraceOver(t) == snap[t].seen /\ (NudgeEnabled => snap[t].nudge = "elapsed")

ExhaustedOffByOne(t) ==
  snap[t].noProgress > StuckThreshold \/ snap[t].retries > MaxRetries
Exhausted(t) ==
  snap[t].noProgress >= StuckThreshold \/ snap[t].retries >= MaxRetries

\* Rung 3, escalate_stuck_task, and rung 4, _default_fail_exhausted: abandon
\* the task if it is still held.
Terminate(t) ==
  /\ GraceOver(t)
  /\ Exhausted(t)
  /\ Drop(t)
  /\ \/ Moves(t, "abandoned", Held) /\ SetStatus(t, "abandoned")
     \/ Skips(t, "abandoned", Held) /\ UNCHANGED <<status, deps>>
  /\ UNCHANGED <<rowVars, gateVars, workerVars, crashes>>

\* Rung 5 begins: task_made_progress, a transaction of its own.
Measure(t) ==
  /\ GraceOver(t) /\ snap[t].progress = "unread"
  /\ ~Exhausted(t)
  /\ \A u \in Tasks : snap[u].seen => snap[u].progress = "unread"
  /\ snap' = [snap EXCEPT ![t].progress = IF progressed[t] THEN "yes" ELSE "no"]
  /\ UNCHANGED <<status, deps, rowVars, gateVars, workerVars, crashes>>

\* Rung 5 ends, rekick_task: locks the row and checks that it is still held,
\* but neither its heartbeat nor its nudge again.
Rekick(t) ==
  /\ snap[t].seen /\ snap[t].progress # "unread"
  /\ Drop(t)
  /\ IF StillHeld(t)
     THEN /\ SetStatus(t, "up_for_grabs")
          /\ ClearClaim(t)
          /\ nudge' = [nudge EXCEPT ![t] = "none"]
          /\ retries' = [retries EXCEPT ![t] = @ + 1]
          /\ noProgress' = [noProgress EXCEPT ![t] =
                              IF snap[t].progress = "yes" THEN 0 ELSE @ + 1]
          /\ progressed' = [progressed EXCEPT ![t] = FALSE]
     ELSE UNCHANGED <<status, deps, rowVars>>
  /\ UNCHANGED <<gateVars, workerVars, crashes>>

\* The supervisor is restarted in the middle of a sweep.
SweepDies ==
  /\ \E t \in Tasks : snap[t].seen
  /\ crashes < MaxCrashes
  /\ crashes' = crashes + 1
  /\ snap' = [t \in Tasks |-> NotScanned]
  /\ UNCHANGED <<status, deps, rowVars, gateVars, workerVars>>

-----------------------------------------------------------------------------
WorkerStep(w) ==
  \/ Start(w) \/ Heartbeat(w) \/ Execute(w) \/ Park(w) \/ Fail(w)
  \/ Submit(w) \/ Verify(w) \/ Approve(w) \/ Merge(w)
  \/ Reject(w) \/ Retry(w) \/ GiveUp(w) \/ Requeue(w) \/ Deny(w)

Sweep(t) == Nudge(t) \/ Defer(t) \/ Terminate(t) \/ Measure(t) \/ Rekick(t)

Next ==
  \/ \E t \in Tasks, D \in SUBSET Tasks : Enqueue(t, D)
  \/ \E t \in Tasks : HeartbeatExpires(t) \/ NudgeGraceElapses(t) \/ Resolve(t)
  \/ \E w \in Workers, t \in Tasks : Grab(w, t) \/ ReadApproval(w, t)
  \/ \E w \in Workers : WorkerStep(w) \/ PassDies(w)
  \/ Scan \/ SweepDies
  \/ \E t \in Tasks : Sweep(t)

Spec == Init /\ [][Next]_vars

\* The supervisor loop keeps sweeping and time passes; nothing is assumed of
\* the workers, so a worker may hang in any step.
SupervisorFairness ==
  /\ WF_vars(Scan)
  /\ \A t \in Tasks : /\ WF_vars(Sweep(t))
                      /\ WF_vars(HeartbeatExpires(t))
                      /\ WF_vars(NudgeGraceElapses(t))

\* Worker processes are kept alive (launchd KeepAlive) and loop over
\* resume_approved and run_once; a human answers every approval request.
FleetFairness ==
  /\ \A w \in Workers : WF_vars(WorkerStep(w))
  /\ \A w \in Workers, t \in Tasks : WF_vars(Grab(w, t)) /\ WF_vars(ReadApproval(w, t))
  /\ \A t \in Tasks : WF_vars(Resolve(t))

SupervisedSpec == Spec /\ SupervisorFairness
FairSpec == SupervisedSpec /\ FleetFairness

-----------------------------------------------------------------------------
(* Properties                                                              *)

\* A row and its claim agree: a task in the pool carries no claim of an earlier
\* attempt (every way back clears claimed_by and the heartbeat together), and a
\* held one names its worker and has a heartbeat that can expire.
ClaimConsistent ==
  \A t \in Tasks :
    /\ status[t] = "up_for_grabs" => owner[t] = NoWorker /\ lease[t] = "none"
    /\ status[t] \in Held => owner[t] \in Workers /\ lease[t] # "none"

\* The ladder ends: although each rung acts on counters read at scan time, the
\* counters of a task never pass the two thresholds, so no task is re-kicked
\* more than MaxRetries times, nor past StuckThreshold attempts without progress.
BoundedRecovery ==
  \A t \in Tasks : retries[t] <= MaxRetries /\ noProgress[t] <= StuckThreshold

\* verify -> commit: whatever hops the workers that share a work task make,
\* it is approved or merged only after some Verifier passed it.
MergedWasVerified ==
  \A t \in Tasks :
    Kind[t] = "work" /\ status[t] \in {"approved", "merged"} => verified[t]

\* The supervisor never touches a parked task, however old its snapshot: the
\* park race of rekick_task.
SweepSparesParked ==
  [][\A t \in Tasks : status[t] = "blocked" /\ snap'[t] # snap[t]
       => status'[t] = status[t]]_vars

\* A task once claimed and merged or abandoned can only be rewritten by the
\* forced denial of resume_approved; every other change of a status is an edge
\* of TRANSITIONS.
LegalUnlessForced ==
  [][\A t \in Tasks : status'[t] # status[t] =>
       \/ status[t] = Absent
       \/ CanTransition(status[t], status'[t])
       \/ \E w \in Workers : pc[w] = "deny" /\ job[w] = t]_vars

\* No two passes run one task at a time.
SingleExecutor ==
  \A w, v \in Workers :
    w # v /\ pc[w] \in Working /\ pc[v] \in Working => job[w] # job[v]

\* Whatever has left the pool to be worked on still has all its prerequisites
\* merged: no retry, denial or recovery of a prerequisite takes that back.
DependencyGate ==
  \A t \in Tasks : status[t] \notin {Absent, "up_for_grabs", "abandoned"} =>
    \A d \in deps[t] : status[d] = "merged"

\* A task parked on an approval waits for the human: it leaves blocked only
\* once its approval is resolved, and by a grant only if it was granted
\* (resume_approved: "still pending / missing -> left untouched for a later pass").
BlockedUntilVerdict ==
  [][\A t \in Tasks : status[t] = "blocked" /\ status'[t] # "blocked" =>
       \/ approval[t] = "approved" /\ status'[t] = "up_for_grabs"
       \/ approval[t] = "denied" /\ status'[t] = "abandoned"]_vars

\* What is merged or abandoned stays so, the forced denial included (complete_task:
\* "force=True finalizes from whatever the current (non-terminal) state is").
TerminalIsFinal ==
  [][\A t \in Tasks : status[t] \in Terminal => status'[t] = status[t]]_vars

\* Both hold of a task as long as its passes have asked for one approval at most: no
\* reader of a verdict can then be overtaken by the task's next request
\* (resume_approved reads the row and the verdict before it writes).
FirstVerdictIsKept ==
  [][\A t \in Tasks : asks[t] <= 1 /\ status'[t] # status[t] =>
       /\ status[t] \notin Terminal
       /\ status[t] = "blocked" =>
            \/ approval[t] = "approved" /\ status'[t] = "up_for_grabs"
            \/ approval[t] = "denied" /\ status'[t] = "abandoned"]_vars

\* A worker finalizes or submits only a task it owns.
OnlyOwnerFinalizes ==
  [][\A w \in Workers : LET t == job[w] IN
       /\ pc[w] \in {"submit", "fail"} /\ pc'[w] # pc[w]
       /\ status'[t] # status[t]
       => owner[t] = w]_vars

\* A task goes back to the pool from a held state only after a nudge whose grace
\* has elapsed with no heartbeat since: a heartbeat cancels the deferred re-kick.
RekickFollowsNudge ==
  [][\A t \in Tasks :
       NudgeEnabled /\ status[t] \in Held /\ status'[t] = "up_for_grabs"
       => nudge[t] = "elapsed"]_vars

\* The implemented promise.
ImplementsBoard == BoardSpec

\* No held task stays held for ever, whatever its worker does.
HeldIsTransient == \A t \in Tasks : status[t] \in Held ~> status[t] \notin Held

\* No task is silently dropped: every posted task ends, or waits for a
\* prerequisite that has not merged.
Waiting(t) == status[t] = "up_for_grabs" /\ ~Ready(t)
Settled(t) == status[t] \in Terminal \/ Waiting(t)
NoTaskDropped == \A t \in Tasks : status[t] # Absent ~> Settled(t)

=============================================================================
