------------------------------- MODULE Fleet --------------------------------
(***************************************************************************)
(* The roles a worker dispatches to (runtime/worker.py, runtime/roles) and *)
(* the loop they close: a work episode is executed, verified against the   *)
(* artifact it left, and followed by a retro and a review as the intensity *)
(* policy of Adaptive says; a retro may nominate the episode to the        *)
(* Curator; a pm.tick may commission a research scan.  What an episode     *)
(* leaves on the event trail feeds back into the policy.                   *)
(*                                                                         *)
(* The queue is the one of TaskQueue with its hand-shakes folded: claim    *)
(* and start are one step, and so is complete_task.  Approvals, questions  *)
(* and planning are in ApprovalGate, Decisions and Planning.               *)
(***************************************************************************)
EXTENDS Adaptive, TaskState, Sequences, SequencesExt

CONSTANTS
  Workers,
  Root,             \* Root[w]: the WORKER_SCRATCH_DIR of worker w
  Boards,           \* the boards to begin with, and what may happen to each:
                    \* bounds on ticks, hours, crashes, stalls and
                    \* the requests of remotes (Gateway)
  Others,           \* task types of the roles that enqueue nothing
  BaseReview, BaseRetro,   \* WORKER_REVIEW, WORKER_RETRO
  ErrorWindow,      \* ADAPTIVE_ERROR_WINDOW
  MaxAttempts,      \* WORKER_MAX_WORK_ATTEMPTS
  MaxRetries,       \* SUPERVISOR_MAX_RETRIES
  Overspends,       \* may an episode blow its token budget?
  Headrooms         \* the headrooms the budget may show

Types == {"work", "retro", "review", "curate", "research", "pm.tick"} \cup Others

ASSUME FleetAssumption ==
  /\ \A b \in Boards : b.types \in Seq(Types)
  /\ BaseReview \in ReviewModes /\ BaseRetro \in RetroModes
  /\ MaxRetries \in Nat
  /\ {ErrorWindow, MaxAttempts} \subseteq Nat \ {0}
  /\ Overspends \subseteq BOOLEAN /\ Overspends # {}
  /\ Headrooms \subseteq Headroom /\ Headrooms # {}

VARIABLES
  jobs,      \* the tasks table, in order of creation
  trail,     \* trail[i]: what the event log says of job i
  ended,     \* the work episodes with a task.finished event, in its order
  disk,      \* the artifacts in each scratch root
  pass,      \* pass[w]: what worker w is in the middle of
  headroom, clock,
  may,       \* what may still happen: ticks, hours, crashes, stalls, requests
  again      \* how many passes died or were taken for dead

envVars == <<headroom, clock, may, again>>
vars == <<jobs, trail, ended, disk, pass, envVars>>

Outcomes == {"none", "done", "failed"}
\* "unbacked" is the high severity of a success no artifact backs.
Severities == {"none", "low", "medium", "high", "unbacked"}

Job(type, target, outcome) ==
  [type |-> type, target |-> target, outcome |-> outcome, path |-> FALSE,
   status |-> "up_for_grabs", retries |-> 0, born |-> clock]
NoEvents == [failed |-> 0, retried |-> 0, rekicked |-> 0, denied |-> 0,
             passed |-> FALSE, reviewed |-> "unseen"]
Idle == [step |-> "idle", job |-> 0, attempt |-> 0, wrote |-> FALSE, outcome |-> "none",
         review |-> BaseReview, retro |-> BaseRetro, frac |-> Unknown]

Ids == DOMAIN jobs
Terminated(i) == jobs[i].status \in Terminal
InHand(i) == \E w \in Workers : pass[w].job = i

TypeOK ==
  /\ DOMAIN trail = Ids
  /\ \A i \in Ids : /\ jobs[i].type \in Types /\ jobs[i].target \in 0..Len(jobs)
                    /\ jobs[i].status \in States /\ jobs[i].outcome \in Outcomes
                    /\ trail[i].reviewed \in {"unseen"} \cup Severities
  /\ \A k \in DOMAIN ended : ended[k] \in Ids
  /\ \A w \in Workers : disk[Root[w]] \subseteq Ids
  /\ \A w \in Workers : pass[w].job \in Ids \cup {0}
  /\ headroom \in Headrooms /\ clock \in Nat /\ again \in Nat
  /\ may \in [{"ticks", "hours", "crashes", "stalls", "requests"} -> Nat]

Init ==
  /\ clock = 0
  /\ \E b \in Boards :
       /\ jobs = [i \in DOMAIN b.types |-> Job(b.types[i], 0, "none")]
       /\ trail = [i \in DOMAIN b.types |-> NoEvents]
       /\ may = b.may
  /\ ended = <<>>
  /\ disk = [r \in {Root[w] : w \in Workers} |-> {}]
  /\ pass = [w \in Workers |-> Idle]
  /\ headroom \in Headrooms
  /\ again = 0

-----------------------------------------------------------------------------
\* Pieces of a step.
AtStep(w, s) == pass[w].step = s
Goto(w, s) == pass' = [pass EXCEPT ![w].step = s]
GiveBack(w) == pass' = [pass EXCEPT ![w] = Idle]
Enqueue(job) ==
  /\ jobs' = Append(jobs, job)
  /\ trail' = Append(trail, NoEvents)
Note(i, field) == trail' = [trail EXCEPT ![i][field] = @ + 1]

\* transition(i, to): a hop that is not legal raises and the pass dies (PassDies);
\* one that is already made does nothing.
Reaches(i, to) == jobs[i].status = to \/ CanTransition(jobs[i].status, to)
SetStatus(i, to) ==
  /\ jobs' = [jobs EXCEPT ![i].status = to]
  /\ ended' = IF to \in Terminal /\ ~Terminated(i) /\ jobs[i].type = "work"
              THEN Append(ended, i) ELSE ended

\* _episode_stats: how many of the last episodes went wrong in any way.
Errored(i) ==
  \/ trail[i].failed > 0 \/ trail[i].rekicked > 0
  \/ jobs[i].status = "abandoned"
  \/ trail[i].reviewed \in Severities \ {"none"}
Recent == IF Len(ended) <= ErrorWindow THEN ended
          ELSE SubSeq(ended, Len(ended) - ErrorWindow + 1, Len(ended))
RecentErrorRate ==
  ErrorRate(Len(Recent), Cardinality({k \in DOMAIN Recent : Errored(Recent[k])}))

-----------------------------------------------------------------------------
\* resolve_handler and the handler's first step; an unknown type is abandoned.
FirstStep(type) ==
  CASE type = "work" -> "exec"
    [] type = "pm.tick" -> "plan"
    [] type = "retro" -> "retro run"
    [] type = "review" -> "review run"
    [] OTHER -> "finish"

\* run_once claims a job; a work episode resolves its modes before it starts.
Take(w, i) ==
  /\ AtStep(w, "idle") /\ jobs[i].status = "up_for_grabs"
  /\ LET frac == BudgetFraction(headroom)
         modes == ResolveModes(BaseReview, BaseRetro, RecentErrorRate, frac)
     IN  pass' = [pass EXCEPT ![w] =
           IF jobs[i].type = "work"
           THEN [Idle EXCEPT !.step = "exec", !.job = i, !.attempt = 1, !.review = modes.review,
                             !.retro = modes.retro, !.frac = frac]
           ELSE [Idle EXCEPT !.step = FirstStep(jobs[i].type), !.job = i]]
  /\ jobs' = [jobs EXCEPT ![i].status = "in_progress"]
  /\ UNCHANGED <<trail, ended, disk, envVars>>

\* run_executor: the artifact is one policy-gated write; a denied one leaves none.
\* The model call before it spends.
Execute(w) ==
  /\ AtStep(w, "exec")
  /\ LET i == pass[w].job IN
     \/ /\ disk' = [disk EXCEPT ![Root[w]] = @ \cup {i}]
        /\ pass' = [pass EXCEPT ![w].step = "submit", ![w].wrote = TRUE]
        /\ UNCHANGED trail
     \/ /\ Note(i, "denied")
        /\ pass' = [pass EXCEPT ![w].step = "submit", ![w].wrote = FALSE]
        /\ UNCHANGED disk
  /\ headroom' \in Headrooms
  /\ UNCHANGED <<jobs, ended, clock, may, again>>

Submit(w) ==
  /\ AtStep(w, "submit") /\ Reaches(pass[w].job, "ready_for_review")
  /\ SetStatus(pass[w].job, "ready_for_review") /\ Goto(w, "verify")
  /\ UNCHANGED <<trail, disk, envVars>>

\* verify and _check: the checker's own look at the artifact decides, and may find
\* it wanting; without an artifact it always does.
EvidenceShown(w, seen) == seen /\ pass[w].wrote /\ pass[w].job \in disk[Root[w]]
Verify(w) ==
  /\ AtStep(w, "verify")
  /\ \E seen \in BOOLEAN :
       LET i == pass[w].job  ok == EvidenceShown(w, seen) IN
       /\ trail' = [trail EXCEPT ![i].passed = @ \/ ok,
                                 ![i].failed = IF ok THEN @ ELSE @ + 1]
       /\ Goto(w, IF ok THEN "approve" ELSE "reject")
  /\ UNCHANGED <<jobs, ended, disk, envVars>>

Approve(w) ==
  /\ AtStep(w, "approve") /\ Reaches(pass[w].job, "approved")
  /\ SetStatus(pass[w].job, "approved") /\ Goto(w, "merge")
  /\ UNCHANGED <<trail, disk, envVars>>

\* The episode is over: what follows runs on what the handler holds.
Conclude(w, to, outcome) ==
  /\ Reaches(pass[w].job, to)
  /\ SetStatus(pass[w].job, to)
  /\ pass' = [pass EXCEPT ![w].step = "retro", ![w].outcome = outcome]
  /\ UNCHANGED <<trail, disk, envVars>>
Merge(w) == AtStep(w, "merge") /\ Conclude(w, "merged", "done")

Reject(w) ==
  /\ AtStep(w, "reject") /\ Reaches(pass[w].job, "reviewer_blocked")
  /\ SetStatus(pass[w].job, "reviewer_blocked")
  /\ Goto(w, IF pass[w].attempt < MaxAttempts THEN "again" ELSE "give up")
  /\ UNCHANGED <<trail, disk, envVars>>
Again(w) ==
  /\ AtStep(w, "again") /\ Reaches(pass[w].job, "in_progress")
  /\ SetStatus(pass[w].job, "in_progress")
  /\ Note(pass[w].job, "retried")
  /\ pass' = [pass EXCEPT ![w].step = "exec", ![w].attempt = @ + 1]
  /\ UNCHANGED <<disk, envVars>>
GiveUpAsDone(w) == AtStep(w, "give up") /\ Conclude(w, "abandoned", "done")
GiveUp(w) == AtStep(w, "give up") /\ Conclude(w, "abandoned", "failed")

\* _maybe_enqueue_retro
EnqueueRetro(w) ==
  /\ AtStep(w, "retro")
  /\ LET p == pass[w]
         wanted == p.retro = "always" \/ (p.retro = "on_fail" /\ p.outcome = "failed")
     IN  IF wanted THEN Enqueue(Job("retro", p.job, p.outcome)) ELSE UNCHANGED <<jobs, trail>>
  /\ Goto(w, "review")
  /\ UNCHANGED <<ended, disk, envVars>>

\* _episode_is_risky (whether the token budget is blown is left open) and
\* _maybe_enqueue_review
EnqueueReview(w) ==
  /\ AtStep(w, "review")
  /\ \E overspent \in Overspends :
       LET p == pass[w]
           risky == p.outcome = "failed" \/ jobs[p.job].retries > 0 \/ overspent
       IN  IF p.review = "always" \/ (p.review = "on_risk" /\ risky)
           THEN Enqueue([Job("review", p.job, p.outcome) EXCEPT !.path = p.wrote])
           ELSE UNCHANGED <<jobs, trail>>
  /\ GiveBack(w)
  /\ UNCHANGED <<ended, disk, envVars>>

-----------------------------------------------------------------------------
\* _worth_crystallizing: only a clean first pass is nominated to the Curator.
WorthCrystallizing(i, outcome) ==
  outcome # "failed" /\ trail[i].failed = 0 /\ trail[i].retried = 0 /\ jobs[i].type = "work"

\* run_retro: lessons are stored and the nomination is the one thing it enqueues.
Retro(w) ==
  /\ AtStep(w, "retro run")
  /\ LET r == jobs[pass[w].job] IN
     IF WorthCrystallizing(r.target, r.outcome) THEN Enqueue(Job("curate", 0, "none"))
     ELSE UNCHANGED <<jobs, trail>>
  /\ Goto(w, "finish")
  /\ UNCHANGED <<ended, disk, envVars>>

\* assess_risks on the facts of the trail and of the artifact as read from the
\* reviewer's own scratch root.
HallucinatedOn(rev, root) ==
  /\ rev.outcome = "done" \/ trail[rev.target].passed
  /\ ~rev.path \/ rev.target \notin disk[root]
FailScore(i) ==
  trail[i].failed + trail[i].retried + trail[i].rekicked + jobs[i].retries
When(c, signal) == IF c THEN {signal} ELSE {}
Assess(rev, root, overspent) ==
  LET i == rev.target
      signals == When(HallucinatedOn(rev, root), "unbacked")
                 \cup When(overspent \/ FailScore(i) >= 4, "high")
                 \cup When(FailScore(i) \in {2, 3} \/ trail[i].denied >= 2, "medium")
                 \cup When(trail[i].denied = 1, "low")
      worst == SelectSeq(<<"unbacked", "high", "medium", "low">>, LAMBDA v : v \in signals)
  IN  IF signals = {} THEN "none" ELSE Head(worst)

\* run_review: the verdict goes to the trail of the episode it is about.
Review(w) ==
  /\ AtStep(w, "review run")
  /\ \E overspent \in Overspends :
       LET rev == jobs[pass[w].job] IN
       trail' = [trail EXCEPT ![rev.target].reviewed = Assess(rev, Root[w], overspent)]
  /\ Goto(w, "finish")
  /\ UNCHANGED <<jobs, ended, disk, envVars>>

\* The part of run_pm_tick that is not in Planning: _maybe_commission_research
\* looks at the clock first and enqueues afterwards.
Latest(S) == Max({jobs[i].born : i \in S})
Earliest(S) == Min({jobs[i].born : i \in S})
ScanDue ==
  LET scans == {i \in Ids : jobs[i].type = "research"}
      wait == ResearchInterval(BudgetFraction(headroom))
  IN  clock - (IF scans # {} THEN Latest(scans) ELSE Earliest(Ids)) >= wait
Plan(w) ==
  /\ AtStep(w, "plan")
  /\ Goto(w, IF ScanDue THEN "commission" ELSE "finish")
  /\ UNCHANGED <<jobs, trail, ended, disk, envVars>>
Commission(w) ==
  /\ AtStep(w, "commission")
  /\ Enqueue(Job("research", 0, "none"))
  /\ Goto(w, "finish")
  /\ UNCHANGED <<ended, disk, envVars>>

\* complete_task at the end of every handler but the work one: a task that is not in
\* progress any more is left alone.
FinishSparingOthers(w) ==
  /\ AtStep(w, "finish")
  /\ SetStatus(pass[w].job, IF jobs[pass[w].job].type \in Others THEN "up_for_grabs" ELSE "merged")
  /\ GiveBack(w)
  /\ UNCHANGED <<trail, disk, envVars>>
Finish(w) ==
  /\ AtStep(w, "finish")
  /\ LET i == pass[w].job IN
     SetStatus(i, IF jobs[i].status = "in_progress" THEN "merged" ELSE jobs[i].status)
  /\ GiveBack(w)
  /\ UNCHANGED <<trail, disk, envVars>>

-----------------------------------------------------------------------------
\* The environment's turns are counted (a bound).
Spend(what) == may[what] > 0 /\ may' = [may EXCEPT ![what] = @ - 1]

\* A pass dies: of a crash, or because transition raised.
Refused(w) ==
  \E hop \in {<<"submit", "ready_for_review">>, <<"approve", "approved">>, <<"merge", "merged">>,
              <<"reject", "reviewer_blocked">>, <<"again", "in_progress">>, <<"give up", "abandoned">>} :
    AtStep(w, hop[1]) /\ ~Reaches(pass[w].job, hop[2])
PassDies(w) ==
  /\ ~AtStep(w, "idle") /\ GiveBack(w)
  /\ IF Refused(w) THEN UNCHANGED may ELSE Spend("crashes")
  /\ again' = again + 1
  /\ UNCHANGED <<jobs, trail, ended, disk, headroom, clock>>

\* The supervisor's ladder: a job nobody beats for goes back or, its retries spent,
\* is abandoned; a stalled worker is taken for a dead one.
Rekick(i) ==
  /\ jobs[i].status = "in_progress"
  /\ IF InHand(i) THEN Spend("stalls") /\ again' = again + 1 ELSE UNCHANGED <<may, again>>
  /\ IF jobs[i].retries < MaxRetries
     THEN /\ jobs' = [jobs EXCEPT ![i].status = "up_for_grabs", ![i].retries = @ + 1]
          /\ Note(i, "rekicked") /\ UNCHANGED ended
     ELSE SetStatus(i, "abandoned") /\ UNCHANGED trail
  /\ UNCHANGED <<disk, pass, headroom, clock>>

\* The scheduler's ticks, never two at once.
Schedule ==
  /\ Spend("ticks")
  /\ \A i \in Ids : jobs[i].type = "pm.tick" => Terminated(i)
  /\ Enqueue(Job("pm.tick", 0, "none"))
  /\ UNCHANGED <<ended, disk, pass, headroom, clock, again>>
\* An hour passes, and a budget period may begin with it.
HourPasses ==
  /\ Spend("hours") /\ clock' = clock + 1 /\ headroom' \in Headrooms
  /\ UNCHANGED <<jobs, trail, ended, disk, pass, again>>

WorkStep(w) == Execute(w) \/ Submit(w) \/ Verify(w) \/ Approve(w) \/ Merge(w) \/ Reject(w)
               \/ Again(w) \/ GiveUp(w) \/ EnqueueRetro(w) \/ EnqueueReview(w)
RoleStep(w) == Retro(w) \/ Review(w) \/ Plan(w) \/ Commission(w) \/ Finish(w)
WorkerStep(w) == WorkStep(w) \/ RoleStep(w) \/ (\E i \in Ids : Take(w, i))
Next ==
  \/ \E w \in Workers : WorkerStep(w) \/ PassDies(w)
  \/ \E i \in Ids : Rekick(i)
  \/ Schedule \/ HourPasses

Spec == Init /\ [][Next]_vars
\* Live workers keep going, and the supervisor sweeps.
Fairness == /\ \A w \in Workers : WF_vars(WorkerStep(w) \/ (Refused(w) /\ PassDies(w)))
            /\ WF_vars(\E i \in Ids : Rekick(i) /\ ~InHand(i))
FairSpec == Spec /\ Fairness

-----------------------------------------------------------------------------
(* Properties *)

FollowUps(i) == {j \in Ids : jobs[j].type \in {"retro", "review"} /\ jobs[j].target = i}
Reviews(i) == {j \in FollowUps(i) : jobs[j].type = "review"}
Retros(i) == FollowUps(i) \ Reviews(i)

\* A retro and a review are about an episode that is over, with the outcome it
\* really had: no crash or re-kick makes the learning loop study an outcome the
\* board does not show (worker.py _maybe_enqueue_retro, _maybe_enqueue_review).
FollowsTheOutcome ==
  \A i \in Ids : \A j \in FollowUps(i) :
    jobs[i].status = (IF jobs[j].outcome = "done" THEN "merged" ELSE "abandoned")

\* No loop, on a board no remote enqueues on: an episode is followed by at most a retro, a review and the curation
\* the retro asks for, a tick by at most one scan, and only a pass that died may
\* have one of them enqueued again.
HowMany(type) == Cardinality({i \in Ids : jobs[i].type = type})
LoopIsBounded ==
  /\ HowMany("retro") <= HowMany("work") + again
  /\ HowMany("review") <= HowMany("work") + again
  /\ HowMany("curate") <= HowMany("retro") + again
  /\ HowMany("research") <= HowMany("pm.tick") + again

\* Two scans are at least the fastest cadence apart, whatever the budget does
\* between the look at the clock and the enqueue ("scans never STACK"); no remote enqueues any.
ScanPaced ==
  \A i, j \in Ids : i < j /\ jobs[i].type = "research" /\ jobs[j].type = "research"
    => jobs[j].born - jobs[i].born >= ResearchInterval(Unknown)

\* An episode that started with its budget nearly exhausted is followed by
\* nothing, however high the error rate ("the throttle beats the escalation").
ThrottleHolds ==
  [][\A w \in Workers :
       /\ pass[w].step \in {"retro", "review"} /\ Len(jobs') > Len(jobs)
       /\ pass'[w].step # pass[w].step
       => ~(AdaptiveOn /\ Critical(pass[w].frac))]_vars

\* The Reviewer never calls a merged episode unbacked: the marker the Verifier
\* saw is still where the Reviewer looks.
NoFalseAlarm == \A i \in Ids : jobs[i].status = "merged" => trail[i].reviewed # "unbacked"

\* The learning loop dies out: nothing is enqueued for ever, and what is left was
\* lost between two hops of a pass that died in review.
Stranded(i) == jobs[i].status \notin Held \cup {"up_for_grabs"} /\ ~InHand(i)
Quiesces == <>[](\A i \in Ids : Terminated(i) \/ Stranded(i))

=============================================================================
