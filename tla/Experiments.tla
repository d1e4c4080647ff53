---------------------------- MODULE Experiments ----------------------------
(***************************************************************************)
(* Bets on evidence: the failure analyst (roles/failure_analyst.py) that   *)
(* turns a recurring failure into a proposed experiment, the experiment's  *)
(* lifecycle (experiment/api.py, experiment/models.py) and the approval a  *)
(* scaled one asks for.                                                    *)
(*                                                                         *)
(* The callers run the functions concurrently, each statement a            *)
(* transaction of its own: a report is three reads, a verdict is read,     *)
(* decided and committed in separate steps, the request to scale comes     *)
(* after the commit, and a caller may die in between.  Telemetry, spend    *)
(* and other roles' observations go on meanwhile.                          *)
(*                                                                         *)
(* Values are in ten-thousandths, spend in units of the budget.            *)
(***************************************************************************)
EXTENDS Quality, SequencesExt

CONSTANTS
  Callers,      \* workers and scripts that call the functions
  Telemetry,    \* event types that occur
  Threshold,    \* percent: the share a failure must confidently exceed, and a fix's target
  Measures,     \* values other experiments' tasks may report
  Founders,     \* specifications of experiments other than fixes
  NoAct,
  MaxLog, MaxExperiments, MaxObservations, MaxSpend, MaxRequests, MaxJobs, MaxCrashes
                \* bounds: telemetry events, experiments, observations and spend of each,
                \* approvals, calls, deaths of callers

ASSUME ExperimentsAssumption ==
  /\ Threshold \in 1..99 /\ Measures \subseteq Int
  /\ \A m \in {MaxLog, MaxExperiments, MaxObservations, MaxSpend, MaxJobs, MaxCrashes} :
       m \in Nat
  /\ \A spec \in Founders : spec.budget \in Int

VARIABLES
  log,       \* the telemetry events
  exp,       \* the experiments table, in the order of the INSERTs
  obs,       \* obs[e]: values of e's experiment.observation events
  work,      \* work[e]: tasks enqueued with e in their payload
  spend,     \* spend[e]: what they have cost so far
  row, next, \* the approvals
  job,       \* job[c]: the call c is in
  jobs,      \* calls begun
  crashes,
  raised     \* raised[i]: the experiment whose call inserted the i-th request (history)

\* request_approval's fingerprint has no task and no arguments: one for all of a
\* workstream's experiments, and nobody consumes what is granted under it.
Scale == "experiment.scale"
Store == INSTANCE Approvals WITH Acts <- {Scale}, MaxRows <- MaxRequests

store == <<row, next>>
bets == <<exp, obs, work, spend>>
calls == <<job, jobs, crashes, raised>>
vars == <<log, bets, store, calls>>

-----------------------------------------------------------------------------
(* experiment/models.py.  A metric is [name, target, cmp, agg]; its          *)
(* experiment's budget is a number or NoBudget.                              *)

NoBudget == -1
None == -1000000

Transitions ==
  [proposed |-> {"running", "killed"}, running |-> {"evaluated", "killed"},
   evaluated |-> {"kept", "scaled", "killed"}, kept |-> {}, scaled |-> {}, killed |-> {}]
Terminal == {s \in DOMAIN Transitions : Transitions[s] = {}}

Meets(m, v) ==
  CASE m.cmp = ">=" -> v >= m.target
    [] m.cmp = ">"  -> v > m.target
    [] m.cmp = "<=" -> v <= m.target
    [] m.cmp = "<"  -> v < m.target
    [] m.cmp = "==" -> v = m.target

\* is_strongly_met with the default scale_factor of 5/4.
StronglyMeets(m, v) ==
  /\ Meets(m, v)
  /\ CASE m.cmp \in {">=", ">"} -> 4 * v >= 5 * m.target
       [] m.cmp \in {"<=", "<"} -> IF m.target <= 0 THEN v <= m.target
                                   ELSE 5 * v <= 4 * m.target
       [] OTHER -> FALSE

Aggregate(agg, xs) ==
  CASE agg = "last"  -> xs[Len(xs)]
    [] agg = "first" -> xs[1]
    [] agg = "sum"   -> FoldLeft(+, 0, xs)
    [] agg = "max"   -> CHOOSE x \in ToSet(xs) : \A y \in ToSet(xs) : y <= x
    [] agg = "min"   -> CHOOSE x \in ToSet(xs) : \A y \in ToSet(xs) : x <= y
    [] agg = "mean"  -> FoldLeft(+, 0, xs) \div Len(xs)

\* _observed_value: a cost metric is the measured spend, any other its observations.
Observed(m, xs, spent) ==
  IF m.name = "cost" THEN spent
  ELSE IF xs = <<>> THEN None ELSE Aggregate(m.agg, xs)

OverBudget(spent, budget) == budget # NoBudget /\ spent > budget

\* decide_outcome.
Judge(e, v, spent) ==
  IF v = None \/ ~Meets(e.metric, v) THEN "killed"
  ELSE IF StronglyMeets(e.metric, v) THEN "scaled" ELSE "kept"
DecideOutcome(e, v, spent) ==
  IF OverBudget(spent, e.budget) THEN "killed" ELSE Judge(e, v, spent)

-----------------------------------------------------------------------------
(* roles/failure_analyst.py                                                  *)

Patterns == {"model_call_error", "task_stall"}
Share(rep, p) == IF p = "model_call_error" THEN rep.byError ELSE rep.byStall

Fires(r) == r.n >= MinSample /\ LowerAbove(r, Threshold)

\* detect_patterns; at most two, so the sort and the cut at MAX_PATTERNS change nothing.
Detect(rep) == {p \in Patterns : Share(rep, p).s > 0 /\ Fires(Share(rep, p))}

\* pattern_rate_from_report.
PatternRate(rep, p) ==
  IF Share(rep, p).n = 0 THEN None ELSE Ratio(Share(rep, p))

FixFor(p) == [metric |-> [name |-> p, target |-> 100 * Threshold, cmp |-> "<=",
                          agg |-> "last"],
              budget |-> NoBudget]

Exps == 1..Len(exp)
Fixes == {e \in Exps : exp[e].metric.name \in Patterns}

-----------------------------------------------------------------------------
Idle == [op |-> "idle"]

Init ==
  /\ log = <<>> /\ exp = <<>>
  /\ obs = [e \in 1..MaxExperiments |-> <<>>]
  /\ work = [e \in 1..MaxExperiments |-> 0]
  /\ spend = [e \in 1..MaxExperiments |-> 0]
  /\ Store!StoreInit
  /\ job = [c \in Callers |-> Idle] /\ jobs = 0
  /\ crashes = 0 /\ raised = [i \in Store!Ids |-> 0]

Become(c, j) == job' = [job EXCEPT ![c] = j]

\* A call begins by itself, or ends in an exception; neither touches a table.
Begin(c, j) ==
  /\ job[c] = Idle /\ jobs < MaxJobs
  /\ jobs' = jobs + 1
  /\ Become(c, j)
  /\ UNCHANGED <<log, bets, store, crashes, raised>>
Goes(c, j) ==
  /\ Become(c, j)
  /\ UNCHANGED <<log, bets, store, jobs, crashes, raised>>

\* propose_experiment.
Propose(spec) ==
  /\ Len(exp) < MaxExperiments
  /\ exp' = Append(exp, [metric |-> spec.metric, budget |-> spec.budget,
                         status |-> "proposed", observed |-> None, spent |-> 0])
  /\ UNCHANGED <<obs, work, spend>>

ProposeBet(spec) == Propose(spec) /\ UNCHANGED <<log, store, calls>>

-----------------------------------------------------------------------------
(* A report is read by three statements; then it is computed, or raises.     *)

Reads(c) ==
  /\ job[c].op \in {"analyze", "observe"} /\ Len(job[c].seen) < 3
  /\ Goes(c, [job[c] EXCEPT !.seen = Append(@, Len(log))])

IsRead(c, op) == job[c].op = op /\ Len(job[c].seen) = 3
Report(c) == FailureReport(log, job[c].since, job[c].seen)

Raises(c) ==
  /\ IsRead(c, "analyze") \/ IsRead(c, "observe")
  /\ ~Reportable(Report(c))
  /\ Goes(c, Idle)

\* run_failure_analysis over the whole log.
Analyze(c) == Begin(c, [op |-> "analyze", since |-> 0, seen |-> <<>>])
Detects(c) ==
  /\ IsRead(c, "analyze") /\ Reportable(Report(c))
  /\ Goes(c, [op |-> "fix", found |-> Detect(Report(c))])

\* For each pattern a proposal file, an experiment and two events; its INSERT is all
\* that matters here.  The experiment is not started.
ProposeFix(c, p) ==
  /\ job[c].op = "fix" /\ p \in job[c].found
  /\ Propose(FixFor(p))
  /\ Become(c, [job[c] EXCEPT !.found = @ \ {p}])
  /\ UNCHANGED <<log, store, jobs, crashes, raised>>
Analyzed(c) == job[c].op = "fix" /\ job[c].found = {} /\ Goes(c, Idle)

-----------------------------------------------------------------------------
(* start_experiment: the tagged task is committed before the guarded UPDATE. *)

Start(c, e) ==
  /\ exp[e].status = "proposed"
  /\ Begin(c, [op |-> "start", e |-> e])
Enqueue(c) ==
  /\ job[c].op = "start"
  /\ work' = [work EXCEPT ![job[c].e] = @ + 1]
  /\ Become(c, [job[c] EXCEPT !.op = "started"])
  /\ UNCHANGED <<log, exp, obs, spend, store, jobs, crashes, raised>>
Startable(e) == exp[e].status = "proposed"
Started(c) ==
  LET e == job[c].e IN
  /\ job[c].op = "started"
  /\ exp' = IF Startable(e) THEN [exp EXCEPT ![e].status = "running"] ELSE exp
  /\ Become(c, Idle)
  /\ UNCHANGED <<log, obs, work, spend, store, jobs, crashes, raised>>

-----------------------------------------------------------------------------
(* observe_and_evaluate_fix, then evaluate_experiment.                       *)

Observe(c, e, since) ==
  Begin(c, [op |-> "observe", e |-> e, since |-> since, seen |-> <<>>])

\* The rate, if there is one, becomes an observation.
RecordsRate(c) ==
  LET e == job[c].e
      v == PatternRate(Report(c), exp[e].metric.name)
  IN /\ IsRead(c, "observe") /\ Reportable(Report(c))
     /\ v # None => Len(obs[e]) < MaxObservations
     /\ obs' = IF v = None THEN obs ELSE [obs EXCEPT ![e] = Append(@, v)]
     /\ Become(c, [op |-> "check", e |-> e])
     /\ UNCHANGED <<log, exp, work, spend, store, jobs, crashes, raised>>

\* assert_transition to evaluated.
Evaluate(c, e) == Begin(c, [op |-> "check", e |-> e])
Checks(c) ==
  LET e == job[c].e IN
  /\ job[c].op = "check"
  /\ Goes(c, IF "evaluated" \in Transitions[exp[e].status]
             THEN [op |-> "measure", e |-> e] ELSE Idle)

MeasuresSpend(c) ==
  /\ job[c].op = "measure"
  /\ Goes(c, [op |-> "judge", e |-> job[c].e, spent |-> spend[job[c].e]])
Judges(c) ==
  LET e == job[c].e
      v == Observed(exp[e].metric, obs[e], job[c].spent)
  IN /\ job[c].op = "judge"
     /\ Goes(c, [op |-> "verdict", e |-> e, spent |-> job[c].spent, v |-> v,
                 decision |-> DecideOutcome(exp[e], v, job[c].spent)])

\* The guarded UPDATEs running -> evaluated -> verdict; who comes second raises.
JudgeableAgain(e) == exp[e].status # "proposed"
Judgeable(e) == exp[e].status = "running"
AddsBudgetIfKept(decision) == decision = "kept"
AddsBudget(decision) == decision = "scaled"
Commits(c) ==
  LET j == job[c] IN
  /\ j.op = "verdict" /\ Judgeable(j.e)
  /\ exp' = [exp EXCEPT ![j.e].status = j.decision, ![j.e].observed = j.v,
                        ![j.e].spent = j.spent]
  /\ Become(c, IF AddsBudget(j.decision) THEN [op |-> "ask", e |-> j.e] ELSE Idle)
  /\ UNCHANGED <<log, obs, work, spend, store, jobs, crashes, raised>>
AsksAnyway(c) ==
  /\ job[c].op = "verdict" /\ ~Judgeable(job[c].e)
  /\ Goes(c, IF AddsBudget(job[c].decision) THEN [op |-> "ask", e |-> job[c].e] ELSE Idle)
ComesSecond(c) ==
  /\ job[c].op = "verdict" /\ ~Judgeable(job[c].e)
  /\ Goes(c, Idle)

\* request_approval: the oldest open row of the fingerprint, whichever experiment it was
\* asked for, or a new one.  The SELECT locks what it finds; where it finds nothing,
\* another caller may find nothing too before this one's INSERT.
Asks(c) ==
  /\ job[c].op = "ask"
  /\ Goes(c, IF Store!RowsOf(Scale, Store!Reusable) = {}
             THEN [op |-> "insert", e |-> job[c].e] ELSE Idle)
Inserts(c) ==
  /\ job[c].op = "insert"
  /\ Store!InsertPending(Scale)
  /\ raised' = [raised EXCEPT ![next] = job[c].e]
  /\ Become(c, Idle)
  /\ UNCHANGED <<log, bets, jobs, crashes>>

-----------------------------------------------------------------------------
(* Around the calls                                                          *)

Happen(kind) ==
  /\ Len(log) < MaxLog
  /\ log' = Append(log, kind)
  /\ UNCHANGED <<bets, store, calls>>

\* A task enqueued for the experiment costs, and reports what it measured.
Costs(e) ==
  /\ work[e] > 0 /\ spend[e] < MaxSpend
  /\ spend' = [spend EXCEPT ![e] = @ + 1]
  /\ UNCHANGED <<log, exp, obs, work, store, calls>>
RecordObservation(e, v) ==
  /\ e \notin Fixes /\ work[e] > 0 /\ Len(obs[e]) < MaxObservations
  /\ obs' = [obs EXCEPT ![e] = Append(@, v)]
  /\ UNCHANGED <<log, exp, work, spend, store, calls>>

Resolve(i, v) == Store!ResolveAs(i, v) /\ UNCHANGED <<log, bets, calls>>

\* A caller dies; what it has committed stays.
Dies(c) ==
  /\ job[c] # Idle /\ crashes < MaxCrashes
  /\ crashes' = crashes + 1
  /\ Become(c, Idle)
  /\ UNCHANGED <<log, bets, store, jobs, raised>>

Continue(c) ==
  \/ Reads(c) \/ Raises(c) \/ Detects(c) \/ Analyzed(c)
  \/ \E p \in Patterns : ProposeFix(c, p)
  \/ Enqueue(c) \/ Started(c)
  \/ RecordsRate(c) \/ Checks(c) \/ MeasuresSpend(c) \/ Judges(c)
  \/ Commits(c) \/ ComesSecond(c) \/ Asks(c) \/ Inserts(c)

Next ==
  \/ \E c \in Callers :
       \/ Continue(c) \/ Analyze(c) \/ Dies(c)
       \/ \E e \in Exps : Start(c, e) \/ Evaluate(c, e)
       \/ \E e \in Fixes, since \in 0..Len(log) : Observe(c, e, since)
  \/ \E k \in Telemetry : Happen(k)
  \/ \E spec \in Founders : ProposeBet(spec)
  \/ \E e \in Exps : Costs(e) \/ \E v \in Measures : RecordObservation(e, v)
  \/ \E i \in Store!Ids, v \in {"approved", "denied"} : Resolve(i, v)

Spec == Init /\ [][Next]_vars

-----------------------------------------------------------------------------
(* Properties                                                                *)

TypeOK ==
  /\ log \in Seq(Telemetry) /\ Len(exp) <= MaxExperiments
  /\ \A e \in Exps : /\ exp[e].status \in DOMAIN Transitions
                     /\ exp[e].observed \in Int /\ exp[e].spent \in 0..MaxSpend
  /\ obs \in [1..MaxExperiments -> Seq(Int)]
  /\ work \in [1..MaxExperiments -> Nat] /\ spend \in [1..MaxExperiments -> 0..MaxSpend]
  /\ Store!StoreType
  /\ jobs \in 0..MaxJobs /\ crashes \in 0..MaxCrashes
  /\ raised \in [Store!Ids -> 0..MaxExperiments]

\* A verdict is given once and for all, whoever else was evaluating: the status only moves
\* along TRANSITIONS, through evaluated in one transaction, and no later evaluation
\* rewrites the facts a verdict rests on (evaluate_experiment's guarded UPDATEs).
VerdictIsFinal ==
  [][\A e \in Exps :
       \/ exp'[e] = exp[e]
       \/ exp[e].status = "proposed" /\ exp'[e].status = "running"
       \/ exp[e].status = "running" /\ exp'[e].status \in Transitions["evaluated"]]_vars

\* A bet that is kept or scaled earned it by evidence: what was observed is the aggregate
\* of observations that had been recorded, or the spend, and meets the target; and at the
\* verdict the spend that was measured, no more than was really spent, was within budget
\* (decide_outcome reads facts, never a claim).
BetsAreEarned ==
  \A e \in Exps : LET x == exp[e] m == exp[e].metric IN
    x.status \in {"kept", "scaled"} =>
      /\ Meets(m, x.observed)
      /\ x.budget # NoBudget => x.spent <= x.budget
      /\ x.spent <= spend[e]
      /\ IF m.name = "cost" THEN x.observed = x.spent
         ELSE \E k \in 1..Len(obs[e]) :
                x.observed = Aggregate(m.agg, SubSeq(obs[e], 1, k))

\* A durable fix is proposed only for a failure that was counted, and against a sample
\* that had the size the floor asks for when it was read (_fires: "CANNOT be tricked by a
\* tiny sample"), however the telemetry moved between the report's statements.
Sample(p, k) ==
  IF p = "model_call_error" THEN Count(log, 0, k, {"ok", "fail"})
  ELSE Count(log, 0, k, {"merged", "abandoned"})
Failures(p) == Count(log, 0, Len(log), IF p = "model_call_error" THEN {"fail"} ELSE {"stuck"})
FixesHaveSample ==
  \A e \in Fixes : LET p == exp[e].metric.name IN
    \E k \in 0..Len(log) : /\ Sample(p, k) >= MinSample
                           /\ LowerAbove(Rate(Failures(p), Sample(p, k)), Threshold)

\* The human is asked for more budget only by the one call whose verdict it was: each
\* request was made for an experiment that is scaled, and no experiment makes a second,
\* whoever else evaluated it, looked for an open request before the other's INSERT, or was
\* denied meanwhile (evaluate_experiment asks after the UPDATE that only one call wins).
RequestsAreEarned ==
  \A i \in Store!Ids : row[i].status # "absent" =>
    /\ raised[i] \in Exps /\ exp[raised[i]].status = "scaled"
    /\ \A k \in Store!Ids : raised[k] = raised[i] => k = i

-----------------------------------------------------------------------------
(* Not so                                                                    *)

\* api.py's docstring: a scaled verdict "raises" an approval "for added budget".  Its call
\* may die after the commit, and a second scaled experiment of a workstream joins the open
\* request of the first, or one that was granted at any time before.
ScaleIsRaised ==
  \A e \in Exps : exp[e].status = "scaled" =>
    \/ \E i \in Store!Ids : raised[i] = e
    \/ \E c \in Callers : job[c].op \in {"ask", "insert"} /\ job[c].e = e

\* failure_report is "None-safe": whatever the log holds, a report can be made of it, and
\* with it the quality_report that contains one.
ReportIsDefined == Reportable(QualityReport(log, Len(log)).failure)

=============================================================================
