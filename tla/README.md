# A TLA+ model of ai_studio

This directory models the programs of ai_studio that share one PostgreSQL database and turn
directives into tasks, tasks into gated tool calls and model calls, both into events, and
events into what a human is told and what the studio learns: `runtime/`, and `spokesman/` and
`gateway/` next to it. It holds TLA+ modules, TLC configurations and machine-checked proofs.
`PROJECT.json` maps every definition to the lines it stands for, lists every component with
its status, and lists under `hazards` what is hard to test in this code.

## The system

Every process (workers, one supervisor, the scheduler's pulse, the trajectory sweeper, the
gateway and the spokesman) is a loop or a set of request threads over short database
transactions. They talk to each other only through rows. PostgreSQL runs at READ COMMITTED:
a transaction is atomic and the next one sees whatever was committed in between. Between two
transactions of one handler anything may happen, and most of the correctness of the system
lives in the `WHERE` clauses and `FOR UPDATE` reads that defend against it.

| component | state | operations | talks to |
|---|---|---|---|
| task queue (`tasks.py`, `task_state.py`) | `tasks`: status, depends_on, claimed_by, heartbeat_at, nudged_at, retries, no_progress_rekicks, result | enqueue, grab, start, heartbeat, transition, complete, block, requeue, nudge, re-kick, escalate | all |
| worker (`worker.py`) | a task in hand; skills discovered at the start | run_once, resume_approved, one handler per task type | queue, enforcement, roles |
| supervisor (`supervisor.py`) | a scan of stale rows; GraceTracker | sweep: nudge, defer, re-kick, escalate, fail | queue |
| approvals (`approvals.py`) | `approvals`: fingerprint, status | request, resolve, find_grant, consume_grant | human, enforcement, budget, PM |
| enforcement (`enforce.py`, `policy.py`) | none | invoke: decide, grant or ask, execute | approvals, tools |
| spend gate (`budget.py`, `model/call.py`) | `budgets`: cap and reservation columns; `model.call` events | set_budget, enforce, release_reservation, call_model | approvals, events |
| event log (`events.py`) | `events` with a sequence number | append, read after a cursor | all |
| scheduler (`scheduler.py`) | an in-memory cursor | PM pulse, re-plan dispatch | events, queue |
| PM and critic (`roles/pm.py`, `roles/critic.py`) | files and events | tick: pushback, consensus, clarify, decompose, commission; replan; triage of requests | queue, approvals, decisions |
| executor, verifier, reviewer, retro (`roles/`) | artifacts in a scratch root, events | run, verify, review, study an episode | queue, policy |
| decisions, requests (`decisions.py`, `crossworkstream.py`) | `decisions`; sub-status in a task's payload | request, answer, withdraw; submit, set status | queue, human |
| adaptive oversight, quality (`adaptive.py`, `quality.py`) | computed from events | intensity of review and retro, research cadence; rates and reports | worker, PM, experiments, skills |
| trust and claims (`trust.py`, `grounding.py`) | `identity_trust`, `comms_claims` | permission, provenance, verdict, strike | spokesman, queue |
| trajectories (`trajectory*.py`) | `trajectories`, their steps | start, add, close, ingest, expire, rotate | PM, retro |
| skills, curator, researcher, lifecycle (`skills/`, `roles/`) | candidate and live files, a registry | cluster, draft, write, promote, inject, judge | approvals, trajectories |
| experiments, failure analyst (`experiment/`) | `experiments`, observations | propose, start, observe, evaluate, ask to scale | approvals, quality |
| gateway (`gateway/`) | configured tokens | enqueue, claim, heartbeat, complete by remotes | queue |
| spokesman (`spokesman/`) | notify cursor, digest, hand-offs | poll, flush, converse, keywords, relay gate | events, approvals, trust |

What is hard here:

- a worker that is slow is indistinguishable from one that is dead: the supervisor
  re-kicks its task and a second worker runs it next to the first;
- the supervisor acts on rows it read in one statement, one transaction per row later;
- a task's completion is a chain of transactions (submit, verify, approve, merge), and a
  process may die between any two of them;
- a grant is looked for, consumed and used in three transactions, a request is looked for
  and inserted in two; an open question and the park on it are two;
- a budget verdict depends on spend that is recorded only when a call is over;
- re-tries call with different arguments, and the fingerprint of a call contains them;
- event numbers are drawn in one order and become visible in another, and a plan is enqueued
  one transaction at a time;
- roles enqueue tasks for roles: the loop must not feed itself, and must study what really
  happened;
- a permission, a report, a set of rows to distill or an experiment is read, judged and
  written in separate steps, next to somebody else who does the same.

## Modules

| module | models | composes |
|---|---|---|
| `TaskState` | statuses and `TRANSITIONS` of `task_state.py` | |
| `TaskBoard` | the abstract promise of the table: posting, legal edges, dependency gate, and the forced end of a refused task | `TaskState` |
| `TaskQueue` | `tasks.py`, the worker's loops, `supervisor.sweep` | `TaskBoard` |
| `Approvals` | the approvals table, one transaction per action | |
| `ApprovalGate` | `enforce.invoke`, parking and `resume_approved` around gated calls | `Approvals` |
| `BudgetGate` | `budget.enforce` / `release_reservation` inside `call_model` | an instance of `Approvals` |
| `EventLog` | `events.py`: numbers drawn at the INSERT, rows visible at the commit, reads behind a cursor | |
| `Critique` | `critic.py`'s rules and the PM's consensus loop, as functions | |
| `Planning` | `scheduler.py`, the PM's tick and replan, the worker's handlers around them | `Critique`, instances of `EventLog` and `Approvals` |
| `Decisions` | `decisions.py`: questions that park a task, beside approvals that do | `Approvals` |
| `Requests` | `crossworkstream.py` and the PM's triage, on the same board | `Decisions` |
| `Adaptive` | `adaptive.py`'s policy, as functions | |
| `Fleet` | the roles a worker dispatches to and the loop they close | `Adaptive`, `TaskState` |
| `Gateway` | the remote task gateway over the fleet's board | `Fleet` |
| `Relay` | the relay gate, the trust ledger, claims, the digest | |
| `Spokesman` | notifier, keyword handler, conversation, hand-offs | instances of `Approvals` and `EventLog` |
| `Quality` | Wilson comparisons, `failure_report`, cohorts, as functions | |
| `Experiments` | the lifecycle of an experiment and the failure analyst | `Quality`, an instance of `Approvals` |
| `Trajectories` | capture, ingest, expiry, rotation | |
| `Learning` | retro, curator, researched drafts, promotion, injection, lifecycle | `Trajectories`, `Quality`, an instance of `Approvals` |
| `MC*` | instances for TLC | |
| `*_proofs` | theorems: `TaskQueue`, `ApprovalGate`, `Planning`, `Requests`, `Gateway` (with `Fleet`), `Learning`, `Spokesman` (with `Relay`), and `Money_proofs` for `BudgetGate` and `Experiments` | |

### How state and actions correspond to the code

**TaskQueue.** `status`, `deps`, `owner`, `retries`, `noProgress` are the columns of one
row per task. Clocks are abstracted to what the predicates see: `lease` is `heartbeat_at`
relative to the stale threshold (`none`, `fresh`, `stale`) and `nudge` is `nudged_at`
relative to the nudge grace; `HeartbeatExpires` and `NudgeGraceElapses` are the passing
of time. A worker is a program counter `pc` with the task and the attempt it remembers
between transactions. It never looks again at who owns the row, because the code does not.
`snap` is the supervisor's result set of `find_stale_tasks`: `Scan` fills it with the columns
the code keeps, and `Nudge`, `Defer`, `Measure`, `Rekick`, `Terminate` consume one row each,
re-checking exactly what the code's `WHERE`/`FOR UPDATE` re-checks. `Moves` / `Skips` /
`Raises` are the three outcomes of `transition()` (the row moved, the `expected_from` guard
missed, `IllegalTransition`).

**Approvals, ApprovalGate.** A row has an action (the fingerprint) and a status. The gate's
steps are the transactions of `invoke`: `FindGrant`, `ConsumeGrant`, else `LookUp` and
`Insert`, then `Park`. A task is reduced to pool / running / blocked / over.

**BudgetGate.** One resource stands for dollars and tokens. `spent` is the sum `enforce`
takes over events, `reserved` the reservation column, `hold` the list `call_model`
releases in its `finally`. `Gate` is phase 1 of `enforce` (one transaction under the row
locks), `Report` is phase 2. `took` and `normal` are history. `Released` subtracts from every
row that governs the call, as `release_reservation` does, rows that were capped only after the
call began included; the floor at zero is part of it. The properties add reservations up as
the size of a set with one element for each unit of money (`Total`), so that no recursion is needed.

**EventLog, Planning.** An event is drawn (`AppendEvent`) and committed (`Commit`) in two
steps, because `escalate_stuck_task` inserts it inside a longer transaction. `ReadEvents` is
the query of `read_events` with its look-back and its limit. `task` is the tasks table in the
order of insertion: a row says what it is (a tick, a replan, a piece of work), what it replans
or is a part of, which job enqueued it as which item, its depth and its prerequisites. The
scheduler is `Wake`, one `Dispatch` per event, `EndDispatch` and `SchedulerFails` (an error
keeps the old cursor, a restart forgets it). A worker's pass over a job is a program counter
with the plan in hand; `PassFails` may end it anywhere. A model's answer is a verdict with the
items' edges. The Critic's judgement is a function of the plan (`Critique`). `MCPlanning`'s `Aged`
is a board with a past: a task that was stuck at the depth cap, its merged replan and the human's
denial, and a log whose first number is that task's signal or another event.

**Decisions, Requests.** A task is in the pool, running, blocked or over, and `waitsFor` is the
marker its `result` carries while parked: a decision, an approval or nothing. A question is a
row; `request_decision` inserts it and parks the task in one transaction, the answer requeues
it; `resume_approved` looks at approvals only. A request is a task with the sub-status of its
payload (`sub`) and what the stream has told (`told`); a triage is `pick up`, the verdict, one
step per item, the mark, the announcement, the close. An accept may bring a list of items of its
own, shorter or longer than the criteria (`OwnItems`); without one there is an item per criterion
(`ItemsForAccept`). `due` is the length of the list in hand, `itemCount` what the items' payload
says of it. The two steps of `request_approval`
are one here (`ApprovalGate` has them apart).

**Adaptive, Fleet.** `jobs` is the tasks table, `trail` what the event log says of each job,
`ended` the order in which work episodes finished, `disk` the artifacts in each worker's scratch
root. A pass goes through a role's transactions one by one with the modes it resolved when it
started. `Verify` and `Review` read the artifact from `disk`, each in its own worker's root. The
claim, the re-kick and `complete_task` are single steps here; `TaskQueue` has them apart.
Fractions and rates are percentages.

**Gateway.** `row` holds the columns of a task that `Fleet` leaves out: workstream, pool, the
remote that claimed it and the one credited with it. `Authorize` is gates 3 and 4 of ADR-0028
over a credential that has been recognised. `BeginComplete` is the ownership look of
`_held_task`, `EndComplete` the later `complete_task`; `inHand` is the request between them.
Heartbeats only delay a re-kick, and `Fleet` re-kicks at any time.

**Relay.** A batch is the thread of one `POST /notify`: the permission check, then for each claim
record, verify, rule and, if contradicted, strike and cascade, each a transaction, then one send
or none. The tasks a claim cites move meanwhile (`been`, `wasTrue` are history). The digest
keeps admitted text until a flush, and a restart loses threads and digest.

**Spokesman.** `/poll` is `read`, then one step per routed event, then the save of the cursor;
numbers may commit late (`late` is history). A conversation is a thread of tool calls; a hand-off
is a row whose approval, insertion and activation are three transactions. `granted` (history) holds
the rows a command of the human approved; a conversation's `resolve_approval` tool approves without
one.

**Quality, Experiments.** A rate is a pair of counts and a Wilson bound is only ever compared with
a percentage, which needs no square root. A call (propose, start, evaluate, analyse) is a record
with its step and what it has read; `Evaluate` reads the row, the spend and the observations in
separate steps and commits with the guard of the UPDATE; the request to scale comes after, its
SELECT and its INSERT being two steps, because a SELECT that finds nothing locks nothing. `raised`
(history) says which experiment's call inserted a request. `MCExperiments`'s `Underway` starts with
one experiment running that has reported.

**Trajectories, Learning.** A trajectory's steps are counted, and the count is its signature and
the name of the skill induced from it. `sweep` is the sweeper's batch, selected first and compacted
row by row. `registry` is what the worker discovered when it started, which is `Shipped` (the reviewed skills
under `skills/`) before anything is adopted. Candidates have two writers, as `review_queue.py`
says: `WritesCandidate` is the Curator's, for shapes that pass the floors its task carries or the
defaults (`Floors`, chosen anew for each task), and `DraftsCandidate` the Researcher's
(`draft_skill`, which the worker leaves off and only direct callers set), on a topic and with no
episode behind it. A promotion finds the grant, consumes it and writes the live file, each in a
step of its own; the candidate's file stays, so that it can be promoted again, and needs another
approval then. `MCLearning`'s `Underway` starts with one PM's task at work; its `OneSurprise` lets
the Researcher draft, or something fail and a transcript come in, not both in one behaviour.

## Runs

Every property below is violated by at least one mutant of the code, listed under `mutants`.

| run | instance | properties and what they say |
|---|---|---|
| `TaskQueue_accurate` | 2 workers, a work and an internal task, 2 requests of a task, 2 crashes, stale threshold longer than any quiet step (4.8 million states) | `SingleExecutor`: no task is run twice at once; `RekickFollowsNudge`: a re-kick follows a nudge that elapsed; `FirstVerdictIsKept`: a task that asked at most once leaves `blocked` only by that verdict and is never rewritten once over; `ImplementsBoard`: refinement of `TaskBoard` |
| `TaskQueue_zombies` | 2 workers on 1 task, inaccurate detector, fair supervisor only | `BoundedRecovery`, `MergedWasVerified`, `SweepSparesParked`, and `HeldIsTransient`: no task stays held, whatever the workers do |
| `ApprovalGate_ends` | 2 tasks, 4 actions (asked, allowed, denied), 2 re-kicks of each, a crash; fair workers and human (193,000 states) | `OneShot`: a row authorizes one execution; `AskedForAReason`: a second request for one action has a reason; `ParkedIsResumable`; `GatedTaskEnds` |
| `BudgetGate_caps` | 3 calls, 2 workstreams and the org ceiling, fallbacks that cost more, one fault, a cap set mid-flight | `CapHolds`; `CushionCovers`; `ReserveIsKept`: concurrent normal calls leave the buffer near a cap; `CushionIsReturned` (474,000 states) |
| `Planning_dispatch` | a board with a past, 1 worker, 1 tick, 2 more stuck events, a page as long as the look-back, depth cap 1, a Critic, one fault of any kind | `ReplannedOnce`, `DecomposedOnce`, `ReplanDelivers`; `StuckIsReplanned`: every signal is answered again and again, unless old signals fill the page and the cursor stands still for ever (595,000 states) |
| `Requests_triage` | 2 workers, an asking, a gated task and a request with two criteria, any verdict and an accept with or without a list of its own, one re-kick of each, one crash (904,000 states) | `OpenIsParked`: an open question has its task parked on it; `MergedIsDelivered`: the list a merged request was accepted with is on the board in full and it is announced; `AskerEnds` |
| `Fleet_loop` | 2 workers over four boards: two episodes; one episode and a stall; a scan and two requests of remotes; ticks, hours and a crash (738,000 states) | `FollowsTheOutcome`: retro and review are about the outcome the board shows; `CreditWasClaimed`: a remote is credited with what it was handed; `Quiesces`: the loop of roles dies out |
| `Relay_gate` | 3 batches of 2 identities (facts, opinions, an unreadable reference), a task that moves, a flush, a restart (218,000 states) | `FabricationWithheld`: a contradicted claim holds back its whole batch; `StruckForCause`; `NoNewVoice`; `FabricationEscalated` |
| `Spokesman_bridge` | one role, one call, one conversation, one keyword, two events that may commit in either order, one fault | `Accounted`: what a pass could see is told, in the digest or lost to a fault; `SpeechWasApproved`: nobody speaks on a request that is pending or denied; `AskReachesHuman` (643,000 states) |
| `Experiments_bets` | 2 callers, 2 experiments of a workstream, one of them running, 2 requests, 2 telemetry events, one death (855,000 states) | `BetsAreEarned`; `VerdictIsFinal`; `RequestsAreEarned`: more budget is asked for once, for a scaled experiment, by the call whose verdict it was |
| `Learning_loop` | 2 episodes of at most 2 steps, one of them under way, 1 import, 1 researched topic, 1 shipped skill, 2 sets of floors, 2 promoters, 1 approval, 1 fault, 1 restart (479,000 states) | `LeanWasMined`: only what a retro named is distilled; `OneGrantOneAdoption`; `InjectedIsEarned`: what a prompt is given was shipped or approved, and what was induced comes from a first-pass episode; `MinedIsRotated` |
| `Experiments_report` | a log of three events, the code's own z and sample floor | violation of `ReportIsDefined`: `failure_report` raises on a log with more re-kicks than ended tasks, see `findings` |

`MCPlanning` also evaluates, as an assumption, that `TopoOrder` orders every acyclic plan there is
(`PlansAreOrdered`; the model's plans have at most three items), and `MCGateway` checks `Adaptive`
over every input that matters to it: the throttle beats the escalation, more errors never mean less
review, a research scan is never starved or stacked, the tightest cap governs.

**Further counterexamples.** These configurations state what one might expect of the code, or a
property without the assumption it needs; TLC shows the trace.

| configuration | trace |
|---|---|
| `TaskQueue_claims` | a task asks twice. Two workers read the first grant; the slower one requeues the task when it is parked on its next request, which nobody has decided (`BlockedUntilVerdict`; worker.py:1568 where :1551 promises that a pending one is left untouched). A worker that read a denial writes it by force after the other's stale grant let the task run on to merged: the merged task becomes abandoned (`TerminalIsFinal`; tasks.py:271 where task_state.py:20 calls merged terminal). Run it with `-continue` to see both |
| `TaskQueue_dropped` | a worker dies between two hops: the task stays in `ready_for_review` (`NoTaskDropped`) |
| `BudgetGate_claims` | a second raise of a cap finds the first one's approved row: nobody is asked (`BlockedIsAsked`); a dead process leaves its reservation on the cap (`CapNeverShrinks`). Run it with `-continue` to see both |
| `Planning_dispatch` with `StuckIsNeverLost` in place of `StuckIsReplanned` | two old signals fill the page of two for ever and the third is never read: "a late-committed stall signal is never lost" (scheduler.py:215-217), but 200 events are read (scheduler.py:42) from 1000 numbers behind the cursor (events.py:70) |
| `Planning_granted` | the retry of an approved pushback raises until the tick is given up (`GrantProceeds`) |
| `Planning_chain` | a replan of a replan of a replan (`ReplansAreBounded`) |
| `Spokesman_bridge` with `SpeechWasHumanGranted` in place of `SpeechWasApproved` | the tools of one conversation propose a hand-off, approve it as "spokesman:converse" and activate it: "Human must approve a handoff.propose approval" (handoff.py:3-4), but converse.py:289-308 takes the model's word for it |
| `Relay_honest` | the gate's own writes change a count it checks: an honest identity is revoked (`HonestKeepsVoice`) |
| `Experiments_bets` with `ScaleIsRaised` in place of `RequestsAreEarned` | a scaled verdict "raises a 🛑 approval for added budget" (api.py:13-15), but its caller dies after the commit; with `MaxCrashes = 0`, a second scaled experiment joins the request of the first, whose fingerprint has no task and no arguments (api.py:412-425, approvals.py:204-217) |
| `Learning_unmined` | what an episode thought after its first retro is distilled unread (`NoUnminedDistilled`) |
| `Gateway_holders` | a remote is credited with a task that was taken back between the look and the finalization (`OnlyHolderFinishes`, ADR-0028 gate 6); a token pinned to two workstreams can claim a task by naming one and is then refused on `heartbeat` and `complete`, which cannot name any (`HolderIsHeard`). Run it with `-continue` to see both |

Of the properties the modules state beyond these, `ClaimConsistent`, `LegalUnlessForced`,
`OnlyOwnerFinalizes` (`TaskQueue`), `VerdictsAreFinal`, `NoDuplicateOpen` (`ApprovalGate`),
`NothingLost`, `DependsOnOwnBatch` (`Planning`), `RemotesKeepOut` (`Gateway`), `WorkedOnce` (`Requests`) and `Relay`'s `TypeOK` are proved.
`DependencyGate` (where a task asks once), `ThrottleHolds`, `NoFalseAlarm`, `LoopIsBounded`,
`ScanPaced` (the last two on boards no remote enqueues on), `FactsHeld`, `FixesHaveSample`,
`VerdictHasControl` and the remaining type invariants hold in the instances above and are not part
of the listed runs.

**Bounds.** Two workers are enough for every race of the code: a row lock admits one
transaction at a time, and each re-check compares one remembered value with one current
value, so a third actor can be played by the second one in a later pass; the same holds for
callers of experiments and promotions. Two tasks give a prerequisite and its dependent.
`MaxRetries`, `StuckThreshold`, `MaxAttempts` are 1 or 2 so that both sides of every comparison
are reached. `MaxAsks`, `MaxRows`, `MaxRekicks`, `MaxCrashes`, `MaxFaults`, `MaxRequests`,
`MaxJobs`, `MaxQuestions`, `MaxRestarts`, `MaxHandoffs` bound counters the code leaves free; each
is at least 2 where a property is about the second occurrence, except that `Learning_loop` has
one approval: that a second adoption of a skill spends a second one is left to `AdoptionsArePaid`. `OwnItems` is 1 where there are two criteria, so that a list of its own is shorter
than the criteria's; longer ones are left to the theorem. In `Planning`, two numbers are the fewest
for which a commit can come after the cursor has passed it; a page (`Limit`) of two against a
look-back of two stands for the code's 200 against 1000, the aged board's signal being the first of a
page of old ones and the third number the signal behind it; `MaxTasks` is above what the
other bounds let the instance enqueue, and a depth cap of 1 has a stuck task on each side of it.
In `Fleet` what may still happen to a board (`may`) is counted per board, so that a stall, a death,
an hour and a remote's request each meet a board small enough to explore them with everything else;
two requests are a post and a claim, two claims, or a claim and a revocation. In `Relay` three
batches let one be admitted before, one during and one after a strike. `Experiments_bets` and
`Learning_loop` take a z of 0.7 and the smallest samples, so that one or two observations are
decisive; the comparison itself is exact. The age a trajectory must have before it is rotated is
zero, and the steps of an import are not counted. Deadlock is not checked: with the bounds spent
and every task over the system may really stop.

**Fairness.** `TaskQueue`'s `SupervisorFairness`: `supervisor.run` sweeps on a timer and time
passes; nothing is asked of workers. Elsewhere worker processes are restarted by launchd
(KeepAlive) and loop over `resume_approved` and `run_once`, and where a property says a parked
task goes on, a human answers. Weak fairness is enough almost everywhere because no other process
can disable a step for ever. `Requests` needs strong fairness of the grab of a task, because the
only idle worker may be busy each time one looks, and asks it only of tasks that end; a request
that needs a clarification may stay for ever. `BudgetGate` and `Relay` only say that a call or a
request that has begun goes on. `Planning`'s says that the scheduler loops, each
worker takes some job and goes on with it, the supervisor recovers some task, transactions end and
the human answers; which of several tasks comes next is left open. `Spokesman`'s says that `/poll` and
`/digest/flush` are called again and again (docs/spokesman-whatsapp.md has the scheduler do so);
nothing is asked of conversations. `Learning`'s is the sweeper's hourly loop
(`TRAJECTORY_ROTATE_ENABLED`). `Fleet`'s is live workers and a supervisor that sweeps what nobody
works on; of a remote nothing is asked but that it does not send heartbeats for ever on a task it
never completes, which the code would allow. No liveness of ticks is claimed: with a critic of
another make, an approved dissent is asked under the same fingerprint again and the tick is parked
and resumed for as long as the critic dissents.

## Proofs

For every set of workers, tasks, rows and identities, every threshold and every answer of a model:

**TaskQueue_proofs.**

- `TypeCorrect` needs `RetriesLeft` (a worker at the retry hop has an attempt left).
- `RecoveryIsBounded`: the counters are bounded although each rung acts on a snapshot. The
  invariant relates snapshot and row: a scanned counter is never below the row's unless the row
  has left the ladder, because only the sweep increments it.
- `ClaimsAreConsistent`, `MergedIsVerified`, `TransitionsAreLegal`, `ParkedIsSpared`: hold with
  zombies, from `ClaimInv` and `VerdictInv` (which ties what a worker's counter promises to
  what is in the row or in history).
- `QueueImplementsBoard`: every step of `TaskQueue` is a step of `TaskBoard` or a stutter, with
  zombies, crashes and stale snapshots. It needs `JobPosted`: the task a worker
  has in hand is a row that exists. `transition` re-reads the row under its lock, so
  each write is an edge of `TRANSITIONS` whatever the worker remembers.
- `ExecutionIsExclusive`, `FinalizerOwnsTask`, `RekickIsNudgedFirst` assume `AccurateDetector`: a
  heartbeat expires only once no pass works on the task. That is the operator's choice of a stale
  threshold above the longest quiet step; the code does not guarantee it.
- `FirstVerdictStands`, under `AccurateDetector`: `AskInv` says that, while a task has asked at most
  once, a verdict in a worker's hands is the row's. `TaskQueue_claims` shows that the second request is where this ends.

**ApprovalGate_proofs.**

- `TypeCorrect`; `GrantIsOneShot` and `VerdictStands` for any interleaving: `GrantInv` says that a
  row not consumed has authorized nothing and a consumed one is in the hand of at most one pass.
- `RequestIsIdempotent` and `ParkedStaysResumable` under `AccurateDetector`: `GateInv` adds
  that passes over different tasks have different actions and that a pass about to insert
  still sees no open row.
- `HumanIsAskedForAReason`, under `AccurateDetector`: `ReasonInv` counts. The rows of an action that
  were neither used nor denied nor are in a pass's hand were lost with passes that died, no more of
  them than deaths (`LostToDeaths`), and while a pass runs on a grant no row of its action is open
  (`SpendsAlone`).

**Planning_proofs.**

- `StuckIsReplannedOnce`: every step updates rows without touching their kind and origin, or
  inserts one row, and a replan only after a look that found none (`TableStep`).
- `NoSignalIsLost`, for a positive look-back: `LogInv` says that a transaction in flight was
  overtaken by fewer numbers than the look-back, and `NothingPassed` that, while a batch is in
  hand, what the batch leaves out is younger than all of it or not yet passed by more than the
  look-back. Hence neither the limit nor an error in the middle of a batch nor a restart moves the
  cursor past a signal. The limit can keep it from moving at all: that is what `StuckIsReplanned`
  excuses (`Jammed`) and `StuckIsNeverLost` shows. That transactions end within the look-back is the
  assumption `events.py` states for it.
- `TwoRoundsSettle`, of `Critique`: with two rounds or more a plan that has an item is never
  escalated on the studio's own Critic's word, because a revision fills exactly the gaps that block.
- `FinishedReplanLeadsOn`, `PlanIsCarriedOutOnce`, `ItemsWaitForTheirBatch` stand on `PlansInv`,
  which says of rows, passes, approvals and signals what they are and that they point at rows that
  exist. `DeliverInv` follows the parts of a replan from the passes that enqueue them to the merge;
  `BatchInv` and `DepsInv` say which items a pass has already enqueued and that an item's
  prerequisites come before it in the plan's order. They hold for a detector that errs.
  `OnceInv`, under `AccurateDetector`, counts the copies of an item: at most one for each
  re-kick while the job waits and one more once it was picked up; a pass has its job to itself and still
  lists the items it has not enqueued.
  All three assume `PlansAreOrdered`: `TopoOrder` is a recursion through its own results, and that it
  orders a plan is evaluated by TLC for every plan instead of proved.

**Requests_proofs.**

- `OpenQuestionParks`, if no task both asks questions and makes gated calls (`QuestionsApart`). The
  invariant ties each open question to the one row it parks and each verdict on a call to a row
  parked for an approval. Give `Requests_triage.cfg` the same task as `Askers` and `Gated` to see
  why the hypothesis is needed: a verdict taken in hand before the task was requeued takes it out of
  its later park.
- `MergedRequestIsDelivered` and `DeathsBoundTheItems` from one invariant, `Kept`: one pass triages a
  request at a time, what it has made is counted step by step, and the items on the board are those of
  the passes that died and of the one at work or done, each at most as many as the longest list an
  accept may call for (`Longest`), its own or the criteria's. They assume `RequestsAttended`: the sweep does
  not take a triage in progress for stale. With a request in `Quiet` a second pass overwrites the
  sub-status of the first, and `MergedIsDelivered` fails.

**Gateway_proofs.** `CreditIsEarned` and `RemotesAreFenced`, for any tokens, scopes and pins and with
any number of completions in progress. `Columns` says that the columns belong to the rows, `Earned`
that a claim, a credit and a look at the holder all go back to a grab of that identity; looks are
stable because who was handed a task is never taken back. `FleetStep` reduces every step of the
fleet to an update or an insertion of rows. `StudiesAreFaithful`, of `Fleet` with and without remotes:
a row that is over stays as it is (`Steady`), a pass that closes an episode carries the outcome it
wrote, and so does the retro or review it enqueues (`StudyInv`).

**Spokesman_proofs.** Of `Relay`: `RelayTypes`; `FabricationIsWithheld`: an admitted batch has no
contradicted claim, from an invariant about every program point of a thread; `RevokedIsSilent`: the
state of an identity never goes back to trusted, and a thread sets out only after it read that it
is; `StrikesHaveCause`: a strike is charged to one contradicted claim, and the claim a thread has
still to strike for (`Pending`) is not among those paid for (`Judged`, `Paid`). Of `Spokesman`:
`PassedIsAccounted`: `AccountInv` says where each number behind the cursor, and each one the pass at
work has dealt with, has gone; `RelayedIsApproved`: `SpeechInv` ties each thread that is about to
activate a hand-off, and each hand-off itself, to a row of the same role that was approved.

**Learning_proofs.** `OnlyMinedIsLean`; `AdoptionsArePaid` and `InjectedWasEarned` for finitely many
episodes and promoters (`FiniteLoop`): every promotion past its `consume` holds an approval of its own,
what is in the registry was live, what is live was shipped or adopted, and what was adopted was a
candidate: a draft of the Researcher's, or one the Curator wrote from a closed first-pass episode.
The last needs floors of at least 0, as the assumption on `Floors` says: the interval of a shape
that never succeeded starts at 0, and a task that carried a negative floor would let it through.

**Money_proofs.** Of `BudgetGate`, for any finite set of calls: `Ledger` says that the reservation
column of a settled cap is to the unit the sum of what calls hold on it, although each release
subtracts from every row and stops at zero; the floor is never reached there, because a held
reservation was taken by exactly the settled caps that govern the call (`HoldInv`). From it
`CushionIsEnough`, with nothing assumed; `CapsHold` and `ReserveIsProtected` (`BufferInv`), if no call
costs more than its estimate (`Overrun = 0`) and no budget command sets a settled cap, both of which
the code leaves to the estimator and the operator. Of `Experiments`: `KeptIsEarned`, `VerdictsStand`:
the guard of each UPDATE and the `FOR UPDATE` read behind it are what makes two concurrent evaluations
agree. `RequestsWereEarned`: the call that won the UPDATE is the only one that asks for its experiment
(`AskersEarned`), and until its INSERT no request is that experiment's (`RowsEarned`).

Only model-checked: all liveness, which is out of the prover's reach (`HeldIsTransient`,
`GatedTaskEnds`, `CushionIsReturned`, `StuckIsReplanned`, `AskerEnds`, `Quiesces`,
`FabricationEscalated`, `AskReachesHuman`, `MinedIsRotated`), the assumption
`PlansAreOrdered`, and the assumptions of `MCGateway` about `Adaptive`. Every safety property of the
runs is proved.

## What is not modelled

- Model routing and registry (a pure choice over a YAML file, taken as a choice by `BudgetGate`),
  providers, web search, docker, HTTP and SMS transport: I/O.
- Memory and search: every call is one query or one INSERT; there is no protocol to model.
- Workstream configuration, database connection, migrations, sandbox: PostgreSQL's row locks and
  READ COMMITTED are assumed, and migrations appear where a gate relies on one of their constraints.
- Evaluations and demo (offline), deployment files, prompt texts, payload layout.
- `supervised_sweep`'s GraceTracker and backoff: they skip sweeps during an outage, and the model's
  sweep may be late without bound already.
- The worker's spokesman-prep and capacity handlers, which change no row but their own task; the PM,
  grounding, capacity and readiness reports, which are shown to humans only.
- The gateway's rate limiter, listings and audit events, its client and the minting of tokens.
- `request_decision` has no production caller yet: the asking role of `Decisions` is the one its
  tests describe.

`PROJECT.json` lists every component with its status.

## Plan

What would come next, most important first:

1. `SupervisorLoop`: GraceTracker, outages and the connection retry next to a sweep in progress.
2. The two transactions of `request_approval` inside `Requests`, and `Decisions` on `TaskQueue`'s
   board instead of its own.
3. Heartbeats of remotes in `Gateway`, with the nudge and the grace of `TaskQueue`.
4. Proofs: `ThrottleHolds` and `LoopIsBounded` of `Fleet`; `DependencyGate` for tasks that ask once;
   the type invariants of the components that still lack one; `FactsHeld` of `Experiments`.
