------------------------------ MODULE Learning ------------------------------
(***************************************************************************)
(* The learning loop: work spawned by a PM episode ends and a retro reads  *)
(* it (roles/retro.py), the Curator clusters the closed episodes and       *)
(* writes candidate skills (roles/curator.py), the Researcher drafts more  *)
(* of them from what it read (roles/researcher.py), a human-approved       *)
(* promotion makes one live (skills/review_queue.py), beside the skills    *)
(* the repository ships (skills/), workers inject what they discovered     *)
(* when they started (skills/registry.py, skills/inject.py), and the       *)
(* lifecycle role judges live skills by cohorts (roles/skill_lifecycle.py).*)
(*                                                                         *)
(* Every episode spawns one work task of one family, its cost goes with    *)
(* the number of steps, and every skill matches every query.  A skill the  *)
(* Curator induces is named by its signature, the number of steps; a       *)
(* researched one by its topic, which may be that of a shipped skill.      *)
(***************************************************************************)
EXTENDS Trajectories, Quality

CONSTANTS
  Promoters,     \* callers of promote_candidate
  AlwaysRetro,   \* WORKER_RETRO is "always"; else "on_fail"
  Floors,        \* what a curate task may ask for, or leave to the defaults: recurrence,
                 \* sample, and the percentage the Wilson bound must exceed
  Researched,    \* topics the Researcher may draft a skill on
  Shipped,       \* reviewed skills of the repository
  NoAct,
  MaxRequests, MaxRestarts
                 \* bounds: approvals, restarts of the worker

ASSUME LearningAssumption ==
  /\ AlwaysRetro \in BOOLEAN
  /\ Floors \subseteq [cluster : Nat, sample : Nat, floor : 0..99]
  /\ (Researched \cup Shipped) \cap (1..MaxSteps) = {}
  /\ NoAct \notin Researched \cup Shipped \cup (1..MaxSteps)
  /\ MaxRequests \in Nat /\ MaxRestarts \in Nat

VARIABLES
  task,        \* task[e]: the work task of episode e
  retro,       \* retro[e]: its retro
  curates,     \* curate tasks not yet done
  writing,     \* candidates the running one still has to write
  candidate,   \* candidate[s]: the file in the candidates root
  live,        \* live[s]: the file in the live skills root
  registry,    \* the skills the worker discovered when it started
  restarts,
  row, next,   \* the approvals
  promoter,    \* promoter[p]: the promotion p is in
  adoptions,   \* adoptions[s]: skill.adopted events
  proposals    \* what the lifecycle role has proposed: [skill, verdict]

Induced == 1..MaxSteps
Skills == Induced \cup Researched \cup Shipped
Store == INSTANCE Approvals WITH Acts <- Skills, MaxRows <- MaxRequests

work == <<task, retro>>
curation == <<curates, writing, candidate>>
adoption == <<live, row, next, promoter, adoptions>>
worker == <<registry, restarts, proposals>>
vars == <<trajVars, work, curation, adoption, worker>>

\* A file's content is the evidence it quotes; a draft and a shipped skill quote none.
None == Rate(0, 0)
Unmeasured == Rate(1, 0)
Ended == {e \in Episodes : task[e].status \in {"merged", "abandoned"}}
FirstPass(e) == task[e].status = "merged" /\ ~task[e].rework

Init ==
  /\ TrajectoriesInit
  /\ task = [e \in Episodes |-> [status |-> "absent", rework |-> FALSE, skills |-> {}]]
  /\ retro = [e \in Episodes |-> "none"]
  /\ curates = 0 /\ writing = {}
  /\ candidate = [s \in Skills |-> None]
  /\ live = [s \in Skills |-> IF s \in Shipped THEN Unmeasured ELSE None]
  /\ registry = Shipped /\ restarts = 0
  /\ Store!StoreInit
  /\ promoter = [p \in Promoters |-> [op |-> "idle"]]
  /\ adoptions = [s \in Skills |-> 0]
  /\ proposals = {}

-----------------------------------------------------------------------------
(* The episode's work task                                                   *)

OnlyTask(e, t) ==
  /\ task' = [task EXCEPT ![e] = t]
  /\ UNCHANGED <<curation, adoption, worker>>

Plan(e) ==
  /\ Spawns(e)
  /\ OnlyTask(e, [task[e] EXCEPT !.status = "queued"])
  /\ UNCHANGED retro

\* The Executor injects the registry's skills and says so in skill.applied.
Executes(e) ==
  /\ task[e].status = "queued"
  /\ OnlyTask(e, [task[e] EXCEPT !.status = "running", !.skills = registry])
  /\ UNCHANGED <<trajVars, retro>>

\* The Verifier fails the first attempt: one retry.
Reworks(e) ==
  /\ task[e].status = "running" /\ ~task[e].rework
  /\ OnlyTask(e, [task[e] EXCEPT !.rework = TRUE])
  /\ UNCHANGED <<trajVars, retro>>

\* Terminal; the retro is enqueued after the last transition has committed.
Ends(e, status) ==
  /\ task[e].status = "running"
  /\ status = "abandoned" => task[e].rework
  /\ OnlyTask(e, [task[e] EXCEPT !.status = status])
  /\ retro' = [retro EXCEPT ![e] = "owed"]
  /\ UNCHANGED trajVars

Triggers(e) == AlwaysRetro \/ task[e].status = "abandoned"

RetroStep(e, l) ==
  /\ retro' = [retro EXCEPT ![e] = l]
  /\ UNCHANGED <<task, adoption, worker, writing, candidate>>

TriggersRetro(e) ==
  /\ retro[e] = "owed"
  /\ RetroStep(e, IF Triggers(e) THEN "due" ELSE "none")
  /\ UNCHANGED <<trajVars, curates>>
DiesBeforeRetro(e) ==
  /\ retro[e] = "owed" /\ Fault
  /\ RetroStep(e, "lost")
  /\ UNCHANGED <<traj, writer, mined, sweep, minedAt, curates>>

\* run_retro reads the task's events, nominates a clean first pass to the Curator and
\* names the trajectory it finds linked to the task.
Worth(e) == FirstPass(e)
Retro(e) ==
  /\ retro[e] = "due"
  /\ IsMined(e)
  /\ curates' = IF Worth(e) THEN curates + 1 ELSE curates
  /\ RetroStep(e, "done")
  /\ UNCHANGED <<traj, writer, sweep, faults>>

-----------------------------------------------------------------------------
(* The Curator: cluster_report in one statement, then file after file.       *)

Linked == {e \in Episodes \cap Rows : /\ traj[e].status = "closed" /\ traj[e].steps > 0
                                      /\ task[e].status # "absent"}
Cluster(s) == {e \in Linked : traj[e].steps = s}
Evidence(s) == Rate(Cardinality({e \in Cluster(s) : FirstPass(e)}),
                    Cardinality(Cluster(s) \cap Ended))

\* Twice the median of the family's step counts.
Kth(k) == CHOOSE v \in Induced :
  /\ Cardinality({e \in Linked : traj[e].steps <= v}) >= k
  /\ Cardinality({e \in Linked : traj[e].steps < v}) < k
Median2 ==
  LET N == Cardinality(Linked)
  IN IF N % 2 = 1 THEN 2 * Kth((N + 1) \div 2) ELSE Kth(N \div 2) + Kth(N \div 2 + 1)

Recurs(s, f) == Cardinality(Cluster(s)) >= f.cluster
IsMature(r, f) == r.n >= f.sample /\ LowerAbove(r, f.floor)
Efficient(s) == 2 * s < Median2

Candidates(f) == {s \in Induced : /\ Cluster(s) # {} /\ Recurs(s, f)
                                  /\ IsMature(Evidence(s), f) /\ Efficient(s)}

\* With nothing left to write the curate task is complete.
Writing(rest) == writing' = rest /\ curates' = IF rest = {} THEN curates - 1 ELSE curates

Curates(f) ==
  /\ curates > 0 /\ writing = {}
  /\ Writing({[skill |-> s, content |-> Evidence(s)] : s \in Candidates(f)})
  /\ UNCHANGED <<trajVars, work, candidate, adoption, worker>>
WritesCandidate(c) ==
  /\ c \in writing
  /\ candidate' = [candidate EXCEPT ![c.skill] = c.content]
  /\ Writing(writing \ {c})
  /\ UNCHANGED <<trajVars, work, adoption, worker>>

\* The Researcher's draft on a topic, beside the Curator's in the same root (run_research
\* with draft_skill; a write the policy denies changes nothing).
DraftsCandidate(s) ==
  /\ candidate' = [candidate EXCEPT ![s] = Unmeasured]
  /\ UNCHANGED <<trajVars, work, curates, writing, adoption, worker>>

-----------------------------------------------------------------------------
(* promote_candidate: the review gate.                                       *)

OnlyPromoter(p, j) ==
  /\ promoter' = [promoter EXCEPT ![p] = j]
  /\ UNCHANGED <<trajVars, work, curation, worker>>

\* _find_candidate scans the candidates root without the live one: an adopted candidate,
\* whose file stays, can be promoted again.
InQueue(s) == candidate[s] # None

\* The bound MaxRequests: nobody promotes who could only ask for one row too many.
MayAsk(s) == next \in Store!Ids \/ Store!RowsOf(s, Store!Open) # {}

Promotes(p, s) ==
  /\ promoter[p].op = "idle" /\ InQueue(s) /\ MayAsk(s)
  /\ OnlyPromoter(p, IF \E i \in Store!Ids : Store!IsGrantFor(s, i)
                     THEN [op |-> "consume", skill |-> s,
                           grant |-> CHOOSE i \in Store!Ids : Store!IsGrantFor(s, i)]
                     ELSE [op |-> "ask", skill |-> s])
  /\ UNCHANGED <<live, row, next, adoptions>>

\* consume_grant is the guard: who loses the race asks again.
ConsumesGrant(p) ==
  /\ promoter[p].op = "consume"
  /\ Store!Consume(promoter[p].grant)
  /\ OnlyPromoter(p, [op |-> "write", skill |-> promoter[p].skill])
  /\ UNCHANGED <<live, adoptions>>
LosesGrant(p) ==
  /\ promoter[p].op = "consume" /\ ~Store!Consumable(promoter[p].grant)
  /\ OnlyPromoter(p, [op |-> "ask", skill |-> promoter[p].skill])
  /\ UNCHANGED <<live, row, next, adoptions>>

AsksAdoption(p) ==
  LET s == promoter[p].skill IN
  /\ promoter[p].op = "ask"
  /\ IF \E i \in Store!Ids : Store!OldestOpen(s, i) THEN UNCHANGED <<row, next>>
     ELSE Store!InsertPending(s)
  /\ OnlyPromoter(p, [op |-> "idle"])
  /\ UNCHANGED <<live, adoptions>>

\* The file is read now, whatever was approved; its reviewed flag is flipped.
WritesSkill(p) ==
  LET s == promoter[p].skill IN
  /\ promoter[p].op = "write"
  /\ live' = [live EXCEPT ![s] = candidate[s]]
  /\ adoptions' = [adoptions EXCEPT ![s] = @ + 1]
  /\ OnlyPromoter(p, [op |-> "idle"])
  /\ UNCHANGED <<row, next>>
\* The policy denies the write or the tool fails: the grant is spent.
WriteFails(p) ==
  /\ promoter[p].op = "write" /\ Fault
  /\ promoter' = [promoter EXCEPT ![p] = [op |-> "idle"]]
  /\ UNCHANGED <<traj, writer, mined, sweep, minedAt, work, curation, worker,
                 live, row, next, adoptions>>

Resolve(i, v) ==
  /\ Store!ResolveAs(i, v)
  /\ UNCHANGED <<trajVars, work, curation, worker, live, promoter, adoptions>>

-----------------------------------------------------------------------------
(* The worker: its registry, and the lifecycle role.                         *)

LiveOrCandidate == {s \in Skills : live[s] # None \/ candidate[s] # None}
Live == {s \in Skills : live[s] # None}

\* A restart discovers the live skills, and loses the curation it was in.
RestartWorker ==
  /\ restarts < MaxRestarts
  /\ restarts' = restarts + 1
  /\ registry' = Live /\ writing' = {}
  /\ UNCHANGED <<trajVars, work, curates, candidate, adoption, proposals>>

\* skill_efficacy_report: tasks a skill was applied to, against the others of the family.
StepsOf == [e \in Episodes |-> IF e \in Rows THEN traj[e].steps ELSE 0]
Scope == {e \in Episodes : task[e].status # "absent"}
Verdict(s) ==
  LET with == {e \in Scope : s \in task[e].skills}
      Arm(S) == Cohort(S, StepsOf, Ended, {e \in S : FirstPass(e)})
  IN IF with = {} THEN "insufficient" ELSE FamilyVerdict(Arm(with), Arm(Scope \ with))

\* run_skill_lifecycle judges the reviewed skills of the worker's registry, and proposes.
Underperformers == {s \in registry : Verdict(s) \in {"retire", "revise"}}
Proposal(s) == [skill |-> s, verdict |-> Verdict(s)]
JudgesSkills ==
  /\ Underperformers # {}
  /\ proposals' = proposals \cup {Proposal(s) : s \in Underperformers}
  /\ UNCHANGED <<trajVars, work, curation, adoption, registry, restarts>>

-----------------------------------------------------------------------------
OthersIdle == UNCHANGED <<work, curation, adoption, worker>>

Promotion(p) ==
  \/ \E s \in Skills : Promotes(p, s)
  \/ ConsumesGrant(p) \/ LosesGrant(p) \/ AsksAdoption(p) \/ WritesSkill(p) \/ WriteFails(p)

Next ==
  \/ \E e \in Episodes : OthersIdle /\ (Start(e) \/ AddStep(e) \/ Close(e) \/ WriterDies(e))
  \/ \E e \in Imports : OthersIdle /\ (Ingest(e) \/ IngestDies(e))
  \/ OthersIdle /\ (Sweeps \/ SweepDies \/ \E e \in Writers : CompactFails(e))
  \/ \E e \in Episodes :
       \/ Plan(e) \/ Executes(e) \/ Reworks(e)
       \/ \E status \in {"merged", "abandoned"} : Ends(e, status)
       \/ TriggersRetro(e) \/ DiesBeforeRetro(e) \/ Retro(e)
  \/ \E f \in Floors : Curates(f)
  \/ \E c \in writing : WritesCandidate(c)
  \/ \E s \in Researched : DraftsCandidate(s)
  \/ \E p \in Promoters : Promotion(p)
  \/ \E i \in Store!Ids, v \in {"approved", "denied"} : Resolve(i, v)
  \/ RestartWorker \/ JudgesSkills

Spec == Init /\ [][Next]_vars

\* The sweeper comes round again and again.
FairSpec == Spec /\ WF_vars(OthersIdle /\ Sweeps)

-----------------------------------------------------------------------------
(* Properties                                                                *)

TypeOK ==
  /\ TrajectoriesType /\ Store!StoreType
  /\ task \in [Episodes -> [status : {"absent", "queued", "running", "merged", "abandoned"},
                            rework : BOOLEAN, skills : SUBSET Skills]]
  /\ retro \in [Episodes -> {"none", "owed", "due", "done", "lost"}]
  /\ curates \in Nat /\ registry \subseteq Skills /\ restarts \in 0..MaxRestarts

\* Every adoption spends an approval of its own, whoever else was promoting and whatever
\* write failed (promote_candidate consumes before it writes).
OneGrantOneAdoption ==
  \A s \in Skills : adoptions[s] <= Cardinality(Store!RowsOf(s, {"consumed"}))

\* What a prompt is given was shipped with the repository, or a human's approval was spent
\* on it (inject.py, review_queue.py: a candidate is never injected); and one the Curator
\* induced comes from an episode of that shape whose task merged at the first pass.  (That a
\* candidate replaces a shipped skill of its name is paid for in OneGrantOneAdoption.)
InjectedIsEarned ==
  \A e \in Episodes : \A s \in task[e].skills \ Shipped :
    /\ Store!RowsOf(s, {"consumed"}) # {}
    /\ s \in Induced => \E x \in Episodes : /\ traj[x].status = "closed" /\ traj[x].steps = s
                                            /\ FirstPass(x)

\* A live skill is proposed for retirement or revision only with tasks on both sides:
\* enough that ended with it and enough that ended without (ADR-0024: "never on thin
\* evidence").
VerdictHasControl ==
  \A x \in proposals :
    /\ Cardinality({e \in Ended : x.skill \in task[e].skills}) >= MinSample
    /\ Cardinality({e \in Ended : x.skill \notin task[e].skills}) >= MinSample

=============================================================================
