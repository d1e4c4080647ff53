------------------------------ MODULE Critique ------------------------------
(***************************************************************************)
(* The Critic's judgement of a plan (runtime/roles/critic.py) and the      *)
(* bounded consensus loop the PM drives with it (runtime/roles/pm.py).     *)
(*                                                                         *)
(* The model call of run_critic decides nothing: its verdict is a function *)
(* of the plan's facts, which are counts.  The confidence is in percent.   *)
(***************************************************************************)
EXTENDS Integers

\* _plan_facts: items, criteria of the whole, items without a criterion or a marker.
PlanFacts == [items : Nat, criteria : Nat, noCriterion : Nat, noMarker : Nat,
              deps : BOOLEAN, confidence : 0..100]

\* The severities of _SEVERITY_RANK, by the codes of the concerns.
Severity ==
  [no_success_criteria |-> 3, items_missing_criterion |-> 3, items_missing_marker |-> 2,
   thin_criteria |-> 1, no_dependencies |-> 1, phase_scope |-> 2]
BlockingSeverity == 3

\* _assess_plan
Raised(f) ==
  {code \in DOMAIN Severity :
    \/ code = "no_success_criteria" /\ f.criteria = 0
    \/ code = "items_missing_criterion" /\ f.noCriterion > 0
    \/ code = "items_missing_marker" /\ f.noMarker > 0 /\ f.noCriterion = 0
    \/ code = "thin_criteria" /\ f.confidence >= 85 /\ f.criteria <= 1 /\ f.items >= 2
    \/ code = "no_dependencies" /\ f.items >= 3 /\ ~f.deps
    \/ code = "phase_scope" /\ f.items >= 5}

\* decide: "escalate" is not the Critic's to say.
Blocking(f) == \E code \in Raised(f) : Severity[code] >= BlockingSeverity
Decide(f) == IF Blocking(f) THEN "revise" ELSE "proceed"

\* _revise_plan: fills what is missing, and invents no item.
Revise(f) ==
  [f EXCEPT !.noCriterion = 0, !.noMarker = 0,
            !.criteria = IF @ = 0 /\ f.items > 0 THEN 1 ELSE @]

\* _run_consensus: the plan of round r; a second revision finds nothing to fill.
Version(f, r) == IF r = 1 THEN f ELSE Revise(f)
Consensus(f, rounds) ==
  IF \E r \in 1..rounds : Decide(Version(f, r)) = "proceed" THEN "agreed" ELSE "escalated"

=============================================================================
