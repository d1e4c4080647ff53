------------------------------ MODULE Adaptive ------------------------------
(***************************************************************************)
(* The intensity policy of runtime/adaptive.py: how much review, retro and *)
(* research a workstream gets, as a function of its recent error rate, its *)
(* recent activity and its budget headroom.  Rates and fractions are whole *)
(* percentages.                                                            *)
(***************************************************************************)
EXTENDS Integers, FiniteSets, FiniteSetsExt

CONSTANTS
  AdaptiveOn,                     \* ADAPTIVE_INTENSITY
  HighErrorRate, LowErrorRate,    \* error_rate thresholds
  BudgetTight, BudgetCritical,    \* budget fraction thresholds
  HighActivity,                   \* episodes per velocity window
  ResearchMin, ResearchMax        \* the baseline research cadence, in hours

ASSUME AdaptiveAssumption ==
  /\ AdaptiveOn \in BOOLEAN
  /\ {HighErrorRate, LowErrorRate, BudgetTight, BudgetCritical} \subseteq 0..100
  /\ HighActivity \in Nat \ {0}
  /\ ResearchMin \in Int /\ ResearchMax \in Int

Unknown == -1        \* budget_fraction's None: no cap is configured
ReviewModes == {"always", "on_risk", "off"}
RetroModes == {"always", "on_fail", "off"}

Clamp(lo, hi, x) == IF x < lo THEN lo ELSE IF x > hi THEN hi ELSE x

\* What budget.remaining reports: a cap of 0 stands for no cap.
Headroom == [capUsd : Nat, leftUsd : Int, capTokens : Nat, leftTokens : Int]
Uncapped == [capUsd |-> 0, leftUsd |-> 0, capTokens |-> 0, leftTokens |-> 0]

\* budget_fraction: the tightest configured cap governs.
Share(left, cap) == IF cap = 0 THEN {} ELSE {(left * 100) \div cap}
BudgetFraction(h) ==
  LET shares == Share(h.leftUsd, h.capUsd) \cup Share(h.leftTokens, h.capTokens)
  IN  IF shares = {} THEN Unknown ELSE Clamp(0, 100, Min(shares))

Tight(frac) == frac # Unknown /\ frac <= BudgetTight
Critical(frac) == frac # Unknown /\ frac <= BudgetCritical

\* recent_error_rate over the (episodes, errored) of the window.
ErrorRate(episodes, errored) ==
  IF episodes = 0 THEN 0 ELSE Clamp(0, 100, (errored * 100) \div episodes)

\* _scale: the throttle beats the escalation.
Scale(base, rate, frac, escalated, guarded) ==
  CASE Critical(frac) -> "off"
    [] ~Critical(frac) /\ rate >= HighErrorRate -> IF Tight(frac) THEN guarded ELSE escalated
    [] ~Critical(frac) /\ rate < HighErrorRate ->
         IF rate <= LowErrorRate /\ Tight(frac) THEN "off" ELSE base

\* _scale_research
ScaleResearch(base, rate, activity, frac) ==
  LET busy == activity >= HighActivity \/ rate >= HighErrorRate IN
  CASE Critical(frac) -> "off"
    [] ~Critical(frac) /\ busy -> IF Tight(frac) THEN "normal" ELSE "eager"
    [] ~Critical(frac) /\ ~busy ->
         IF rate <= LowErrorRate /\ Tight(frac) THEN "off" ELSE base

ReviewModeUnthrottled(base, rate, frac) ==
  IF AdaptiveOn THEN Scale(base, rate, Unknown, "always", "on_risk") ELSE base
\* review_mode, retro_mode and research_cadence: off returns the base unread.
ReviewMode(base, rate, frac) ==
  IF AdaptiveOn THEN Scale(base, rate, frac, "always", "on_risk") ELSE base
RetroMode(base, rate, frac) ==
  IF AdaptiveOn THEN Scale(base, rate, frac, "always", "on_fail") ELSE base
ResearchCadence(base, rate, activity, frac) ==
  IF AdaptiveOn THEN ScaleResearch(base, rate, activity, frac) ELSE base

\* pm_research_interval_hours: slower as the budget runs out, never off.
ResearchInterval(frac) ==
  LET lo == IF ResearchMin < 1 THEN 1 ELSE ResearchMin
      hi == IF ResearchMax < lo THEN lo ELSE ResearchMax
  IN  IF frac = Unknown THEN lo
      ELSE Clamp(lo, hi, hi - ((hi - lo) * Clamp(0, 100, frac)) \div 100)

\* resolve_modes: the decision one work episode runs under.
ResolveModes(baseReview, baseRetro, rate, frac) ==
  [review |-> ReviewMode(baseReview, rate, frac),
   retro  |-> RetroMode(baseRetro, rate, frac)]

=============================================================================
