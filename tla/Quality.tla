------------------------------ MODULE Quality ------------------------------
(***************************************************************************)
(* The statistics of runtime/quality.py the studio decides by.             *)
(*                                                                         *)
(* A rate is a pair of counts; its Wilson interval is never computed, only *)
(* compared with a threshold in percent, which needs no square root: a     *)
(* bound of the interval lies beyond p0 iff s/n does and                   *)
(*           n (s/n - p0)^2  >  z^2 p0 (1 - p0).                           *)
(* A report is computed from the event log, one entry per event and only   *)
(* its type kept.  It is read by several statements, and under READ        *)
(* COMMITTED each sees the log as it is when that statement runs.          *)
(***************************************************************************)
EXTENDS Integers, Sequences, FiniteSets
LOCAL INSTANCE FiniteSetsExt

CONSTANTS
  Z2,          \* z^2 of the interval, <<numerator, denominator>>: 2401/625 for 95 percent
  MinSample    \* the smallest sample a verdict may rest on

ASSUME QualityAssumption ==
  /\ Z2 \in (Nat \ {0}) \X (Nat \ {0})
  /\ MinSample \in Nat

-----------------------------------------------------------------------------
(* Rates                                                                     *)

Rate(s, n) == [s |-> s, n |-> n]

\* wilson_interval: None on an empty sample, ValueError for more successes than trials.
Defined(r) == r.n = 0 \/ r.s <= r.n

Beyond(r, pct) ==
  Z2[2] * (100 * r.s - pct * r.n) * (100 * r.s - pct * r.n)
     > Z2[1] * r.n * pct * (100 - pct)
LowerAbove(r, pct) == r.n > 0 /\ 100 * r.s > pct * r.n /\ Beyond(r, pct)
UpperBelow(r, pct) == r.n > 0 /\ 100 * r.s < pct * r.n /\ Beyond(r, pct)

\* The interval of a lies wholly below that of b: some percentage separates them.
ConfidentlyWorse(a, b) == \E pct \in 1..99 : UpperBelow(a, pct) /\ LowerAbove(b, pct)

\* _ratio: four decimals, counted in ten-thousandths.
Ratio(r) == (20000 * r.s + r.n) \div (2 * r.n)

-----------------------------------------------------------------------------
(* failure_report                                                            *)

\* Events of types K after position lo, as a statement sees them that runs when the
\* log is hi long.
Count(log, lo, hi, K) == Cardinality({i \in (lo + 1)..hi : log[i] \in K})

\* The three statements ran when the log was seen[1], seen[2] and seen[3] long.
FailureReport(log, since, seen) ==
  LET Total(K) == Count(log, since, seen[1], K)
      calls == Total({"ok", "fail"})
      ended == Total({"merged", "abandoned"})
  IN [callErrors |-> Rate(Total({"fail"}), calls),
      rekicks    |-> Rate(Total({"rekick"}), ended),
      errors     |-> Rate(Total({"abandoned", "verify_failed"}),
                          ended + Total({"verify_passed", "verify_failed"})),
      byError    |-> Rate(Count(log, since, seen[2], {"fail"}), calls),
      byStall    |-> Rate(Count(log, since, seen[3], {"stuck"}), ended)]

\* A class that occurs has a row in its breakdown, and only a row has a share.
Shares(rep) == {r \in {rep.byError, rep.byStall} : r.s > 0}
Reportable(rep) ==
  \A r \in {rep.callErrors, rep.rekicks, rep.errors} \cup Shares(rep) : Defined(r)

\* quality_report: plain ratios, which may exceed one, and the nested report.
QualityReport(log, n) ==
  LET Total(K) == Count(log, 0, n, K)
      ended == Total({"merged", "abandoned"})
      verified == Total({"verify_passed", "verify_failed"})
  IN [success |-> Rate(Total({"merged"}), ended),
      verify  |-> Rate(Total({"verify_passed"}), verified),
      rekick  |-> Rate(Total({"rekick"}), ended),
      error   |-> Rate(Total({"abandoned", "verify_failed"}), ended + verified),
      failure |-> FailureReport(log, 0, <<n, n, n>>)]

-----------------------------------------------------------------------------
(* skill_efficacy_report and the lifecycle verdict                           *)

\* A cohort: its tasks, their steps, and the rate of first-pass merges among those that
\* have ended.
Cohort(tasks, steps, ended, firstPass) ==
  [tasks |-> Cardinality(tasks),
   steps |-> MapThenSumSet(LAMBDA t : steps[t], tasks),
   first |-> Rate(Cardinality(tasks \cap firstPass), Cardinality(tasks \cap ended))]

\* delta.iterations_mean < 0: fewer steps per task with the skill than without.
FewerSteps(a, b) ==
  a.tasks > 0 /\ b.tasks > 0 /\ a.steps * b.tasks < b.steps * a.tasks

FamilyVerdict(a, b) ==
  IF a.first.n < MinSample \/ b.first.n < MinSample THEN "insufficient"
  ELSE IF ConfidentlyWorse(a.first, b.first) THEN "retire"
  ELSE IF FewerSteps(a, b) \/ ConfidentlyWorse(b.first, a.first) THEN "keep"
  ELSE "revise"

=============================================================================
