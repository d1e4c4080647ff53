----------------------------- MODULE MCPlanning -----------------------------
(***************************************************************************)
(* Instances of Planning for TLC.  The answers are one of each kind: no,   *)
(* unsure, a single item, two items the second of which comes first, and   *)
(* two that wait for each other.                                           *)
(***************************************************************************)
EXTENDS Planning, TLC

CONSTANTS w1, w2

OneWorker == {w1}
TwoWorkers == {w1, w2}

Says(v, e) == [verdict |-> v, edges |-> e]
No == Says("infeasible", <<{}>>)
Unsure == Says("unclear", <<>>)
Single == Says("confident", <<{}>>)
Reversed == Says("confident", <<{2}, {}>>)

ThreeKinds == {No, Unsure, Reversed}
NoOrSingle == {No, Single}
OnlySingle == {Single}

\* The operator is evaluated for every plan of at most three items.
ASSUME PlansAreOrdered

AllFaults == {"pass fails", "scheduler fails", "rollback"}

\* A board with a past: a task got stuck at the cap, its replan asked the human, who
\* said no, and the first number of the log went to its signal or to another event.
PastTask == [Row("work", 0, 0, 1, Cap, {}) EXCEPT !.status = "stuck"]
PastReplan == [Row("replan", 1, 0, 0, 0, {}) EXCEPT !.status = "merged"]
Aged ==
  /\ task = <<PastTask, PastReplan>>
  /\ drawn = 1 /\ open = {} /\ log \in {{}, {[seq |-> 1, of |-> 1]}}
  /\ spc = "asleep" /\ batch = {} /\ cursor = 1 /\ high = 0
  /\ pc = [w \in Workers |-> "idle"] /\ job = [w \in Workers |-> 0]
  /\ answer = [w \in Workers |-> NoAnswer]
  /\ todo = [w \in Workers |-> <<>>] /\ made = [w \in Workers |-> NoIds]
  /\ ask = [w \in Workers |-> NoRow]
  /\ row = [i \in 1..MaxRows |-> IF i = 1 THEN [act |-> <<"pm.replan", 1>>, status |-> "denied"]
                                         ELSE [act |-> NoAct, status |-> "absent"]]
  /\ next = 2
  /\ faults = 0

AgedSpec == Aged /\ [][Next]_vars /\ Fairness

=============================================================================
