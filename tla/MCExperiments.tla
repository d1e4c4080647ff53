--------------------------- MODULE MCExperiments ---------------------------
(***************************************************************************)
(* Instances of Experiments for TLC.                                       *)
(***************************************************************************)
EXTENDS Experiments

CONSTANTS c1, c2

TwoCallers == {c1, c2}

\* z of about 0.7 and a sample of two, so that small samples are decisive.
SmallZ == <<1, 2>>
\* The code's own z.
Z95 == <<2401, 625>>

Failing == {"fail", "stuck", "merged"}
Rekicked == {"rekick", "merged"}

\* At least 10 of something by its last report, at no cost.
Growth == [metric |-> [name |-> "signups", target |-> 10, cmp |-> ">=", agg |-> "last"],
           budget |-> 0]
OneBet == {Growth}
Signups == {10, 13}

\* A bet that is running and has reported: what propose, start and a task have led to.
Underway ==
  /\ log = <<>>
  /\ exp = <<[metric |-> Growth.metric, budget |-> Growth.budget, status |-> "running",
              observed |-> None, spent |-> 0]>>
  /\ obs = [e \in 1..MaxExperiments |-> IF e = 1 THEN <<13>> ELSE <<>>]
  /\ work = [e \in 1..MaxExperiments |-> IF e = 1 THEN 1 ELSE 0]
  /\ spend = [e \in 1..MaxExperiments |-> 0]
  /\ Store!StoreInit
  /\ job = [c \in Callers |-> Idle] /\ jobs = 0
  /\ crashes = 0 /\ raised = [i \in Store!Ids |-> 0]

BetsSpec == Underway /\ [][Next]_vars

=============================================================================
