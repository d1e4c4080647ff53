----------------------------- MODULE MCRequests -----------------------------
(***************************************************************************)
(* Instances of Requests for TLC: a task that asks the stakeholder, and    *)
(* requests with the lenses an evaluation may have.                        *)
(***************************************************************************)
EXTENDS Requests, TLC

CONSTANTS w1, w2, t1, t2, r1

Fleet == {w1, w2}
OneWorker == {w1}
Board == {t1, t2, r1}
TheAsker == {t1}
TheGated == {t2}
OneRequest == {r1}
AnyVerdict == [r \in FeatureRequests |-> Outcomes]
TwoCriteria == [r \in FeatureRequests |-> 2]
UpToOne == [r \in FeatureRequests |-> 1]

=============================================================================
