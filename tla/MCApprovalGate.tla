--------------------------- MODULE MCApprovalGate ---------------------------
(***************************************************************************)
(* Instances of ApprovalGate for TLC.                                      *)
(***************************************************************************)
EXTENDS ApprovalGate, TLC

CONSTANTS w1, w2, t1, t2, a1, a2, a3, a4

OneTask == {t1}
TwoTasks == {t1, t2}
TwoWorkers == {w1, w2}

\* t1's pass makes one attempt (WORKER_MAX_WORK_ATTEMPTS = 1), with a gated call that may
\* differ from pass to pass in the model's text; t2's may try again, and its second call
\* stands for a role that lacks a capability.
OneAct == {a1}
FourActs == {a1, a2, a3, a4}
Single == t1 :> {a1}
Split == t1 :> {a1, a2} @@ t2 :> {a3, a4}
Mixed == a1 :> "ask" @@ a2 :> "ask" @@ a3 :> "allow" @@ a4 :> "deny"
LastTask == {t2}
Gated == [a \in Acts |-> "ask"]

Fleet == Permutations(TwoWorkers)

=============================================================================
