---------------------------- MODULE MCTaskQueue ----------------------------
(***************************************************************************)
(* Instances of TaskQueue for TLC.                                         *)
(***************************************************************************)
EXTENDS TaskQueue, TLC

CONSTANTS w1, w2, t1, t2

OneTask == {t1}
TwoTasks == {t1, t2}
OneWorker == {w1}
TwoWorkers == {w1, w2}

OneWork == [t \in {t1} |-> "work"]
OneInternal == [t \in {t1} |-> "internal"]
Mixed == t1 :> "work" @@ t2 :> "internal"

Anyone == [t \in Tasks |-> Workers]

Fleet == Permutations(TwoWorkers)

=============================================================================
