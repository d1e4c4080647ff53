----------------------------- MODULE TaskBoard -----------------------------
(***************************************************************************)
(* What the task table promises its readers, with no workers, leases or    *)
(* supervisor in sight: tasks are posted with prerequisites that already   *)
(* exist, every later change of a status is one legal edge of the          *)
(* lifecycle or the forced end of a task whose action a human refused, and *)
(* a task is claimed only once each prerequisite is merged.  TaskQueue     *)
(* implements this specification.                                          *)
(***************************************************************************)
EXTENDS TaskState

CONSTANT Tasks

VARIABLES status,   \* the status column, or Absent
          deps      \* the depends_on column

boardVars == <<status, deps>>

Posted == {t \in Tasks : status[t] # Absent}

\* The dependency gate of grab_task.
Ready(t) == \A d \in deps[t] : status[d] \in {Absent, "merged"}

BoardInit ==
  /\ status = [t \in Tasks |-> Absent]
  /\ deps = [t \in Tasks |-> {}]

\* enqueue_task: a caller can only name ids it has been given, those of rows
\* inserted before, so the graph of prerequisites grows at its leaves.
Post(t, D) ==
  /\ status[t] = Absent
  /\ D \subseteq Posted
  /\ status' = [status EXCEPT ![t] = "up_for_grabs"]
  /\ deps' = [deps EXCEPT ![t] = D]

Advance(t, to) ==
  /\ CanTransition(status[t], to)
  /\ to = "claimed" => Ready(t)
  /\ status' = [status EXCEPT ![t] = to]
  /\ UNCHANGED deps

\* complete_task(ABANDONED, force=True): a task whose action a human refused is
\* abandoned from wherever it stands.
Refuse(t) ==
  /\ status[t] # Absent
  /\ status' = [status EXCEPT ![t] = "abandoned"]
  /\ UNCHANGED deps

BoardNext ==
  \E t \in Tasks :
    \/ \E D \in SUBSET Tasks : Post(t, D)
    \/ Refuse(t)
    \/ \E to \in States : Advance(t, to)

BoardSpec == BoardInit /\ [][BoardNext]_boardVars

=============================================================================
