----------------------------- MODULE TaskState -----------------------------
(***************************************************************************)
(* The canonical task lifecycle of runtime/task_state.py: the states, the  *)
(* legal transitions and the terminal states that every other module       *)
(* shares.  A row that has not been inserted yet has the pseudo-state      *)
(* Absent, which no transition enters or leaves.                           *)
(***************************************************************************)

Absent == "absent"

\* models.TaskStatus
States == {"up_for_grabs", "claimed", "in_progress", "blocked",
           "ready_for_review", "reviewer_blocked", "approved",
           "merged", "abandoned"}

Terminal == {"merged", "abandoned"}

\* The states a worker actively holds: the only ones find_stale_tasks looks at.
Held == {"claimed", "in_progress"}

\* TRANSITIONS: the states that may follow s.
Successors ==
  [up_for_grabs     |-> {"claimed", "abandoned"},
   claimed          |-> {"in_progress", "up_for_grabs", "abandoned"},
   in_progress      |-> {"ready_for_review", "blocked", "abandoned", "up_for_grabs"},
   blocked          |-> {"in_progress", "abandoned", "up_for_grabs"},
   ready_for_review |-> {"approved", "reviewer_blocked", "abandoned"},
   reviewer_blocked |-> {"in_progress", "abandoned"},
   approved         |-> {"merged", "abandoned"},
   merged           |-> {},
   abandoned        |-> {}]

\* assert_transition(from, to) returns instead of raising IllegalTransition.
CanTransition(from, to) == from \in States /\ to \in Successors[from]

=============================================================================
