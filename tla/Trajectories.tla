---------------------------- MODULE Trajectories ----------------------------
(***************************************************************************)
(* Reasoning episodes (runtime/trajectory.py), who writes them (roles/pm.py,*)
(* runtime/trajectory_ingest.py) and the maintenance sweep that expires    *)
(* them and distills the mined ones (runtime/trajectory_worker.py).        *)
(*                                                                         *)
(* A trajectory's steps are counted: a step's type, its texts and its      *)
(* telemetry are left out, so the count is also its signature.  The age a  *)
(* closed trajectory must have before it is rotated is zero, the expiry of *)
(* an imported one is any time after its INSERT, and its steps, which      *)
(* nobody here reads, are not counted.                                     *)
(***************************************************************************)
EXTENDS Integers, FiniteSets

CONSTANTS
  Episodes,       \* planning ticks of a PM, each with a trajectory
  Imports,        \* ingested files, whose records have a ttl
  RotateEnabled,  \* TRAJECTORY_ROTATE_ENABLED
  MaxSteps,       \* bound: steps of a trajectory
  MaxFaults       \* bound: deaths and failed writes

ASSUME TrajectoriesAssumption ==
  /\ Episodes \cap Imports = {} /\ RotateEnabled \in BOOLEAN
  /\ MaxSteps \in Nat /\ MaxFaults \in Nat

VARIABLES
  traj,      \* traj[e]: the row, "gone" once deleted, and how many steps are distilled
  writer,    \* writer[e]: where its PM or the ingest is
  mined,     \* trajectories a retro.completed event names
  sweep,     \* the sweeper: [at, batch]
  faults,
  minedAt    \* history: minedAt[e]: steps it had at its last retro.completed

trajVars == <<traj, writer, mined, sweep, faults, minedAt>>

Writers == Episodes \cup Imports
Rows == {e \in Writers : traj[e].status \in {"open", "closed"}}

Absent == [status |-> "absent", tier |-> "verbatim", steps |-> 0, distilled |-> 0]

TrajectoriesInit ==
  /\ traj = [e \in Writers |-> Absent]
  /\ writer = [e \in Writers |-> "new"]
  /\ mined = {}
  /\ sweep = [at |-> "idle", batch |-> {}]
  /\ faults = 0
  /\ minedAt = [e \in Writers |-> 0]

Fault == faults < MaxFaults /\ faults' = faults + 1
Writes(e, l) == writer' = [writer EXCEPT ![e] = l]

-----------------------------------------------------------------------------
(* The guarded writer: start_trajectory, add_step, close_trajectory.         *)

Start(e) ==
  /\ writer[e] = "new"
  /\ traj' = [traj EXCEPT ![e].status = "open"]
  /\ Writes(e, "writing")
  /\ UNCHANGED <<mined, sweep, faults, minedAt>>

\* The row is locked, so the numbers have no gap; its status and tier are not looked at.
AddStep(e) ==
  /\ writer[e] \in {"writing", "spawned"}
  /\ traj[e].steps < MaxSteps
  /\ traj' = [traj EXCEPT ![e].steps = @ + 1]
  /\ UNCHANGED <<writer, mined, sweep, faults, minedAt>>

\* The PM enqueues work items that carry the trajectory's id, and goes on thinking.
Spawns(e) ==
  /\ e \in Episodes /\ writer[e] = "writing" /\ traj[e].steps > 0
  /\ Writes(e, "spawned")
  /\ UNCHANGED <<traj, mined, sweep, faults, minedAt>>

\* Planned, or pushed back before anything was spawned.
Close(e) ==
  /\ writer[e] \in {"writing", "spawned"}
  /\ traj' = [traj EXCEPT ![e].status = "closed"]
  /\ Writes(e, "done")
  /\ UNCHANGED <<mined, sweep, faults, minedAt>>

\* The writer dies, and the episode stays open.
WriterDies(e) ==
  /\ writer[e] \in {"writing", "spawned"} /\ Fault
  /\ Writes(e, "dead")
  /\ UNCHANGED <<traj, mined, sweep, minedAt>>

\* A transcript's record: started, copied and closed, or cut off and left open.
Ingest(e) ==
  /\ writer[e] = "new" /\ traj' = [traj EXCEPT ![e].status = "closed"]
  /\ Writes(e, "done")
  /\ UNCHANGED <<mined, sweep, faults, minedAt>>
IngestDies(e) ==
  /\ writer[e] = "new" /\ Fault /\ traj' = [traj EXCEPT ![e].status = "open"]
  /\ Writes(e, "dead")
  /\ UNCHANGED <<mined, sweep, minedAt>>

-----------------------------------------------------------------------------
(* sweep_once: expiry, then selection, then one compaction after another.    *)

\* expire_trajectories, one DELETE for all that are past their expires_at.
Expire(E) ==
  /\ sweep.at = "idle"
  /\ E \subseteq Rows \cap Imports
  /\ traj' = [e \in Writers |-> IF e \in E THEN [traj[e] EXCEPT !.status = "gone"]
                                ELSE traj[e]]
  /\ sweep' = [sweep EXCEPT !.at = IF RotateEnabled THEN "select" ELSE "idle"]
  /\ UNCHANGED <<writer, mined, faults, minedAt>>

\* select_rotatable.
RipeUnmined(e) == e \in Rows /\ traj[e].tier = "verbatim" /\ traj[e].status = "closed"
Ripe(e) ==
  /\ e \in Rows /\ traj[e].tier = "verbatim" /\ traj[e].status = "closed"
  /\ e \in mined

Select ==
  /\ sweep.at = "select"
  /\ LET batch == {e \in Writers : Ripe(e)}
     IN sweep' = [at |-> IF batch = {} THEN "idle" ELSE "compact", batch |-> batch]
  /\ UNCHANGED <<traj, writer, mined, faults, minedAt>>

Handled(e) ==
  LET rest == sweep.batch \ {e}
  IN sweep' = [at |-> IF rest = {} THEN "idle" ELSE "compact", batch |-> rest]

\* compact_to_lean under FOR UPDATE; a row deleted meanwhile is skipped.
Compact(e) ==
  /\ e \in sweep.batch
  /\ traj' = IF e \in Rows
             THEN [traj EXCEPT ![e].tier = "lean", ![e].distilled = traj[e].steps]
             ELSE traj
  /\ Handled(e)
  /\ UNCHANGED <<writer, mined, faults, minedAt>>

CompactFailsAtOnce(e) ==
  /\ e \in sweep.batch /\ Fault
  /\ sweep' = [at |-> "dead", batch |-> {}]
  /\ UNCHANGED <<traj, writer, mined, minedAt>>

\* One bad rotation is skipped.
CompactFails(e) ==
  /\ e \in sweep.batch /\ Fault
  /\ Handled(e)
  /\ UNCHANGED <<traj, writer, mined, minedAt>>

\* The sweeper restarts.
SweepDies ==
  /\ sweep.at # "idle" /\ Fault
  /\ sweep' = [at |-> "idle", batch |-> {}]
  /\ UNCHANGED <<traj, writer, mined, minedAt>>

Sweeps ==
  \/ \E E \in SUBSET Imports : Expire(E)
  \/ Select
  \/ \E e \in Writers : Compact(e)

\* retro.completed names the trajectory of the task it read, if the row is there.
Target(e) == {e} \cap Rows
IsMined(e) ==
  /\ mined' = mined \cup Target(e)
  /\ minedAt' = [minedAt EXCEPT ![e] = traj[e].steps]

-----------------------------------------------------------------------------
TrajectoriesType ==
  /\ traj \in [Writers -> [status : {"absent", "open", "closed", "gone"},
                           tier : {"verbatim", "lean"},
                           steps : 0..MaxSteps, distilled : 0..MaxSteps]]
  /\ writer \in [Writers -> {"new", "writing", "spawned", "done", "dead"}]
  /\ mined \subseteq Writers
  /\ sweep \in [at : {"idle", "select", "compact"}, batch : SUBSET Writers]
  /\ faults \in 0..MaxFaults /\ minedAt \in [Writers -> 0..MaxSteps]

\* Verbatim reasoning is distilled only of a closed episode that a retro has read, however
\* long the sweep held its selection (select_rotatable: "Rotating only mined episodes").
LeanWasMined ==
  \A e \in Writers : traj[e].tier = "lean" => e \in mined /\ traj[e].status # "open"

\* An episode that is closed and mined is distilled in the end: a failed rotation, a crash
\* of the sweeper or an expiry between selection and compaction loses nobody's turn.
MinedIsRotated ==
  \A e \in Episodes :
    e \in mined /\ traj[e].status = "closed" ~> traj[e].tier = "lean"

\* Not so: "Rotating only mined episodes guarantees no un-mined verbatim reasoning is
\* distilled" (trajectory_worker.py): a retro may complete while its PM is still thinking.
NoUnminedDistilled == \A e \in Writers : traj[e].distilled <= minedAt[e]

=============================================================================
