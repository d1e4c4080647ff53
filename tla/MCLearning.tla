----------------------------- MODULE MCLearning -----------------------------
(***************************************************************************)
(* An instance of Learning for TLC.                                        *)
(***************************************************************************)
EXTENDS Learning

CONSTANTS e1, e2, i1, p1, p2, topic, shipped

TwoEpisodes == {e1, e2}
OneImport == {i1}
TwoPromoters == {p1, p2}
OneTopic == {topic}
OneShipped == {shipped}

\* Floors that one clean task passes, and floors that take two.
TwoFloors == {[cluster |-> 1, sample |-> 1, floor |-> 20], [cluster |-> 2, sample |-> 2, floor |-> 60]}

\* z of about 0.7, so that one task is decisive.
SmallZ == <<1, 2>>

\* One PM has planned after a single step of thought, and a worker is at its task.
Underway ==
  /\ traj = [e \in Writers |-> IF e = e1 THEN [Absent EXCEPT !.status = "closed", !.steps = 1]
                               ELSE Absent]
  /\ writer = [e \in Writers |-> IF e = e1 THEN "done" ELSE "new"]
  /\ mined = {} /\ sweep = [at |-> "idle", batch |-> {}] /\ faults = 0
  /\ minedAt = [e \in Writers |-> 0]
  /\ task = [e \in Episodes |-> IF e = e1
                                 THEN [status |-> "running", rework |-> FALSE, skills |-> Shipped]
                                 ELSE [status |-> "absent", rework |-> FALSE, skills |-> {}]]
  /\ retro = [e \in Episodes |-> "none"]
  /\ curates = 0 /\ writing = {}
  /\ candidate = [s \in Skills |-> None]
  /\ live = [s \in Skills |-> IF s \in Shipped THEN Unmeasured ELSE None]
  /\ registry = Shipped /\ restarts = 0
  /\ Store!StoreInit
  /\ promoter = [p \in Promoters |-> [op |-> "idle"]]
  /\ adoptions = [s \in Skills |-> 0]
  /\ proposals = {}

\* The Researcher drafts, or something fails and a transcript comes in, not both.
OneSurprise == candidate[topic] = None \/ (faults = 0 /\ writer[i1] = "new")
LoopNext == Next /\ OneSurprise'
LoopSpec == Underway /\ [][LoopNext]_vars /\ WF_vars(OthersIdle /\ Sweeps)

=============================================================================
