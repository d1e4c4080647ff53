--------------------------- MODULE Learning_proofs ---------------------------
(***************************************************************************)
(* Theorems about Learning, for any finite sets of episodes and promoters  *)
(* and any floors: what the sweep may distill, what an adoption costs, and *)
(* where an injected skill comes from.                                     *)
(***************************************************************************)
EXTENDS Learning, TLAPS, FiniteSetTheorems

FiniteLoop == IsFiniteSet(Episodes) /\ IsFiniteSet(Promoters)

-----------------------------------------------------------------------------
(* What a step may do to the episodes.                                       *)

Curation ==
  \/ \E f \in Floors : Curates(f)
  \/ \E c \in writing : WritesCandidate(c)
  \/ \E s \in Researched : DraftsCandidate(s)

TrajStep ==
  \/ \E e \in Episodes : Start(e)
  \/ \E e \in Writers : AddStep(e) \/ Close(e) \/ WriterDies(e)
  \/ \E e \in Episodes : Spawns(e)
  \/ \E e \in Imports : Ingest(e) \/ IngestDies(e)
  \/ Sweeps
  \/ sweep' \in {[at |-> "idle", batch |-> {}]} /\ UNCHANGED <<traj, writer, mined>>
  \/ (\E e \in Writers : Handled(e)) /\ UNCHANGED <<traj, writer, mined>>
  \/ mined \subseteq mined' /\ mined' \subseteq Writers /\ UNCHANGED <<traj, writer, sweep>>

LEMMA EveryTrajStep ==
  ASSUME mined \subseteq Writers, [Next]_vars
  PROVE  TrajStep
<1> USE DEF TrajStep, Writers, Curation
<1>1. ASSUME NEW e \in Episodes, Start(e) \/ AddStep(e) \/ Close(e) \/ WriterDies(e)
      PROVE  TrajStep
  BY <1>1
<1>2. ASSUME NEW e \in Imports, Ingest(e) \/ IngestDies(e) PROVE TrajStep
  BY <1>2
<1>3. CASE Sweeps \/ SweepDies \/ \E e \in Writers : CompactFails(e)
  BY <1>3 DEF SweepDies, CompactFails
<1>4. ASSUME NEW e \in Episodes,
             \/ Plan(e) \/ Executes(e) \/ Reworks(e)
             \/ \E status \in {"merged", "abandoned"} : Ends(e, status)
             \/ TriggersRetro(e) \/ DiesBeforeRetro(e) \/ Retro(e)
      PROVE  TrajStep
  <2>1. CASE Plan(e)
    BY <2>1 DEF Plan
  <2>2. CASE Retro(e)
    BY <2>2 DEF Retro, IsMined, Target, Rows
  <2>3. CASE \/ Executes(e) \/ Reworks(e)
             \/ \E status \in {"merged", "abandoned"} : Ends(e, status)
             \/ TriggersRetro(e) \/ DiesBeforeRetro(e)
    BY <2>3 DEF Executes, Reworks, Ends, TriggersRetro, DiesBeforeRetro, trajVars
  <2> QED
    BY <1>4, <2>1, <2>2, <2>3
<1>5. CASE Curation
  BY <1>5 DEF Curates, WritesCandidate, DraftsCandidate, trajVars
<1>6. ASSUME NEW p \in Promoters, Promotion(p) PROVE TrajStep
  BY <1>6 DEF Promotion, Promotes, ConsumesGrant, LosesGrant, AsksAdoption, WritesSkill, WriteFails,
              OnlyPromoter, trajVars
<1>7. CASE \E i \in Store!Ids, v \in {"approved", "denied"} : Resolve(i, v)
  BY <1>7 DEF Resolve, trajVars
<1>8. CASE RestartWorker \/ JudgesSkills \/ UNCHANGED vars
  BY <1>8 DEF RestartWorker, JudgesSkills, vars, trajVars
<1> QED
  BY <1>1, <1>2, <1>3, <1>4, <1>5, <1>6, <1>7, <1>8 DEF Next

-----------------------------------------------------------------------------
(* Only a mined episode is distilled.  Why it is inductive: what the sweep   *)
(* selected was closed and mined, no mined episode is ever unmined, and only *)
(* a new one is opened.                                                      *)

Row == [status : {"absent", "open", "closed", "gone"}, tier : {"verbatim", "lean"},
        steps : Nat, distilled : Nat]

Over(e) == traj[e].status \in {"closed", "gone"}

TrajInv ==
  /\ traj \in [Writers -> Row]
  /\ writer \in [Writers -> {"new", "writing", "spawned", "done", "dead"}]
  /\ mined \subseteq Writers
  /\ \A e \in Writers : writer[e] = "new" => traj[e].status = "absent"
  /\ \A e \in Episodes : traj[e].status = "closed" => writer[e] = "done"
  /\ \A e \in Writers : traj[e].tier = "lean" => e \in mined /\ Over(e)
  /\ \A e \in sweep.batch : e \in mined /\ Over(e)

LEMMA TrajInit ==
  ASSUME Init
  PROVE  TrajInv
<1>1. /\ traj = [e \in Writers |-> Absent] /\ writer = [e \in Writers |-> "new"]
      /\ mined = {} /\ sweep.batch = {}
  BY DEF Init, TrajectoriesInit
<1>2. Absent \in Row /\ Absent.status = "absent" /\ Absent.tier = "verbatim"
  BY DEF Absent, Row
<1> QED
  BY <1>1, <1>2 DEF TrajInv, Writers

LEMMA TrajNext ==
  ASSUME TrajInv, [Next]_vars
  PROVE  TrajInv'
<1>0. TrajStep
  BY EveryTrajStep DEF TrajInv
<1> USE TrajectoriesAssumption DEF TrajInv, Row, Over, Writes
<1>1. ASSUME NEW e \in Episodes, Start(e) PROVE TrajInv'
  BY <1>1 DEF Start, Writers
<1>2. ASSUME NEW e \in Writers, AddStep(e) PROVE TrajInv'
  BY <1>2 DEF AddStep
<1>3. ASSUME NEW e \in Writers, Close(e) PROVE TrajInv'
  BY <1>3 DEF Close
<1>4. ASSUME NEW e \in Writers, WriterDies(e) PROVE TrajInv'
  BY <1>4 DEF WriterDies
<1>5. ASSUME NEW e \in Episodes, Spawns(e) PROVE TrajInv'
  BY <1>5 DEF Spawns, Writers
<1>6. ASSUME NEW e \in Imports, Ingest(e) \/ IngestDies(e) PROVE TrajInv'
  BY <1>6 DEF Ingest, IngestDies, Writers
<1>7. ASSUME NEW E \in SUBSET Imports, Expire(E) PROVE TrajInv'
  <2>1. /\ UNCHANGED <<writer, mined>> /\ sweep'.batch = sweep.batch
        /\ traj' = [e \in Writers |-> IF e \in E THEN [traj[e] EXCEPT !.status = "gone"]
                                      ELSE traj[e]]
    BY <1>7 DEF Expire
  <2>2. ASSUME NEW e \in Writers
        PROVE  /\ traj'[e] \in Row
               /\ traj'[e].tier = traj[e].tier
               /\ e \notin E => traj'[e] = traj[e]
               /\ e \in E => traj'[e].status = "gone"
    BY <2>1
  <2>3. \A e \in E : writer[e] # "new" /\ e \notin Episodes
    BY <1>7 DEF Expire, Rows
  <2> QED
    BY <2>1, <2>2, <2>3 DEF Writers
<1>8. CASE Select
  BY <1>8 DEF Select, Ripe, Rows
<1>9. ASSUME NEW e \in Writers, Compact(e) PROVE TrajInv'
  <2>1. /\ e \in sweep.batch /\ UNCHANGED <<writer, mined>> /\ sweep'.batch \subseteq sweep.batch
        /\ traj' = IF e \in Rows
                   THEN [traj EXCEPT ![e].tier = "lean", ![e].distilled = traj[e].steps]
                   ELSE traj
    BY <1>9 DEF Compact, Handled
  <2>2. ASSUME NEW x \in Writers
        PROVE  /\ traj'[x] \in Row
               /\ traj'[x].status = traj[x].status
               /\ x # e => traj'[x].tier = traj[x].tier
    BY <2>1
  <2>3. traj' \in [Writers -> Row]
    <3>1. traj' = [x \in Writers |-> traj'[x]]
      BY <2>1
    <3> QED
      BY <2>2, <3>1
  <2>4. ASSUME NEW x \in Writers, traj'[x].tier = "lean"
        PROVE  x \in mined' /\ traj'[x].status \in {"closed", "gone"}
    <3>1. x = e \/ traj[x].tier = "lean"
      BY <2>2, <2>4
    <3>2. x \in mined /\ traj[x].status \in {"closed", "gone"}
      BY <2>1, <3>1
    <3> QED
      BY <2>1, <2>2, <3>2
  <2>5. \A x \in sweep'.batch : x \in mined' /\ traj'[x].status \in {"closed", "gone"}
    BY <2>1, <2>2
  <2>6. /\ \A x \in Writers : writer'[x] = "new" => traj'[x].status = "absent"
        /\ \A x \in Episodes : traj'[x].status = "closed" => writer'[x] = "done"
    BY <2>1, <2>2 DEF Writers
  <2> QED
    BY <2>1, <2>3, <2>4, <2>5, <2>6
<1>10. CASE sweep' \in {[at |-> "idle", batch |-> {}]} /\ UNCHANGED <<traj, writer, mined>>
  BY <1>10
<1>11. ASSUME NEW e \in Writers, Handled(e), UNCHANGED <<traj, writer, mined>> PROVE TrajInv'
  BY <1>11 DEF Handled
<1>12. CASE mined \subseteq mined' /\ mined' \subseteq Writers /\ UNCHANGED <<traj, writer, sweep>>
  BY <1>12
<1> QED
  BY <1>0, <1>1, <1>2, <1>3, <1>4, <1>5, <1>6, <1>7, <1>8, <1>9, <1>10, <1>11, <1>12
     DEF TrajStep, Sweeps

\* The sweep distills verbatim reasoning only of an episode that is over and that a retro
\* has read (select_rotatable, compact_to_lean).
THEOREM OnlyMinedIsLean == Spec => []LeanWasMined
<1>1. TrajInv => LeanWasMined
  BY DEF TrajInv, Over, LeanWasMined
<1> QED
  BY <1>1, TrajInit, TrajNext, PTL DEF Spec

-----------------------------------------------------------------------------
(* Every adoption spends an approval.  Why it is inductive: a promoter that  *)
(* holds a grant holds one for its own skill, and one that has spent it and  *)
(* not yet written is counted with the adoptions.                            *)

AdoptStep ==
  \/ \E p \in Promoters : Promotion(p)
  \/ \E i \in Store!Ids, v \in {"approved", "denied"} : Resolve(i, v)
  \/ UNCHANGED <<row, next, promoter, adoptions, live>>

LEMMA EveryAdoptStep ==
  ASSUME [Next]_vars
  PROVE  AdoptStep
<1> USE DEF AdoptStep, adoption, Curation
<1>1. CASE OthersIdle
  BY <1>1 DEF OthersIdle
<1>2. ASSUME NEW e \in Episodes,
             \/ Plan(e) \/ Executes(e) \/ Reworks(e)
             \/ \E status \in {"merged", "abandoned"} : Ends(e, status)
             \/ TriggersRetro(e) \/ DiesBeforeRetro(e) \/ Retro(e)
      PROVE  AdoptStep
  BY <1>2 DEF Plan, Executes, Reworks, Ends, TriggersRetro, DiesBeforeRetro, Retro, OnlyTask, RetroStep
<1>3. CASE Curation
  BY <1>3 DEF Curates, WritesCandidate, DraftsCandidate
<1>4. CASE RestartWorker \/ JudgesSkills \/ UNCHANGED vars
  BY <1>4 DEF RestartWorker, JudgesSkills, vars
<1> QED
  BY <1>1, <1>2, <1>3, <1>4 DEF Next

Spending(s) == {p \in Promoters : promoter[p].op = "write" /\ promoter[p].skill = s}
Consumed(s) == Store!RowsOf(s, {"consumed"})

Shop ==
  /\ row \in [Store!Ids -> [act : Skills \cup {NoAct}, status : Store!RowStatuses]]
  /\ next \in 1..(MaxRequests + 1)
  /\ \A i \in Store!Ids : i >= next => row[i].status = "absent"
  /\ DOMAIN promoter = Promoters
  /\ \A p \in Promoters :
       /\ promoter[p].op # "idle" => promoter[p].skill \in Skills
       /\ promoter[p].op = "consume" =>
            /\ promoter[p].grant \in Store!Ids
            /\ row[promoter[p].grant].act = promoter[p].skill
            /\ promoter[p].grant < next

Paid ==
  /\ adoptions \in [Skills -> Nat]
  /\ \A s \in Skills : adoptions[s] + Cardinality(Spending(s)) <= Cardinality(Consumed(s))

ShopInv == Shop /\ Paid

LEMMA FiniteParts ==
  ASSUME FiniteLoop, NEW s
  PROVE  /\ IsFiniteSet(Spending(s)) /\ Cardinality(Spending(s)) \in Nat
         /\ IsFiniteSet(Consumed(s)) /\ Cardinality(Consumed(s)) \in Nat
<1>1. Spending(s) \subseteq Promoters /\ Consumed(s) \subseteq 1..MaxRequests
  BY DEF Spending, Consumed, Store!RowsOf, Store!Ids
<1>2. IsFiniteSet(1..MaxRequests)
  BY FS_Interval, LearningAssumption
<1> QED
  BY <1>1, <1>2, FS_Subset, FS_CardinalityType DEF FiniteLoop

LEMMA ShopInit ==
  ASSUME Init
  PROVE  ShopInv
<1>1. /\ row = [i \in Store!Ids |-> [act |-> NoAct, status |-> "absent"]] /\ next = 1
      /\ promoter = [p \in Promoters |-> [op |-> "idle"]]
      /\ adoptions = [s \in Skills |-> 0]
  BY DEF Init, Store!StoreInit
<1>2. Shop
  BY <1>1, LearningAssumption DEF Shop, Store!RowStatuses
<1>3. \A s : Spending(s) = {} /\ Consumed(s) = {}
  BY <1>1 DEF Spending, Consumed, Store!RowsOf
<1>4. Cardinality({}) = 0
  BY FS_EmptySet
<1>5. \A s \in Skills : adoptions[s] + Cardinality(Spending(s)) <= Cardinality(Consumed(s))
  BY <1>1, <1>3, <1>4
<1> QED
  BY <1>1, <1>2, <1>5 DEF ShopInv, Paid

\* The rows and the adoptions as they were, and no new promoter with a grant spent.
LEMMA PaidStays ==
  ASSUME FiniteLoop, ShopInv, UNCHANGED adoptions,
         \A s \in Skills : Consumed(s)' = Consumed(s) /\ Spending(s)' \subseteq Spending(s)
  PROVE  Paid'
<1>1. ASSUME NEW s \in Skills
      PROVE  adoptions'[s] + Cardinality(Spending(s)') <= Cardinality(Consumed(s)')
  <2>1. /\ Cardinality(Spending(s)') \in Nat
        /\ Cardinality(Spending(s)') <= Cardinality(Spending(s))
    BY FiniteParts, FS_Subset, FS_CardinalityType
  <2>2. /\ adoptions[s] \in Nat /\ Cardinality(Spending(s)) \in Nat
        /\ Cardinality(Consumed(s)) \in Nat
        /\ adoptions[s] + Cardinality(Spending(s)) <= Cardinality(Consumed(s))
    BY FiniteParts DEF ShopInv, Paid
  <2> QED
    BY <2>1, <2>2
<1> QED
  BY <1>1 DEF ShopInv, Paid

LEMMA PromotionPays ==
  ASSUME FiniteLoop, ShopInv, NEW p \in Promoters, Promotion(p)
  PROVE  ShopInv'
<1> USE DEF OnlyPromoter
<1>1. ASSUME NEW s \in Skills, Promotes(p, s) PROVE ShopInv'
  <2>1. /\ UNCHANGED <<row, next, adoptions>>
        /\ promoter' = [promoter EXCEPT ![p] =
             IF \E i \in Store!Ids : Store!IsGrantFor(s, i)
             THEN [op |-> "consume", skill |-> s,
                   grant |-> CHOOSE i \in Store!Ids : Store!IsGrantFor(s, i)]
             ELSE [op |-> "ask", skill |-> s]]
    BY <1>1 DEF Promotes
  <2>2. ASSUME NEW i \in Store!Ids, Store!IsGrantFor(s, i)
        PROVE  row[i].act = s /\ i < next
    BY <2>2 DEF ShopInv, Shop, Store!IsGrantFor, Store!RowsOf, Store!Ids
  <2>3. \/ promoter' = [promoter EXCEPT ![p] = [op |-> "ask", skill |-> s]]
        \/ \E i \in Store!Ids : /\ row[i].act = s /\ i < next
             /\ promoter' = [promoter EXCEPT ![p] = [op |-> "consume", skill |-> s, grant |-> i]]
    <3>1. CASE \E i \in Store!Ids : Store!IsGrantFor(s, i)
      <4> DEFINE i == CHOOSE i \in Store!Ids : Store!IsGrantFor(s, i)
      <4>1. i \in Store!Ids /\ Store!IsGrantFor(s, i)
        BY <3>1
      <4>2. promoter' = [promoter EXCEPT ![p] = [op |-> "consume", skill |-> s, grant |-> i]]
        BY <2>1, <3>1
      <4> QED
        BY <2>2, <4>1, <4>2
    <3>2. CASE ~\E i \in Store!Ids : Store!IsGrantFor(s, i)
      BY <2>1, <3>2
    <3> QED
      BY <3>1, <3>2
  <2>4. Shop'
    BY <2>1, <2>3 DEF ShopInv, Shop
  <2>5. \A x \in Skills : Consumed(x)' = Consumed(x) /\ Spending(x)' \subseteq Spending(x)
    BY <2>1, <2>3 DEF ShopInv, Shop, Consumed, Store!RowsOf, Spending
  <2> QED
    BY <2>1, <2>4, <2>5, PaidStays DEF ShopInv
<1>2. CASE ConsumesGrant(p)
  <2> DEFINE i == promoter[p].grant
             s == promoter[p].skill
  <2>1. /\ promoter[p].op = "consume" /\ row[i].status = "approved"
        /\ row' = [row EXCEPT ![i].status = "consumed"]
        /\ promoter' = [promoter EXCEPT ![p] = [op |-> "write", skill |-> s]]
        /\ UNCHANGED <<next, adoptions>>
    BY <1>2 DEF ConsumesGrant, Store!Consume, Store!Consumable
  <2>2. i \in Store!Ids /\ row[i].act = s /\ i < next /\ s \in Skills
    BY <2>1 DEF ShopInv, Shop
  <2>3. Shop'
    BY <2>1, <2>2 DEF ShopInv, Shop, Store!RowStatuses
  <2>4. ASSUME NEW x \in Skills
        PROVE  adoptions'[x] + Cardinality(Spending(x)') <= Cardinality(Consumed(x)')
    <3>0. /\ adoptions[x] \in Nat /\ Cardinality(Spending(x)) \in Nat
          /\ Cardinality(Consumed(x)) \in Nat
          /\ adoptions[x] + Cardinality(Spending(x)) <= Cardinality(Consumed(x))
      BY FiniteParts DEF ShopInv, Paid
    <3>1. CASE x = s
      <4>1. Spending(x)' = Spending(x) \cup {p} /\ p \notin Spending(x)
        BY <2>1, <2>2, <3>1 DEF Spending, ShopInv, Shop
      <4>2. Consumed(x)' = Consumed(x) \cup {i} /\ i \notin Consumed(x)
        BY <2>1, <2>2, <3>1 DEF Consumed, Store!RowsOf, ShopInv, Shop
      <4>3. /\ Cardinality(Spending(x)') = Cardinality(Spending(x)) + 1
            /\ Cardinality(Consumed(x)') = Cardinality(Consumed(x)) + 1
        BY <4>1, <4>2, FiniteParts, FS_AddElement
      <4> QED
        BY <2>1, <3>0, <4>3
    <3>2. CASE x # s
      <4>1. Spending(x)' = Spending(x)
        BY <2>1, <2>2, <3>2 DEF Spending, ShopInv, Shop
      <4>2. Consumed(x)' = Consumed(x)
        BY <2>1, <2>2, <3>2 DEF Consumed, Store!RowsOf, ShopInv, Shop
      <4> QED
        BY <2>1, <3>0, <4>1, <4>2
    <3> QED
      BY <3>1, <3>2
  <2> QED
    BY <2>1, <2>3, <2>4 DEF ShopInv, Paid
<1>3. CASE LosesGrant(p)
  <2>1. /\ UNCHANGED <<row, next, adoptions>> /\ promoter[p].skill \in Skills
        /\ promoter' = [promoter EXCEPT ![p] = [op |-> "ask", skill |-> promoter[p].skill]]
    BY <1>3 DEF LosesGrant, ShopInv, Shop
  <2>2. Shop'
    BY <2>1 DEF ShopInv, Shop
  <2>3. \A x \in Skills : Consumed(x)' = Consumed(x) /\ Spending(x)' \subseteq Spending(x)
    BY <2>1 DEF ShopInv, Shop, Consumed, Store!RowsOf, Spending
  <2> QED
    BY <2>1, <2>2, <2>3, PaidStays DEF ShopInv
<1>4. CASE AsksAdoption(p)
  <2>1. /\ UNCHANGED adoptions /\ promoter[p].skill \in Skills
        /\ promoter' = [promoter EXCEPT ![p] = [op |-> "idle"]]
    BY <1>4 DEF AsksAdoption, ShopInv, Shop
  <2>2. \/ UNCHANGED <<row, next>>
        \/ /\ next \in Store!Ids /\ next' = next + 1
           /\ row' = [row EXCEPT ![next] = [act |-> promoter[p].skill, status |-> "pending"]]
    BY <1>4 DEF AsksAdoption, Store!InsertPending
  <2>3. \A s \in Skills : Consumed(s)' = Consumed(s)
    BY <2>2 DEF ShopInv, Shop, Consumed, Store!RowsOf
  <2>4. \A s \in Skills : Spending(s)' \subseteq Spending(s)
    BY <2>1 DEF ShopInv, Shop, Spending
  <2>5. Shop'
    BY <2>1, <2>2, LearningAssumption DEF ShopInv, Shop, Store!RowStatuses, Store!Open, Store!Ids
  <2> QED
    BY <2>1, <2>3, <2>4, <2>5, PaidStays DEF ShopInv
<1>5. CASE WritesSkill(p)
  <2> DEFINE s == promoter[p].skill
  <2>1. /\ promoter[p].op = "write" /\ s \in Skills
        /\ adoptions' = [adoptions EXCEPT ![s] = @ + 1]
        /\ promoter' = [promoter EXCEPT ![p] = [op |-> "idle"]]
        /\ UNCHANGED <<row, next>>
    BY <1>5 DEF WritesSkill, ShopInv, Shop
  <2>2. Shop'
    BY <2>1 DEF ShopInv, Shop
  <2>3. ASSUME NEW x \in Skills
        PROVE  adoptions'[x] + Cardinality(Spending(x)') <= Cardinality(Consumed(x)')
    <3>0. /\ adoptions \in [Skills -> Nat] /\ Cardinality(Spending(x)) \in Nat
          /\ Cardinality(Consumed(x)) \in Nat
          /\ adoptions[x] + Cardinality(Spending(x)) <= Cardinality(Consumed(x))
      BY FiniteParts DEF ShopInv, Paid
    <3>1. Consumed(x)' = Consumed(x)
      BY <2>1 DEF Consumed, Store!RowsOf
    <3>2. CASE x = s
      <4>1. Spending(x)' = Spending(x) \ {p} /\ p \in Spending(x)
        BY <2>1, <3>2 DEF Spending, ShopInv, Shop
      <4>2. Cardinality(Spending(x)') = Cardinality(Spending(x)) - 1
        BY <4>1, FiniteParts, FS_RemoveElement
      <4> QED
        BY <2>1, <3>0, <3>1, <3>2, <4>2
    <3>3. CASE x # s
      <4>1. Spending(x)' = Spending(x)
        BY <2>1, <3>3 DEF Spending, ShopInv, Shop
      <4> QED
        BY <2>1, <3>0, <3>1, <3>3, <4>1
    <3> QED
      BY <3>2, <3>3
  <2>4. adoptions' \in [Skills -> Nat]
    BY <2>1 DEF ShopInv, Paid
  <2> QED
    BY <2>2, <2>3, <2>4 DEF ShopInv, Paid
<1>6. CASE WriteFails(p)
  <2>1. /\ UNCHANGED <<row, next, adoptions>>
        /\ promoter' = [promoter EXCEPT ![p] = [op |-> "idle"]]
    BY <1>6 DEF WriteFails
  <2>2. Shop'
    BY <2>1 DEF ShopInv, Shop
  <2>3. \A x \in Skills : Consumed(x)' = Consumed(x) /\ Spending(x)' \subseteq Spending(x)
    BY <2>1 DEF ShopInv, Shop, Consumed, Store!RowsOf, Spending
  <2> QED
    BY <2>1, <2>2, <2>3, PaidStays DEF ShopInv
<1> QED
  BY <1>1, <1>2, <1>3, <1>4, <1>5, <1>6 DEF Promotion

LEMMA ShopNext ==
  ASSUME FiniteLoop, ShopInv, [Next]_vars
  PROVE  ShopInv'
<1>1. ASSUME NEW p \in Promoters, Promotion(p) PROVE ShopInv'
  BY <1>1, PromotionPays
<1>2. ASSUME NEW i \in Store!Ids, NEW v \in {"approved", "denied"}, Resolve(i, v) PROVE ShopInv'
  <2>1. /\ row[i].status = "pending" /\ row' = [row EXCEPT ![i].status = v]
        /\ UNCHANGED <<next, promoter, adoptions>>
    BY <1>2 DEF Resolve, Store!ResolveAs, Store!Undecided
  <2>2. Shop'
    BY <1>2, <2>1 DEF ShopInv, Shop, Store!RowStatuses, Store!Open
  <2>3. \A s \in Skills : Consumed(s)' = Consumed(s) /\ Spending(s)' = Spending(s)
    BY <1>2, <2>1 DEF ShopInv, Shop, Consumed, Store!RowsOf, Spending
  <2> QED
    BY <2>1, <2>2, <2>3, PaidStays DEF ShopInv
<1>3. CASE UNCHANGED <<row, next, promoter, adoptions, live>>
  BY <1>3 DEF ShopInv, Shop, Paid, Consumed, Store!RowsOf, Spending
<1> QED
  BY <1>1, <1>2, <1>3, EveryAdoptStep DEF AdoptStep

\* A skill goes live as often as a human approved it and no more, however many promote it
\* at once and whichever write fails (promote_candidate).
THEOREM AdoptionsArePaid ==
  ASSUME FiniteLoop
  PROVE  Spec => []OneGrantOneAdoption
<1>1. Init => ShopInv
  BY ShopInit
<1>2. ShopInv /\ [Next]_vars => ShopInv'
  BY ShopNext
<1>3. ShopInv => OneGrantOneAdoption
  <2>1. ASSUME ShopInv, NEW s \in Skills
        PROVE  adoptions[s] <= Cardinality(Store!RowsOf(s, {"consumed"}))
    <3>1. /\ adoptions[s] \in Nat /\ Cardinality(Spending(s)) \in Nat
          /\ Cardinality(Consumed(s)) \in Nat
          /\ adoptions[s] + Cardinality(Spending(s)) <= Cardinality(Consumed(s))
      BY <2>1, FiniteParts DEF ShopInv, Paid
    <3> QED
      BY <3>1 DEF Consumed
  <2> QED
    BY <2>1 DEF OneGrantOneAdoption
<1> QED
  BY <1>1, <1>2, <1>3, PTL DEF Spec

-----------------------------------------------------------------------------
(* An injected skill was shipped, or earned and paid for.  Why: an           *)
(* episode that closed with a first-pass merge stays as it is, and so does a *)
(* consumed approval; each place a skill passes through on its way into a    *)
(* prompt asks no less than the one before.                                  *)

EarnedBy(x, s) ==
  /\ traj[x].status = "closed" /\ traj[x].steps = s
  /\ task[x].status = "merged" /\ ~task[x].rework
Earned(s) == \E x \in Episodes : EarnedBy(x, s)
EarnedIfInduced(s) == s \in Induced => Earned(s)
Cleared(s) == s \in Shipped \/ (EarnedIfInduced(s) /\ Consumed(s) # {})

TaskRow == [status : {"absent", "queued", "running", "merged", "abandoned"},
            rework : BOOLEAN, skills : SUBSET Skills]

EarnInv ==
  /\ task \in [Episodes -> TaskRow]
  /\ registry \subseteq Skills
  /\ DOMAIN candidate = Skills /\ DOMAIN live = Skills
  /\ \A c \in writing : c.skill \in Skills /\ Earned(c.skill)
  /\ \A s \in Skills : candidate[s] # None => EarnedIfInduced(s)
  /\ \A s \in Skills : live[s] # None => Cleared(s)
  /\ \A p \in Promoters : promoter[p].op = "write" => Consumed(promoter[p].skill) # {}
  /\ \A s \in registry : Cleared(s)
  /\ \A e \in Episodes : \A s \in task[e].skills : Cleared(s)

LEMMA EarnInit ==
  ASSUME Init
  PROVE  EarnInv
<1>1. /\ task = [e \in Episodes |-> [status |-> "absent", rework |-> FALSE, skills |-> {}]]
      /\ registry = Shipped /\ writing = {}
      /\ candidate = [s \in Skills |-> None]
      /\ live = [s \in Skills |-> IF s \in Shipped THEN Unmeasured ELSE None]
      /\ promoter = [p \in Promoters |-> [op |-> "idle"]]
  BY DEF Init
<1> QED
  BY <1>1 DEF EarnInv, TaskRow, Cleared, Skills

LEMMA ConsumedStays ==
  ASSUME ShopInv, [Next]_vars, NEW s, Consumed(s) # {}
  PROVE  Consumed(s)' # {}
<1>0. PICK i \in Store!Ids : row[i].act = s /\ row[i].status = "consumed"
  BY DEF Consumed, Store!RowsOf
<1>1. ASSUME row'[i] = row[i] PROVE Consumed(s)' # {}
  BY <1>0, <1>1 DEF Consumed, Store!RowsOf
<1>2. ASSUME NEW p \in Promoters, Promotion(p) PROVE row'[i] = row[i]
  <2>1. CASE ConsumesGrant(p)
    BY <1>0, <2>1 DEF ConsumesGrant, Store!Consume, Store!Consumable, ShopInv, Shop
  <2>2. CASE AsksAdoption(p)
    <3>1. i # next
      BY <1>0 DEF ShopInv, Shop, Store!Ids
    <3>2. UNCHANGED row \/ \E r : row' = [row EXCEPT ![next] = r]
      BY <2>2 DEF AsksAdoption, Store!InsertPending
    <3> QED
      BY <1>0, <3>1, <3>2 DEF ShopInv, Shop
  <2>3. CASE (\E x \in Skills : Promotes(p, x)) \/ LosesGrant(p) \/ WritesSkill(p) \/ WriteFails(p)
    BY <2>3 DEF Promotes, LosesGrant, WritesSkill, WriteFails
  <2> QED
    BY <1>2, <2>1, <2>2, <2>3 DEF Promotion
<1>3. ASSUME NEW j \in Store!Ids, NEW v \in {"approved", "denied"}, Resolve(j, v)
      PROVE  row'[i] = row[i]
  BY <1>0, <1>3 DEF Resolve, Store!ResolveAs, Store!Undecided, ShopInv, Shop
<1> QED
  BY <1>1, <1>2, <1>3, EveryAdoptStep DEF AdoptStep

\* A closed episode of a PM stays closed, and its length what it is.
LEMMA ClosedStays ==
  ASSUME TrajInv, [Next]_vars, NEW x \in Episodes, traj[x].status = "closed"
  PROVE  traj'[x].status = "closed" /\ traj'[x].steps = traj[x].steps
<1>0. TrajStep
  BY EveryTrajStep DEF TrajInv
<1>1. x \in Writers /\ x \notin Imports /\ writer[x] = "done"
  BY TrajectoriesAssumption DEF TrajInv, Writers
<1> USE DEF TrajInv, Row
<1>2. ASSUME NEW e \in Writers, Start(e) \/ AddStep(e) \/ Close(e) \/ WriterDies(e) \/ Spawns(e)
      PROVE  traj'[x] = traj[x]
  BY <1>1, <1>2 DEF Start, AddStep, Close, WriterDies, Spawns
<1>3. ASSUME NEW e \in Imports, Ingest(e) \/ IngestDies(e) PROVE traj'[x] = traj[x]
  BY <1>1, <1>3 DEF Ingest, IngestDies
<1>4. ASSUME NEW E \in SUBSET Imports, Expire(E) PROVE traj'[x] = traj[x]
  BY <1>1, <1>4 DEF Expire
<1>5. ASSUME NEW e \in Writers, Compact(e)
      PROVE  traj'[x].status = "closed" /\ traj'[x].steps = traj[x].steps
  <2>1. traj' = IF e \in Rows
                THEN [traj EXCEPT ![e].tier = "lean", ![e].distilled = traj[e].steps]
                ELSE traj
    BY <1>5 DEF Compact
  <2> QED
    BY <1>1, <2>1
<1>6. CASE Select
  BY <1>6 DEF Select
<1> QED
  BY <1>0, <1>2, <1>3, <1>4, <1>5, <1>6 DEF TrajStep, Sweeps, Writers

\* The episodes' tasks change by their own steps alone.
LEMMA TaskStays ==
  ASSUME [Next]_vars,
         ~\E e \in Episodes : Plan(e) \/ Executes(e) \/ Reworks(e)
                                \/ \E status \in {"merged", "abandoned"} : Ends(e, status)
  PROVE  task' = task
<1> USE DEF work, Curation
<1>1. CASE OthersIdle
  BY <1>1 DEF OthersIdle
<1>2. ASSUME NEW e \in Episodes, TriggersRetro(e) \/ DiesBeforeRetro(e) \/ Retro(e)
      PROVE  task' = task
  BY <1>2 DEF TriggersRetro, DiesBeforeRetro, Retro, RetroStep
<1>3. CASE Curation
  BY <1>3 DEF Curates, WritesCandidate, DraftsCandidate
<1>4. ASSUME NEW p \in Promoters, Promotion(p) PROVE task' = task
  BY <1>4 DEF Promotion, Promotes, ConsumesGrant, LosesGrant, AsksAdoption, WritesSkill, WriteFails,
              OnlyPromoter
<1>5. CASE \E i \in Store!Ids, v \in {"approved", "denied"} : Resolve(i, v)
  BY <1>5 DEF Resolve
<1>6. CASE RestartWorker \/ JudgesSkills \/ UNCHANGED vars
  BY <1>6 DEF RestartWorker, JudgesSkills, vars
<1> QED
  BY <1>1, <1>2, <1>3, <1>4, <1>5, <1>6 DEF Next

LEMMA EarnedStays ==
  ASSUME TrajInv, EarnInv, [Next]_vars, NEW s, Earned(s)
  PROVE  Earned(s)'
<1>0. PICK x \in Episodes : EarnedBy(x, s)
  BY DEF Earned
<1>1. traj'[x].status = "closed" /\ traj'[x].steps = s
  BY <1>0, ClosedStays DEF EarnedBy
<1>2. writer[x] = "done" /\ task[x].status = "merged" /\ ~task[x].rework
  BY <1>0 DEF EarnedBy, TrajInv
<1>3. task'[x].status = "merged" /\ ~task'[x].rework
  <2>1. ASSUME NEW e \in Episodes, Plan(e) \/ Executes(e) \/ Reworks(e)
                                    \/ \E status \in {"merged", "abandoned"} : Ends(e, status)
        PROVE  task'[x] = task[x]
    <3>1. x # e
      BY <1>2, <2>1 DEF Plan, Spawns, Executes, Reworks, Ends
    <3>2. PICK t : task' = [task EXCEPT ![e] = t]
      BY <2>1 DEF Plan, Executes, Reworks, Ends, OnlyTask
    <3> QED
      BY <3>1, <3>2 DEF EarnInv
  <2>2. ASSUME UNCHANGED task PROVE task'[x] = task[x]
    BY <2>2
  <2>3. CASE ~\E e \in Episodes : Plan(e) \/ Executes(e) \/ Reworks(e)
                                    \/ \E status \in {"merged", "abandoned"} : Ends(e, status)
    <3>1. task' = task
      BY <2>3, TaskStays, Zenon
    <3> QED
      BY <1>2, <3>1
  <2> QED
    BY <1>2, <2>1, <2>2, <2>3
<1> QED
  BY <1>1, <1>3 DEF Earned, EarnedBy

LEMMA ClearedStays ==
  ASSUME TrajInv, ShopInv, EarnInv, [Next]_vars, NEW s, Cleared(s)
  PROVE  Cleared(s)'
BY ConsumedStays, EarnedStays DEF Cleared, EarnedIfInduced

\* A candidate's signature has a task behind it that merged at the first pass.
LEMMA CandidateIsEarned ==
  ASSUME FiniteLoop, NEW f \in Floors, NEW s \in Candidates(f)
  PROVE  Earned(s)
<1> DEFINE F == {e \in Cluster(s) : FirstPass(e)}
           E == Cluster(s) \cap Ended
<1>1. Cluster(s) \subseteq Episodes
  BY DEF Cluster, Linked
<1>2. IsFiniteSet(F) /\ IsFiniteSet(E)
  BY <1>1, FS_Subset DEF FiniteLoop
<1>3. Cardinality(F) \in Nat /\ Cardinality(E) \in Nat
  BY <1>2, FS_CardinalityType
<1>4. Cardinality(E) > 0 /\ 100 * Cardinality(F) > f.floor * Cardinality(E)
  BY DEF Candidates, IsMature, LowerAbove, Evidence, Rate
<1>5. Cardinality(F) # 0
  <2>1. f.floor \in Nat
    BY LearningAssumption
  <2>2. f.floor * Cardinality(E) \in Nat
    BY <1>3, <2>1
  <2> QED
    BY <1>3, <1>4, <2>2
<1>6. PICK x : x \in F
  BY <1>5, FS_EmptySet
<1> QED
  BY <1>1, <1>6 DEF Earned, EarnedBy, FirstPass, Cluster, Linked

LEMMA EarnBoard ==
  ASSUME TrajInv, ShopInv, EarnInv, NEW e \in Episodes, [Next]_vars,
         \/ Plan(e) \/ Executes(e) \/ Reworks(e)
         \/ \E status \in {"merged", "abandoned"} : Ends(e, status)
         \/ TriggersRetro(e) \/ DiesBeforeRetro(e) \/ Retro(e)
  PROVE  EarnInv'
<1>1. UNCHANGED <<registry, writing, candidate, live, promoter>>
  BY DEF Plan, Executes, Reworks, Ends, TriggersRetro, DiesBeforeRetro, Retro, OnlyTask, RetroStep,
         curation, adoption, worker
<1>2. /\ task' \in [Episodes -> TaskRow]
      /\ \A x \in Episodes : task'[x].skills = task[x].skills \/ task'[x].skills = registry
  <2>1. CASE Plan(e)
    <3>1. task' = [task EXCEPT ![e] = [task[e] EXCEPT !.status = "queued"]]
      BY <2>1 DEF Plan, OnlyTask
    <3> QED
      BY <3>1 DEF EarnInv, TaskRow
  <2>2. CASE Executes(e)
    <3>1. task' = [task EXCEPT ![e] = [task[e] EXCEPT !.status = "running", !.skills = registry]]
      BY <2>2 DEF Executes, OnlyTask
    <3> QED
      BY <3>1 DEF EarnInv, TaskRow
  <2>3. CASE Reworks(e)
    <3>1. task' = [task EXCEPT ![e] = [task[e] EXCEPT !.rework = TRUE]]
      BY <2>3 DEF Reworks, OnlyTask
    <3> QED
      BY <3>1 DEF EarnInv, TaskRow
  <2>4. ASSUME NEW status \in {"merged", "abandoned"}, Ends(e, status)
        PROVE  /\ task' \in [Episodes -> TaskRow]
               /\ \A x \in Episodes : task'[x].skills = task[x].skills
    <3>1. task' = [task EXCEPT ![e] = [task[e] EXCEPT !.status = status]]
      BY <2>4 DEF Ends, OnlyTask
    <3> QED
      BY <3>1 DEF EarnInv, TaskRow
  <2>5. CASE TriggersRetro(e) \/ DiesBeforeRetro(e) \/ Retro(e)
    BY <2>5 DEF TriggersRetro, DiesBeforeRetro, Retro, RetroStep, EarnInv
  <2> QED
    BY <2>1, <2>2, <2>3, <2>4, <2>5
<1>3. \A s : (Earned(s) => Earned(s)') /\ (Cleared(s) => Cleared(s)')
             /\ (EarnedIfInduced(s) => EarnedIfInduced(s)')
             /\ (Consumed(s) # {} => Consumed(s)' # {})
  BY EarnedStays, ClearedStays, ConsumedStays DEF EarnedIfInduced
<1> QED
  BY <1>1, <1>2, <1>3 DEF EarnInv

LEMMA EarnCuration ==
  ASSUME FiniteLoop, TrajInv, ShopInv, EarnInv, [Next]_vars,
         Curation
  PROVE  EarnInv'
<1>1. UNCHANGED <<task, registry, live, promoter>>
  BY DEF Curation, Curates, WritesCandidate, DraftsCandidate, work, adoption, worker
<1>2. \A s : (Earned(s) => Earned(s)') /\ (Cleared(s) => Cleared(s)')
             /\ (EarnedIfInduced(s) => EarnedIfInduced(s)')
             /\ (Consumed(s) # {} => Consumed(s)' # {})
  BY EarnedStays, ClearedStays, ConsumedStays DEF EarnedIfInduced
<1>3. ASSUME NEW f \in Floors, Curates(f) PROVE EarnInv'
  <2>1. candidate' = candidate
        /\ writing' = {[skill |-> s, content |-> Evidence(s)] : s \in Candidates(f)}
    BY <1>3 DEF Curates, Writing
  <2>2. \A s \in Candidates(f) : s \in Skills /\ Earned(s)
    BY CandidateIsEarned DEF Candidates, Skills
  <2>3. \A c \in writing' : c.skill \in Skills /\ Earned(c.skill)
    BY <2>1, <2>2
  <2> QED
    BY <1>1, <1>2, <2>1, <2>3 DEF EarnInv
<1>4. ASSUME NEW c \in writing, WritesCandidate(c) PROVE EarnInv'
  <2>1. /\ candidate' = [candidate EXCEPT ![c.skill] = c.content]
        /\ writing' \subseteq writing
    BY <1>4 DEF WritesCandidate, Writing
  <2>2. Earned(c.skill)
    BY DEF EarnInv
  <2> QED
    BY <1>1, <1>2, <2>1, <2>2 DEF EarnInv, EarnedIfInduced
<1>5. ASSUME NEW s \in Researched, DraftsCandidate(s) PROVE EarnInv'
  <2>1. candidate' = [candidate EXCEPT ![s] = Unmeasured] /\ writing' = writing
    BY <1>5 DEF DraftsCandidate
  <2>2. s \notin Induced
    BY LearningAssumption DEF Induced
  <2>3. EarnedIfInduced(s)'
    BY <2>2 DEF EarnedIfInduced
  <2> QED
    BY <1>1, <1>2, <2>1, <2>3 DEF EarnInv
<1> QED
  BY <1>3, <1>4, <1>5 DEF Curation

LEMMA EarnAdoption ==
  ASSUME TrajInv, ShopInv, ShopInv', EarnInv, [Next]_vars,
         \/ \E p \in Promoters : Promotion(p)
         \/ \E i \in Store!Ids, v \in {"approved", "denied"} : Resolve(i, v)
  PROVE  EarnInv'
<1>1. UNCHANGED <<task, registry, writing, candidate>>
  BY DEF Promotion, Promotes, ConsumesGrant, LosesGrant, AsksAdoption, WritesSkill, WriteFails,
         OnlyPromoter, Resolve, work, curation, worker
<1>2. \A s : (Earned(s) => Earned(s)') /\ (Cleared(s) => Cleared(s)')
             /\ (EarnedIfInduced(s) => EarnedIfInduced(s)')
             /\ (Consumed(s) # {} => Consumed(s)' # {})
  BY EarnedStays, ClearedStays, ConsumedStays DEF EarnedIfInduced
<1>3. ASSUME DOMAIN live' = Skills,
             \A s \in Skills : live'[s] # None => live[s] # None \/ Cleared(s),
             \A p \in Promoters : promoter'[p].op = "write" =>
                \/ promoter'[p] = promoter[p]
                \/ Consumed(promoter[p].skill)' # {}
      PROVE  EarnInv'
  BY <1>1, <1>2, <1>3 DEF EarnInv
<1>4. ASSUME NEW p \in Promoters, NEW j, promoter' = [promoter EXCEPT ![p] = j],
             j.op # "write", UNCHANGED live
      PROVE  EarnInv'
  BY <1>3, <1>4 DEF EarnInv, ShopInv, Shop
<1>5. ASSUME NEW p \in Promoters, NEW s \in Skills, Promotes(p, s) PROVE EarnInv'
  <2>1. UNCHANGED live
    BY <1>5 DEF Promotes
  <2>2. CASE \E i \in Store!Ids : Store!IsGrantFor(s, i)
    <3> DEFINE j == [op |-> "consume", skill |-> s,
                     grant |-> CHOOSE i \in Store!Ids : Store!IsGrantFor(s, i)]
    <3>1. promoter' = [promoter EXCEPT ![p] = j] /\ j.op # "write"
      BY <1>5, <2>2 DEF Promotes, OnlyPromoter
    <3> HIDE DEF j
    <3> QED
      BY <1>4, <2>1, <3>1
  <2>3. CASE ~\E i \in Store!Ids : Store!IsGrantFor(s, i)
    <3> DEFINE j == [op |-> "ask", skill |-> s]
    <3>1. promoter' = [promoter EXCEPT ![p] = j] /\ j.op # "write"
      BY <1>5, <2>3 DEF Promotes, OnlyPromoter
    <3> HIDE DEF j
    <3> QED
      BY <1>4, <2>1, <3>1
  <2> QED
    BY <2>2, <2>3
<1>6. ASSUME NEW p \in Promoters, ConsumesGrant(p) PROVE EarnInv'
  <2> DEFINE i == promoter[p].grant
             s == promoter[p].skill
  <2>1. /\ i \in Store!Ids /\ row[i].act = s
        /\ row' = [row EXCEPT ![i].status = "consumed"]
        /\ promoter' = [promoter EXCEPT ![p] = [op |-> "write", skill |-> s]]
        /\ UNCHANGED live
    BY <1>6 DEF ConsumesGrant, OnlyPromoter, Store!Consume, ShopInv, Shop
  <2>2. Consumed(s)' # {}
    BY <2>1 DEF Consumed, Store!RowsOf, ShopInv, Shop
  <2> QED
    BY <1>3, <2>1, <2>2 DEF EarnInv, ShopInv, Shop
<1>7. ASSUME NEW p \in Promoters, LosesGrant(p) \/ AsksAdoption(p) \/ WriteFails(p) PROVE EarnInv'
  <2>1. UNCHANGED live
    BY <1>7 DEF LosesGrant, AsksAdoption, WriteFails
  <2>2. CASE LosesGrant(p)
    <3> DEFINE j == [op |-> "ask", skill |-> promoter[p].skill]
    <3>1. promoter' = [promoter EXCEPT ![p] = j] /\ j.op # "write"
      BY <2>2 DEF LosesGrant, OnlyPromoter
    <3> HIDE DEF j
    <3> QED
      BY <1>4, <2>1, <3>1
  <2>3. CASE AsksAdoption(p) \/ WriteFails(p)
    <3> DEFINE j == [op |-> "idle"]
    <3>1. promoter' = [promoter EXCEPT ![p] = j] /\ j.op # "write"
      BY <2>3 DEF AsksAdoption, WriteFails, OnlyPromoter
    <3> HIDE DEF j
    <3> QED
      BY <1>4, <2>1, <3>1
  <2> QED
    BY <1>7, <2>2, <2>3
<1>8. ASSUME NEW p \in Promoters, WritesSkill(p) PROVE EarnInv'
  <2> DEFINE s == promoter[p].skill
  <2>1. /\ s \in Skills /\ live' = [live EXCEPT ![s] = candidate[s]]
        /\ promoter' = [promoter EXCEPT ![p] = [op |-> "idle"]]
        /\ promoter[p].op = "write"
    BY <1>8 DEF WritesSkill, OnlyPromoter, ShopInv, Shop
  <2>2. candidate[s] # None => Cleared(s)
    BY <2>1 DEF EarnInv, Cleared
  <2> QED
    BY <1>3, <2>1, <2>2 DEF EarnInv, ShopInv, Shop
<1>9. ASSUME NEW i \in Store!Ids, NEW v \in {"approved", "denied"}, Resolve(i, v) PROVE EarnInv'
  <2>1. UNCHANGED <<live, promoter>>
    BY <1>9 DEF Resolve
  <2> QED
    BY <1>3, <2>1 DEF EarnInv
<1> QED
  BY <1>5, <1>6, <1>7, <1>8, <1>9 DEF Promotion

LEMMA EarnNext ==
  ASSUME FiniteLoop, TrajInv, ShopInv, ShopInv', EarnInv, [Next]_vars
  PROVE  EarnInv'
<1>0. \A s : (Earned(s) => Earned(s)') /\ (Cleared(s) => Cleared(s)')
             /\ (EarnedIfInduced(s) => EarnedIfInduced(s)')
             /\ (Consumed(s) # {} => Consumed(s)' # {})
  BY EarnedStays, ClearedStays, ConsumedStays DEF EarnedIfInduced
<1>1. CASE OthersIdle \/ JudgesSkills \/ UNCHANGED vars
  <2>1. UNCHANGED <<task, registry, writing, candidate, live, promoter>>
    BY <1>1 DEF OthersIdle, JudgesSkills, vars, work, curation, adoption, worker
  <2> QED
    BY <1>0, <2>1 DEF EarnInv
<1>2. CASE RestartWorker
  <2>1. /\ UNCHANGED <<task, candidate, live, promoter>> /\ writing' = {}
        /\ registry' = {s \in Skills : live[s] # None}
    BY <1>2 DEF RestartWorker, work, adoption, Live
  <2> QED
    BY <1>0, <2>1 DEF EarnInv
<1> QED
  BY <1>1, <1>2, EarnBoard, EarnCuration, EarnAdoption DEF Next, Curation

\* Whatever a prompt is given was shipped, or a human's approval was spent on it; and what
\* the Curator induced comes from an episode whose task merged at the first pass.  No
\* restart, no draft of the Researcher's, no concurrent promotion and no curation under way
\* lets anything else in (cluster_report, promote_candidate, SkillRegistry.discover).
THEOREM InjectedWasEarned ==
  ASSUME FiniteLoop
  PROVE  Spec => []InjectedIsEarned
<1> DEFINE IInv == TrajInv /\ ShopInv /\ EarnInv
<1>1. Init => IInv
  BY TrajInit, ShopInit, EarnInit
<1>2. IInv /\ [Next]_vars => IInv'
  BY TrajNext, ShopNext, EarnNext
<1>3. IInv => InjectedIsEarned
  BY DEF EarnInv, Cleared, EarnedIfInduced, Earned, EarnedBy, Consumed, InjectedIsEarned, FirstPass
<1> QED
  BY <1>1, <1>2, <1>3, PTL DEF Spec

=============================================================================
