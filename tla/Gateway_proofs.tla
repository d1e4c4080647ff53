--------------------------- MODULE Gateway_proofs ---------------------------
(***************************************************************************)
(* Theorems about Gateway: whatever the tokens, their pins and scopes, and *)
(* however requests, re-kicks and the steps of the fleet interleave, no    *)
(* remote is credited with a task it never held, and none ever holds a     *)
(* task of the host's pool or of a workstream it is not pinned to.         *)
(***************************************************************************)
EXTENDS Gateway, TLAPS, SequenceTheorems

-----------------------------------------------------------------------------
(* The tables                                                              *)

Table(s) == \E S : s \in Seq(S)

LEMMA AppendToTable ==
  ASSUME NEW s, Table(s), NEW e
  PROVE  /\ Table(Append(s, e))
         /\ Len(Append(s, e)) = Len(s) + 1 /\ Len(s) \in Nat
         /\ DOMAIN s = 1..Len(s)
         /\ DOMAIN Append(s, e) = (DOMAIN s) \cup {Len(s) + 1}
         /\ \A i \in DOMAIN s : Append(s, e)[i] = s[i]
         /\ Append(s, e)[Len(s) + 1] = e
<1>1. PICK S : s \in Seq(S)
  BY DEF Table
<1>2. s \in Seq(S \cup {e}) /\ Len(s) \in Nat /\ DOMAIN s = 1..Len(s)
  BY <1>1, SeqMonotonic, LenProperties
<1>3. /\ Append(s, e) \in Seq(S \cup {e})
      /\ Len(Append(s, e)) = Len(s) + 1
      /\ \A i \in 1..Len(s) : Append(s, e)[i] = s[i]
      /\ Append(s, e)[Len(s) + 1] = e
  BY <1>2, AppendProperties
<1>4. DOMAIN Append(s, e) = 1..(Len(s) + 1)
  BY <1>3, LenProperties
<1> QED
  BY <1>2, <1>3, <1>4 DEF Table

\* A function on the indices of a table is a table of the same length.
LEMMA SameIndices ==
  ASSUME NEW s, Table(s), NEW r, r = [i \in DOMAIN s |-> r[i]]
  PROVE  Table(r) /\ Len(r) = Len(s) /\ DOMAIN r = DOMAIN s
<1>1. Len(s) \in Nat /\ DOMAIN s = 1..Len(s)
  BY LenProperties DEF Table
<1> DEFINE R == {r[i] : i \in DOMAIN s}
<1>2. r \in [1..Len(s) -> R]
  BY <1>1
<1>3. r \in Seq(R) /\ Len(r) = Len(s)
  BY <1>1, <1>2
<1> HIDE DEF R
<1> QED
  BY <1>1, <1>2, <1>3 DEF Table

-----------------------------------------------------------------------------
(* The inductive invariant                                                 *)

\* The columns belong to the rows of the tasks table.
IsRow(r) == r = [workstream |-> r.workstream, assignee |-> r.assignee,
                 claimedBy |-> r.claimedBy, completedBy |-> r.completedBy]
Columns ==
  /\ Table(jobs) /\ Table(row) /\ Table(had)
  /\ DOMAIN row = Ids /\ DOMAIN had = Ids
  /\ \A i \in Ids : IsRow(row[i])

\* A claim, a credit and a look at the holder all go back to a grab.
Earned ==
  /\ \A i \in Ids : /\ row[i].claimedBy # Nobody => row[i].claimedBy \in had[i]
                    /\ row[i].completedBy # Nobody => row[i].completedBy \in had[i]
  /\ \A s \in Slots : inHand[s] # Free => /\ inHand[s].task \in Ids
                                          /\ inHand[s].by \in had[inHand[s].task]

IInv == Columns /\ Earned /\ RemotesKeepOut

-----------------------------------------------------------------------------
(* The fleet's steps                                                       *)

\* What a step of the fleet may do to the tasks table: update rows, or insert one.
Kept == jobs' = [i \in DOMAIN jobs |-> jobs'[i]]
Grew == \E j : jobs' = Append(jobs, j)

LEMMA SetStatusKeeps ==
  ASSUME Table(jobs), NEW i, NEW to, SetStatus(i, to)
  PROVE  Kept
<1>1. jobs = [k \in DOMAIN jobs |-> jobs[k]]
  BY DEF Table
<1> QED
  BY <1>1 DEF SetStatus, Kept

LEMMA EnqueueGrows ==
  ASSUME NEW job, Enqueue(job)
  PROVE  Grew
  BY DEF Enqueue, Grew

LEMMA UnchangedKeeps ==
  ASSUME Table(jobs), UNCHANGED jobs
  PROVE  Kept
<1>1. jobs = [k \in DOMAIN jobs |-> jobs[k]]
  BY DEF Table
<1> QED
  BY <1>1 DEF Kept

LEMMA FleetStep ==
  ASSUME Table(jobs)
  PROVE  /\ \A w \in Workers, i \in Ids : Take(w, i) => Kept
         /\ \A w \in Workers : WorkStep(w) \/ RoleStep(w) \/ PassDies(w) => Kept \/ Grew
         /\ \A i \in Ids : Rekick(i) => Kept
         /\ Schedule \/ HourPasses => Kept \/ Grew
<1>1. jobs = [k \in DOMAIN jobs |-> jobs[k]]
  BY DEF Table
<1>2. ASSUME NEW w \in Workers, NEW i \in Ids, Take(w, i) PROVE Kept
  BY <1>1, <1>2 DEF Take, Kept
<1>3. ASSUME NEW w \in Workers, WorkStep(w) PROVE Kept \/ Grew
  <2>1. CASE Execute(w) \/ Verify(w)
    BY <2>1, UnchangedKeeps DEF Execute, Verify
  <2>2. CASE Submit(w)
    BY <2>2, SetStatusKeeps DEF Submit
  <2>3. CASE Approve(w)
    BY <2>3, SetStatusKeeps DEF Approve
  <2>4. CASE Merge(w) \/ GiveUp(w)
    BY <2>4, SetStatusKeeps DEF Merge, GiveUp, Conclude
  <2>5. CASE Reject(w)
    BY <2>5, SetStatusKeeps DEF Reject
  <2>6. CASE Again(w)
    BY <2>6, SetStatusKeeps DEF Again
  <2>7. CASE EnqueueRetro(w)
    BY <2>7, EnqueueGrows, UnchangedKeeps DEF EnqueueRetro
  <2>8. CASE EnqueueReview(w)
    BY <2>8, EnqueueGrows, UnchangedKeeps DEF EnqueueReview
  <2> QED
    BY <1>3, <2>1, <2>2, <2>3, <2>4, <2>5, <2>6, <2>7, <2>8 DEF WorkStep
<1>4. ASSUME NEW w \in Workers, RoleStep(w) PROVE Kept \/ Grew
  <2>1. CASE Retro(w)
    BY <2>1, EnqueueGrows, UnchangedKeeps DEF Retro
  <2>2. CASE Review(w) \/ Plan(w)
    BY <2>2, UnchangedKeeps DEF Review, Plan
  <2>3. CASE Commission(w)
    BY <2>3, EnqueueGrows DEF Commission
  <2>4. CASE Finish(w)
    BY <2>4, SetStatusKeeps DEF Finish
  <2> QED
    BY <1>4, <2>1, <2>2, <2>3, <2>4 DEF RoleStep
<1>5. ASSUME NEW w \in Workers, PassDies(w) PROVE Kept
  BY <1>5, UnchangedKeeps DEF PassDies
<1>6. ASSUME NEW i \in Ids, Rekick(i) PROVE Kept
  <2>1. CASE jobs' = [jobs EXCEPT ![i].status = "up_for_grabs", ![i].retries = @ + 1]
    BY <1>1, <2>1 DEF Kept
  <2>2. CASE SetStatus(i, "abandoned")
    BY <2>2, SetStatusKeeps
  <2> QED
    BY <1>6, <2>1, <2>2 DEF Rekick
<1>7. Schedule => Grew
  BY EnqueueGrows DEF Schedule
<1>8. HourPasses => Kept
  BY UnchangedKeeps DEF HourPasses
<1> QED
  BY <1>2, <1>3, <1>4, <1>5, <1>6, <1>7, <1>8

-----------------------------------------------------------------------------
(* What happens to the rows                                                *)

\* A task inserted by the fleet or by a remote has been handed to nobody.
LEMMA InsertKeeps ==
  ASSUME IInv, Grew, NEW ws, NEW pool,
         row' = Append(row, Row(ws, pool)), had' = Append(had, {}), UNCHANGED inHand
  PROVE  IInv'
<1> DEFINE n == Len(jobs) + 1
<1>1. PICK j : jobs' = Append(jobs, j)
  BY DEF Grew
<1>2. Len(row) = Len(jobs) /\ Len(had) = Len(jobs) /\ Len(jobs) \in Nat
  <2>1. /\ DOMAIN jobs = 1..Len(jobs) /\ DOMAIN row = 1..Len(row) /\ DOMAIN had = 1..Len(had)
        /\ Len(jobs) \in Nat /\ Len(row) \in Nat /\ Len(had) \in Nat
    BY AppendToTable DEF IInv, Columns
  <2> QED
    BY <2>1 DEF IInv, Columns, Ids
<1>3. /\ Table(jobs') /\ DOMAIN jobs' = Ids \cup {n}
      /\ Table(row') /\ DOMAIN row' = Ids \cup {n}
      /\ Table(had') /\ DOMAIN had' = Ids \cup {n}
  BY <1>1, <1>2, AppendToTable DEF IInv, Columns, Ids
<1>4. /\ \A i \in Ids : row'[i] = row[i] /\ had'[i] = had[i]
      /\ row'[n] = Row(ws, pool) /\ had'[n] = {}
  BY <1>2, AppendToTable DEF IInv, Columns
<1> HIDE DEF n
<1>5. Columns'
  <2>1. IsRow(row'[n])
    BY <1>4 DEF IsRow, Row
  <2> QED
    BY <1>3, <1>4, <2>1 DEF IInv, Columns, Ids, IsRow
<1>6. Earned'
  <2>1. row'[n].claimedBy = Nobody /\ row'[n].completedBy = Nobody
    <3>1. Row(ws, pool).claimedBy = Nobody /\ Row(ws, pool).completedBy = Nobody
      BY DEF Row
    <3> QED
      BY <1>4, <3>1
  <2> QED
    BY <1>3, <1>4, <2>1 DEF IInv, Earned, Ids
<1>7. RemotesKeepOut'
  BY <1>3, <1>4 DEF IInv, RemotesKeepOut, Ids
<1> QED
  BY <1>5, <1>6, <1>7 DEF IInv

\* A row is updated, and handed to whoever the update names.
Claims(i, c, d, h) ==
  /\ row' = [row EXCEPT ![i] = [@ EXCEPT !.claimedBy = c, !.completedBy = d]]
  /\ had' = [had EXCEPT ![i] = h]

LEMMA UpdateKeeps ==
  ASSUME IInv, Kept, NEW i \in Ids, NEW c, NEW d, NEW h, Claims(i, c, d, h),
         had[i] \subseteq h,
         c = Nobody \/ c \in h,
         d = Nobody \/ d \in h,
         \A id \in h \ had[i] :
           /\ row[i].assignee # "host"
           /\ \E t \in Tokens : Identity[t] = id /\ AllowsWorkstream(t, row[i].workstream),
         \A s \in Slots : inHand'[s] = inHand[s] \/ inHand'[s] = Free
  PROVE  IInv'
<1>1. Table(jobs') /\ DOMAIN jobs' = Ids
  BY SameIndices DEF IInv, Columns, Kept, Ids
<1>2. row = [k \in Ids |-> row[k]] /\ had = [k \in Ids |-> had[k]]
  BY DEF IInv, Columns, Table
<1>3. row' = [k \in Ids |-> row'[k]] /\ had' = [k \in Ids |-> had'[k]]
  BY <1>2 DEF Claims
<1>4. Table(row') /\ DOMAIN row' = Ids /\ Table(had') /\ DOMAIN had' = Ids
  BY <1>3, SameIndices DEF IInv, Columns
<1>5. /\ \A k \in Ids : k # i => row'[k] = row[k] /\ had'[k] = had[k]
      /\ had'[i] = h
      /\ row'[i] = [row[i] EXCEPT !.claimedBy = c, !.completedBy = d]
  BY <1>2 DEF Claims
<1>6. row'[i] = [workstream |-> row[i].workstream, assignee |-> row[i].assignee,
                 claimedBy |-> c, completedBy |-> d]
  BY <1>5 DEF IInv, Columns, IsRow
<1>7. Columns'
  <2>1. \A k \in Ids : IsRow(row'[k])
    BY <1>5, <1>6 DEF IInv, Columns, IsRow
  <2> QED
    BY <1>1, <1>4, <2>1 DEF Columns, Ids, IsRow
<1>8. Earned'
  <2>1. ASSUME NEW s \in Slots, inHand'[s] # Free
        PROVE  inHand'[s].task \in Ids /\ inHand'[s].by \in had'[inHand'[s].task]
    BY <2>1, <1>5 DEF IInv, Earned
  <2>2. ASSUME NEW k \in Ids
        PROVE  /\ row'[k].claimedBy # Nobody => row'[k].claimedBy \in had'[k]
               /\ row'[k].completedBy # Nobody => row'[k].completedBy \in had'[k]
    BY <1>5, <1>6 DEF IInv, Earned
  <2> QED
    BY <1>1, <2>1, <2>2 DEF Earned, Ids, Free
<1>9. RemotesKeepOut'
  <2>1. ASSUME NEW k \in Ids, NEW id \in had'[k]
        PROVE  /\ row'[k].assignee # "host"
               /\ \E t \in Tokens : Identity[t] = id /\ AllowsWorkstream(t, row'[k].workstream)
    BY <1>5, <1>6 DEF IInv, RemotesKeepOut
  <2> QED
    BY <1>1, <2>1 DEF RemotesKeepOut, Ids, AllowsWorkstream
<1> QED
  BY <1>7, <1>8, <1>9 DEF IInv

\* Nothing happens to the rows.
LEMMA SameKeeps ==
  ASSUME IInv, Kept, UNCHANGED <<row, had>>,
         \A s \in Slots : inHand'[s] # Free /\ inHand'[s] # inHand[s]
           => inHand'[s].task \in Ids /\ inHand'[s].by \in had[inHand'[s].task]
  PROVE  IInv'
<1>1. Table(jobs') /\ DOMAIN jobs' = Ids
  BY SameIndices DEF IInv, Columns, Kept, Ids
<1>2. Columns'
  BY <1>1 DEF IInv, Columns, Ids, IsRow
<1>3. Earned'
  <2>1. ASSUME NEW s \in Slots, inHand'[s] # Free
        PROVE  inHand'[s].task \in Ids /\ inHand'[s].by \in had[inHand'[s].task]
    BY <2>1 DEF IInv, Earned
  <2> QED
    BY <1>1, <2>1 DEF IInv, Earned, Ids, Free
<1>4. RemotesKeepOut'
  BY <1>1 DEF IInv, RemotesKeepOut, Ids, AllowsWorkstream
<1> QED
  BY <1>2, <1>3, <1>4 DEF IInv

-----------------------------------------------------------------------------
(* The invariant is inductive                                              *)

LEMMA InitIInv == GatewayInit => IInv
<1> SUFFICES ASSUME GatewayInit PROVE IInv
  OBVIOUS
<1>1. PICK b \in Boards : jobs = [i \in DOMAIN b.types |-> Job(b.types[i], 0, "none")]
  BY DEF GatewayInit, Init
<1>2. row = [i \in Ids |-> Row(Home, "any")] /\ had = [i \in Ids |-> {}]
  BY DEF GatewayInit
<1>3. Table(b.types)
  BY FleetAssumption DEF Table
<1>4. Table(jobs) /\ DOMAIN jobs = DOMAIN b.types
  BY <1>1, <1>3, SameIndices
<1>5. Table(row) /\ Table(had)
  BY <1>2, <1>4, SameIndices DEF Ids
<1>6. /\ IsRow(Row(Home, "any"))
      /\ Row(Home, "any").claimedBy = Nobody /\ Row(Home, "any").completedBy = Nobody
  BY DEF IsRow, Row
<1>7. Columns
  BY <1>2, <1>4, <1>5, <1>6 DEF Columns
<1>8. Earned
  BY <1>2, <1>6 DEF Earned, GatewayInit
<1>9. RemotesKeepOut
  BY <1>2 DEF RemotesKeepOut
<1> QED
  BY <1>7, <1>8, <1>9 DEF IInv

\* An update in the words of the actions.
LEMMA AsClaims ==
  ASSUME IInv, NEW i \in Ids
  PROVE  /\ \A c : [row EXCEPT ![i].claimedBy = c]
                    = [row EXCEPT ![i] = [@ EXCEPT !.claimedBy = c, !.completedBy = row[i].completedBy]]
         /\ \A d : [row EXCEPT ![i].completedBy = d]
                    = [row EXCEPT ![i] = [@ EXCEPT !.claimedBy = row[i].claimedBy, !.completedBy = d]]
         /\ had = [had EXCEPT ![i] = had[i]]
<1>1. row[i] = [workstream |-> row[i].workstream, assignee |-> row[i].assignee,
                claimedBy |-> row[i].claimedBy, completedBy |-> row[i].completedBy]
  BY DEF IInv, Columns, IsRow
<1>2. row = [k \in Ids |-> row[k]] /\ had = [k \in Ids |-> had[k]]
  BY DEF IInv, Columns, Table
<1>3. ASSUME NEW c
      PROVE  [row[i] EXCEPT !.claimedBy = c]
             = [row[i] EXCEPT !.claimedBy = c, !.completedBy = row[i].completedBy]
  BY <1>1
<1>4. ASSUME NEW d
      PROVE  [row[i] EXCEPT !.completedBy = d]
             = [row[i] EXCEPT !.claimedBy = row[i].claimedBy, !.completedBy = d]
  BY <1>1
<1> QED
  BY <1>2, <1>3, <1>4

\* Both columns of row i are somebody's who had the task, or nobody's.
LEMMA Known ==
  ASSUME IInv, NEW i \in Ids
  PROVE  /\ row[i].claimedBy = Nobody \/ row[i].claimedBy \in had[i]
         /\ row[i].completedBy = Nobody \/ row[i].completedBy \in had[i]
  BY DEF IInv, Earned

LEMMA RemoteStep == IInv /\ RemoteNext => IInv'
<1> SUFFICES ASSUME IInv, RemoteNext PROVE IInv'
  OBVIOUS
<1>1. ASSUME NEW t \in Tokens, NEW ws, NEW type, NEW pool, Post(t, ws, type, pool)
      PROVE  IInv'
  BY <1>1, EnqueueGrows, InsertKeeps DEF Post
<1>2. ASSUME NEW t \in Tokens, NEW ws, NEW i \in Ids, Claim(t, ws, i) PROVE IInv'
  <2> DEFINE id == Identity[t]
             h == had[i] \cup {id}
  <2>1. Kept
    <3>1. jobs = [k \in DOMAIN jobs |-> jobs[k]]
      BY DEF IInv, Columns, Table
    <3> QED
      BY <1>2, <3>1 DEF Claim, Kept
  <2>2. Claims(i, id, row[i].completedBy, h)
    <3>1. had' = [had EXCEPT ![i] = h]
      BY <1>2 DEF Claim
    <3>2. row' = [row EXCEPT ![i].claimedBy = id]
      BY <1>2 DEF Claim
    <3> QED
      BY <3>1, <3>2, AsClaims DEF Claims
  <2>3. row[i].assignee # "host"
    BY <1>2 DEF Claim, Grabbable, FromPool
  <2>4. AllowsWorkstream(t, row[i].workstream)
    <3>1. AllowsWorkstream(t, Resolve(t, ws))
      BY <1>2 DEF Claim, Authorize
    <3>2. CASE Resolve(t, ws) = NoWorkstream
      BY <3>1, <3>2, GatewayAssumption DEF AllowsWorkstream
    <3>3. CASE Resolve(t, ws) # NoWorkstream
      BY <1>2, <3>1, <3>3 DEF Claim, Grabbable
    <3> QED
      BY <3>2, <3>3
  <2>5. inHand' = inHand
    BY <1>2 DEF Claim
  <2>6. \A other \in h \ had[i] : other = id
    OBVIOUS
  <2>7. id \in h /\ had[i] \subseteq h
    OBVIOUS
  <2>8. row[i].completedBy = Nobody \/ row[i].completedBy \in h
    BY Known
  <2>9. Identity[t] = id
    OBVIOUS
  <2> HIDE DEF h, id
  <2> QED
    BY <2>1, <2>2, <2>3, <2>4, <2>5, <2>6, <2>7, <2>8, <2>9, UpdateKeeps
<1>3. ASSUME NEW s \in Slots, NEW t \in Tokens, NEW i \in Ids, NEW outcome,
             BeginComplete(s, t, i, outcome)
      PROVE  IInv'
  <2>1. Identity[t] # Nobody
    BY GatewayAssumption DEF Identities
  <2>2. Identity[t] \in had[i]
    BY <1>3, <2>1 DEF BeginComplete, HeldTask, IInv, Earned
  <2>3. UNCHANGED <<jobs, row, had>>
    BY <1>3 DEF BeginComplete, vars
  <2>4. inHand' = [inHand EXCEPT ![s] = [task |-> i, outcome |-> outcome, by |-> Identity[t]]]
    BY <1>3 DEF BeginComplete
  <2>5. \A z \in Slots : inHand'[z] # inHand[z]
          => inHand'[z].task = i /\ inHand'[z].by = Identity[t]
    BY <2>4
  <2>6. Kept
    BY <2>3, UnchangedKeeps DEF IInv, Columns
  <2> QED
    BY <2>2, <2>3, <2>5, <2>6, SameKeeps
<1>4. ASSUME NEW s \in Slots, EndComplete(s) PROVE IInv'
  <2> DEFINE c == inHand[s]
  <2>1. c.task \in Ids /\ c.by \in had[c.task]
    BY <1>4 DEF EndComplete, IInv, Earned
  <2>2. UNCHANGED had /\ inHand' = [inHand EXCEPT ![s] = Free]
    BY <1>4 DEF EndComplete
  <2>3. \A z \in Slots : inHand'[z] = inHand[z] \/ inHand'[z] = Free
    BY <2>2
  <2>4. CASE jobs[c.task].status = "in_progress"
    <3>1. Kept
      BY <1>4, <2>4, SetStatusKeeps DEF EndComplete, IInv, Columns
    <3>2. row' = [row EXCEPT ![c.task].completedBy = c.by]
      BY <1>4, <2>4 DEF EndComplete
    <3> DEFINE i == c.task
               by == c.by
    <3>3. Claims(i, row[i].claimedBy, by, had[i])
      BY <2>1, <2>2, <3>2, AsClaims DEF Claims
    <3>4. i \in Ids /\ by \in had[i]
      BY <2>1
    <3> HIDE DEF i, by
    <3>5. row[i].claimedBy = Nobody \/ row[i].claimedBy \in had[i]
      BY <3>4, Known
    <3> QED
      BY <2>3, <3>1, <3>3, <3>4, <3>5, UpdateKeeps
  <2>5. CASE jobs[c.task].status # "in_progress"
    <3>1. UNCHANGED <<jobs, row>>
      BY <1>4, <2>5 DEF EndComplete
    <3>2. Kept
      BY <3>1, UnchangedKeeps DEF IInv, Columns
    <3> QED
      BY <2>2, <2>3, <3>1, <3>2, SameKeeps
  <2> QED
    BY <2>4, <2>5
<1>5. ASSUME NEW s \in Slots, RequestDies(s) PROVE IInv'
  <2>1. UNCHANGED <<jobs, row, had>> /\ inHand' = [inHand EXCEPT ![s] = Free]
    BY <1>5 DEF RequestDies, vars
  <2>2. Kept
    BY <2>1, UnchangedKeeps DEF IInv, Columns
  <2>3. \A z \in Slots : inHand'[z] = inHand[z] \/ inHand'[z] = Free
    BY <2>1
  <2> QED
    BY <2>1, <2>2, <2>3, SameKeeps
<1>6. ASSUME NEW id, Revoke(id) PROVE IInv'
  <2>1. UNCHANGED <<jobs, row, had, inHand>>
    BY <1>6 DEF Revoke
  <2> QED
    BY <2>1, UnchangedKeeps, SameKeeps DEF IInv, Columns
<1> QED
  BY <1>1, <1>2, <1>3, <1>4, <1>5, <1>6 DEF RemoteNext

LEMMA HostKeeps == IInv /\ HostNext => IInv'
<1> SUFFICES ASSUME IInv, HostNext PROVE IInv'
  OBVIOUS
<1> USE DEF IInv
<1>1. inHand' = inHand /\ Table(jobs)
  BY DEF HostNext, Columns
<1>2. Kept => ~Inserted
  <2>1. ASSUME Kept PROVE Len(jobs') = Len(jobs) /\ Len(jobs) \in Nat
    BY <1>1, <2>1, SameIndices, AppendToTable DEF Kept
  <2> QED
    BY <2>1 DEF Inserted
<1>3. Grew => Inserted
  <2>1. ASSUME NEW j, jobs' = Append(jobs, j) PROVE Len(jobs') = Len(jobs) + 1 /\ Len(jobs) \in Nat
    BY <1>1, <2>1, AppendToTable
  <2> QED
    BY <2>1 DEF Grew, Inserted
\* A step of a worker or of the clock inserts a row, or leaves the columns alone.
<1>4. ASSUME Kept \/ Grew,
             row' = IF Inserted THEN Append(row, Row(Home, "any")) ELSE row,
             had' = IF Inserted THEN Append(had, {}) ELSE had
      PROVE  IInv'
  <2>1. CASE Grew
    BY <1>1, <1>3, <1>4, <2>1, InsertKeeps
  <2>2. CASE Kept
    BY <1>1, <1>2, <1>4, <2>2, SameKeeps
  <2> QED
    BY <1>4, <2>1, <2>2
\* A grab and a re-kick clear the claim of the row.
<1>5. ASSUME NEW i \in Ids, Kept, row' = [row EXCEPT ![i].claimedBy = Nobody], UNCHANGED had
      PROVE  IInv'
  <2>1. Claims(i, Nobody, row[i].completedBy, had[i])
    BY <1>5, AsClaims DEF Claims
  <2>2. row[i].completedBy = Nobody \/ row[i].completedBy \in had[i]
    BY Known
  <2> QED
    BY <1>1, <1>5, <2>1, <2>2, UpdateKeeps
<1>6. ASSUME NEW w \in Workers, HostStep(w) PROVE IInv'
  BY <1>1, <1>4, <1>6, FleetStep DEF HostStep
<1>7. ASSUME NEW w \in Workers, NEW i \in Ids, HostGrab(w, i) PROVE IInv'
  BY <1>1, <1>5, <1>7, FleetStep DEF HostGrab
<1>8. ASSUME NEW i \in Ids, HostRekick(i) PROVE IInv'
  <2>1. Kept
    BY <1>1, <1>8, FleetStep DEF HostRekick
  <2>2. CASE jobs'[i].status = "up_for_grabs"
    BY <1>5, <1>8, <2>1, <2>2 DEF HostRekick
  <2>3. CASE jobs'[i].status # "up_for_grabs"
    BY <1>1, <1>8, <2>1, <2>3, SameKeeps DEF HostRekick
  <2> QED
    BY <2>2, <2>3
<1>9. CASE HostTime
  BY <1>1, <1>4, <1>9, FleetStep DEF HostTime
<1> QED
  BY <1>6, <1>7, <1>8, <1>9 DEF HostNext

LEMMA Inductive == GatewaySpec => []IInv
<1>1. IInv /\ [GatewayNext]_gatewayVars => IInv'
  <2> SUFFICES ASSUME IInv, [GatewayNext]_gatewayVars PROVE IInv'
    OBVIOUS
  <2>1. CASE GatewayNext
    BY <2>1, HostKeeps, RemoteStep DEF GatewayNext
  <2>2. CASE UNCHANGED gatewayVars
    <3>1. UNCHANGED <<jobs, row, had, inHand>>
      BY <2>2 DEF gatewayVars, vars, gateVars
    <3> QED
      BY <3>1, UnchangedKeeps, SameKeeps DEF IInv, Columns
  <2> QED
    BY <2>1, <2>2
<1> QED
  BY <1>1, InitIInv, PTL DEF GatewaySpec

\* Whatever happens between the look at the holder and complete_task, the remote a finished
\* task is credited to was handed that task (_held_task and complete).
THEOREM CreditIsEarned == GatewaySpec => []CreditWasClaimed
<1>1. IInv => CreditWasClaimed
  BY DEF IInv, Earned, CreditWasClaimed
<1> QED
  BY <1>1, Inductive, PTL

\* For all pins and scopes, no claim crosses into the host's pool or into a workstream the
\* identity has no token for (ClaimRequest._offhost_only, authorize, grab_task).
THEOREM RemotesAreFenced == GatewaySpec => []RemotesKeepOut
<1>1. IInv => RemotesKeepOut
  BY DEF IInv
<1> QED
  BY <1>1, Inductive, PTL

-----------------------------------------------------------------------------
(* The retro and the review of an episode study what really happened       *)

IsJob(j) == j = [type |-> j.type, target |-> j.target, outcome |-> j.outcome,
                 path |-> j.path, status |-> j.status, retries |-> j.retries,
                 born |-> j.born]
IsPass(p) == p = [step |-> p.step, job |-> p.job, attempt |-> p.attempt,
                  wrote |-> p.wrote, outcome |-> p.outcome, review |-> p.review,
                  retro |-> p.retro, frac |-> p.frac]

\* The status of an episode that ended with this outcome: a terminal one, so final.
OverAs(outcome) == IF outcome = "done" THEN "merged" ELSE "abandoned"

\* A job that studies an episode carries the outcome the episode ended with; the ones
\* posted from outside (target 0) study none.
Faithful(j) ==
  j.type \in {"retro", "review"} =>
    j.target = 0 \/ (j.target \in Ids /\ jobs[j.target].status = OverAs(j.outcome))

JobsInv ==
  /\ Table(jobs)
  /\ \A i \in Ids : IsJob(jobs[i]) /\ Faithful(jobs[i])

\* A handler about to enqueue them has ended its episode itself, as the row says.
PassIs(p) ==
  /\ IsPass(p)
  /\ p.step # "idle" => p.job \in Ids
  /\ p.step \in {"retro", "review"} => jobs[p.job].status = OverAs(p.outcome)

PassInv ==
  /\ pass = [w \in Workers |-> pass[w]]
  /\ \A w \in Workers : PassIs(pass[w])

LookInv == \A s \in Slots : inHand[s] # Free => inHand[s].task \in Ids

StudyInv == JobsInv /\ PassInv /\ LookInv

\* What every step leaves of the rows: none disappears, what a job studies is never
\* rewritten, and what is over stays over.
Steady ==
  /\ Table(jobs') /\ Ids \subseteq Ids'
  /\ \A i \in Ids :
       /\ IsJob(jobs'[i])
       /\ jobs'[i].type = jobs[i].type /\ jobs'[i].target = jobs[i].target
       /\ jobs'[i].outcome = jobs[i].outcome
       /\ Terminated(i) => jobs'[i].status = jobs[i].status
  /\ \A i \in Ids' \ Ids : IsJob(jobs'[i]) /\ Faithful(jobs'[i])

LEMMA OverIsTerminal ==
  ASSUME NEW outcome PROVE OverAs(outcome) \in Terminal
  BY DEF OverAs, Terminal

LEMMA SteadyKeepsJobs ==
  ASSUME JobsInv, Steady
  PROVE  JobsInv'
<1>1. ASSUME NEW j, Faithful(j) PROVE (j.type \in {"retro", "review"} =>
        j.target = 0 \/ (j.target \in Ids' /\ jobs'[j.target].status = OverAs(j.outcome)))
  BY <1>1, OverIsTerminal DEF Faithful, Steady, Terminated
<1>2. ASSUME NEW i \in Ids'
      PROVE  IsJob(jobs'[i]) /\ (jobs'[i].type \in {"retro", "review"} =>
               \/ jobs'[i].target = 0
               \/ /\ jobs'[i].target \in Ids'
                  /\ jobs'[jobs'[i].target].status = OverAs(jobs'[i].outcome))
  <2>1. CASE i \in Ids
    <3>1. Faithful(jobs[i])
      BY <2>1 DEF JobsInv
    <3>. QED BY <1>1, <2>1, <3>1 DEF Steady
  <2>2. CASE i \notin Ids
    BY <1>1, <1>2, <2>2 DEF Steady
  <2>. QED BY <2>1, <2>2
<1>. QED BY <1>2 DEF JobsInv, Steady, Faithful, IsJob, OverAs

LEMMA UnchangedIsSteady ==
  ASSUME JobsInv, UNCHANGED jobs
  PROVE  Steady /\ Ids' = Ids
<1>1. \A i \in Ids : IsJob(jobs[i])
  BY DEF JobsInv
<1>. QED BY <1>1 DEF JobsInv, Steady, Ids, Table

LEMMA RowIsSteady ==
  ASSUME JobsInv, NEW i \in Ids, NEW to, NEW n,
         \/ jobs' = [jobs EXCEPT ![i].status = to]
         \/ jobs' = [jobs EXCEPT ![i].status = to, ![i].retries = n],
         Terminated(i) => to = jobs[i].status
  PROVE  Steady /\ Ids' = Ids /\ jobs'[i].status = to
<1> DEFINE r == jobs[i]
<1>1. jobs = [k \in Ids |-> jobs[k]]
  BY DEF JobsInv, Table, Ids
<1>2. Kept
  BY <1>1 DEF Kept, Ids
<1>3. Table(jobs') /\ Ids' = Ids
  BY <1>2, SameIndices DEF JobsInv, Kept, Ids
<1>4. \A k \in Ids : k # i => jobs'[k] = jobs[k]
  BY <1>1
<1>5. jobs'[i] = [r EXCEPT !.status = to] \/ jobs'[i] = [r EXCEPT !.status = to, !.retries = n]
  BY <1>1
<1>6. r = [type |-> r.type, target |-> r.target, outcome |-> r.outcome, path |-> r.path,
           status |-> r.status, retries |-> r.retries, born |-> r.born]
  BY DEF JobsInv, IsJob
<1> HIDE DEF r
<1>7. \/ jobs'[i] = [type |-> r.type, target |-> r.target, outcome |-> r.outcome, path |-> r.path,
                     status |-> to, retries |-> r.retries, born |-> r.born]
      \/ jobs'[i] = [type |-> r.type, target |-> r.target, outcome |-> r.outcome, path |-> r.path,
                     status |-> to, retries |-> n, born |-> r.born]
  BY <1>5, <1>6
<1>8. /\ IsJob(jobs'[i])
      /\ jobs'[i].type = r.type /\ jobs'[i].target = r.target
      /\ jobs'[i].outcome = r.outcome /\ jobs'[i].status = to
  BY <1>7 DEF IsJob
<1>9. ASSUME NEW k \in Ids
      PROVE  /\ IsJob(jobs'[k])
             /\ jobs'[k].type = jobs[k].type /\ jobs'[k].target = jobs[k].target
             /\ jobs'[k].outcome = jobs[k].outcome
             /\ Terminated(k) => jobs'[k].status = jobs[k].status
  <2>1. CASE k = i
    BY <1>8, <2>1 DEF r
  <2>2. CASE k # i
    <3>1. IsJob(jobs[k])
      BY DEF JobsInv
    <3>. QED BY <1>4, <2>2, <3>1
  <2>. QED BY <2>1, <2>2
<1>. QED BY <1>3, <1>8, <1>9 DEF Steady

LEMMA InsertIsSteady ==
  ASSUME JobsInv, NEW job, Enqueue(job), IsJob(job), Faithful(job)
  PROVE  Steady
<1>1. jobs' = Append(jobs, job) /\ Table(jobs)
  BY DEF Enqueue, JobsInv
<1>2. /\ Table(jobs') /\ Ids' = Ids \cup {Len(jobs) + 1}
      /\ \A i \in Ids : jobs'[i] = jobs[i]
      /\ jobs'[Len(jobs) + 1] = job
  BY <1>1, AppendToTable DEF Ids
<1>3. \A i \in Ids : IsJob(jobs[i])
  BY DEF JobsInv
<1>. QED BY <1>2, <1>3 DEF Steady

LEMMA HopIsSteady ==
  ASSUME JobsInv, NEW i \in Ids, NEW to, SetStatus(i, to),
         Reaches(i, to) \/ ~Terminated(i) \/ to = jobs[i].status
  PROVE  Steady /\ Ids' = Ids /\ jobs'[i].status = to
<1>1. jobs' = [jobs EXCEPT ![i].status = to]
  BY DEF SetStatus
<1>2. Terminated(i) => to = jobs[i].status
  BY DEF Reaches, Terminated, CanTransition, Successors, Terminal
<1>. QED BY <1>1, <1>2, RowIsSteady

\* A step of one worker leaves the other passes where they were.
OthersKept(w) ==
  /\ pass' = [v \in Workers |-> pass'[v]]
  /\ \A v \in Workers : v # w => pass'[v] = pass[v]

LEMMA PassKept ==
  ASSUME PassInv, Steady, NEW w \in Workers, OthersKept(w),
         IsPass(pass'[w]),
         pass'[w].step # "idle" => pass'[w].job \in Ids,
         pass'[w].step \in {"retro", "review"} =>
           jobs'[pass'[w].job].status = OverAs(pass'[w].outcome)
  PROVE  PassInv'
<1>1. ASSUME NEW v \in Workers
      PROVE  /\ IsPass(pass'[v])
             /\ pass'[v].step # "idle" => pass'[v].job \in Ids'
             /\ pass'[v].step \in {"retro", "review"} =>
                  jobs'[pass'[v].job].status = OverAs(pass'[v].outcome)
  <2>1. CASE v = w
    BY <2>1 DEF Steady
  <2>2. CASE v # w
    <3>1. PassIs(pass[v]) /\ pass'[v] = pass[v]
      BY <2>2 DEF PassInv, OthersKept
    <3>. QED BY <3>1, OverIsTerminal DEF PassIs, Steady, Terminated
  <2>. QED BY <2>1, <2>2
<1>. QED BY <1>1 DEF PassInv, PassIs, IsPass, OverAs, OthersKept

LEMMA PassesKept ==
  ASSUME PassInv, Steady, UNCHANGED pass
  PROVE  PassInv'
<1>1. ASSUME NEW v \in Workers
      PROVE  /\ IsPass(pass[v])
             /\ pass[v].step # "idle" => pass[v].job \in Ids'
             /\ pass[v].step \in {"retro", "review"} =>
                  jobs'[pass[v].job].status = OverAs(pass[v].outcome)
  <2>1. PassIs(pass[v])
    BY DEF PassInv
  <2>. QED BY <2>1, OverIsTerminal DEF PassIs, Steady, Terminated
<1>. QED BY <1>1 DEF PassInv, PassIs, IsPass, OverAs

\* The record of a pass after a step of its worker: the step, and what it carries.
LEMMA PassRecord ==
  ASSUME PassInv, NEW w \in Workers, NEW to, NEW x, NEW n,
         \/ pass' = [pass EXCEPT ![w].step = to]
         \/ pass' = [pass EXCEPT ![w].step = to, ![w].wrote = x]
         \/ pass' = [pass EXCEPT ![w].step = to, ![w].attempt = n]
  PROVE  /\ OthersKept(w) /\ IsPass(pass'[w]) /\ pass'[w].step = to
         /\ pass'[w].job = pass[w].job /\ pass'[w].outcome = pass[w].outcome
<1> DEFINE q == pass[w]
<1>1. pass = [v \in Workers |-> pass[v]]
  BY DEF PassInv
<1>2. OthersKept(w)
  BY <1>1 DEF OthersKept
<1>3. \/ pass'[w] = [q EXCEPT !.step = to]
      \/ pass'[w] = [q EXCEPT !.step = to, !.wrote = x]
      \/ pass'[w] = [q EXCEPT !.step = to, !.attempt = n]
  BY <1>1
<1>4. q = [step |-> q.step, job |-> q.job, attempt |-> q.attempt,
           wrote |-> q.wrote, outcome |-> q.outcome, review |-> q.review,
           retro |-> q.retro, frac |-> q.frac]
  BY DEF PassInv, PassIs, IsPass
<1> HIDE DEF q
<1>5. \E m, y : pass'[w] =
        [step |-> to, job |-> q.job, attempt |-> m, wrote |-> y, outcome |-> q.outcome,
         review |-> q.review, retro |-> q.retro, frac |-> q.frac]
  BY <1>3, <1>4
<1>6. IsPass(pass'[w]) /\ pass'[w].step = to /\ pass'[w].job = q.job
      /\ pass'[w].outcome = q.outcome
  BY <1>5 DEF IsPass
<1>. QED BY <1>2, <1>6 DEF q

LEMMA PassConcluded ==
  ASSUME PassInv, NEW w \in Workers, NEW to, NEW x,
         pass' = [pass EXCEPT ![w].step = to, ![w].outcome = x]
  PROVE  /\ OthersKept(w) /\ IsPass(pass'[w]) /\ pass'[w].step = to
         /\ pass'[w].job = pass[w].job /\ pass'[w].outcome = x
<1> DEFINE q == pass[w]
<1>1. pass = [v \in Workers |-> pass[v]]
  BY DEF PassInv
<1>2. OthersKept(w)
  BY <1>1 DEF OthersKept
<1>3. pass'[w] = [q EXCEPT !.step = to, !.outcome = x]
  BY <1>1
<1>4. q = [step |-> q.step, job |-> q.job, attempt |-> q.attempt,
           wrote |-> q.wrote, outcome |-> q.outcome, review |-> q.review,
           retro |-> q.retro, frac |-> q.frac]
  BY DEF PassInv, PassIs, IsPass
<1> HIDE DEF q
<1>5. \E m : pass'[w] =
        [step |-> to, job |-> q.job, attempt |-> m, wrote |-> q.wrote, outcome |-> x,
         review |-> q.review, retro |-> q.retro, frac |-> q.frac]
  BY <1>3, <1>4
<1>6. IsPass(pass'[w]) /\ pass'[w].step = to /\ pass'[w].job = q.job
      /\ pass'[w].outcome = x
  <2>1. ASSUME NEW p, \E m : p = [step |-> to, job |-> q.job, attempt |-> m, wrote |-> q.wrote,
                                outcome |-> x, review |-> q.review, retro |-> q.retro,
                                frac |-> q.frac]
        PROVE  IsPass(p) /\ p.step = to /\ p.job = q.job /\ p.outcome = x
    BY <2>1 DEF IsPass
  <2>. QED BY <1>5, <2>1
<1>. QED BY <1>2, <1>6 DEF q

LEMMA GotoKept ==
  ASSUME PassInv, Steady, NEW w \in Workers, NEW s, Goto(w, s),
         pass[w].step # "idle", s \notin {"retro", "review"}
  PROVE  PassInv'
<1>1. /\ OthersKept(w) /\ IsPass(pass'[w])
      /\ pass'[w].step = s /\ pass'[w].job = pass[w].job
  BY PassRecord DEF Goto
<1>2. pass[w].job \in Ids
  BY DEF PassInv, PassIs
<1>. QED BY <1>1, <1>2, PassKept

LEMMA GiveBackKept ==
  ASSUME PassInv, Steady, NEW w \in Workers, GiveBack(w)
  PROVE  PassInv'
<1>1. IsPass(Idle) /\ Idle.step = "idle"
  BY DEF Idle, IsPass
<1>2. OthersKept(w) /\ pass'[w] = Idle
  BY DEF GiveBack, PassInv, OthersKept
<1>. QED BY <1>1, <1>2, PassKept

\* The end of an episode: the row shows the outcome the handler carries on with.
LEMMA ConcludeStudy ==
  ASSUME JobsInv, PassInv, NEW w \in Workers, NEW to, NEW outcome, Conclude(w, to, outcome),
         pass[w].step # "idle", to = OverAs(outcome)
  PROVE  Steady /\ PassInv'
<1>0. PassIs(pass[w])
  BY DEF PassInv
<1>1. pass[w].job \in Ids
  BY <1>0 DEF PassIs
<1>2. Steady /\ jobs'[pass[w].job].status = to
  BY <1>1, HopIsSteady DEF Conclude
<1>3. pass' = [pass EXCEPT ![w].step = "retro", ![w].outcome = outcome]
  BY DEF Conclude
<1>4. /\ OthersKept(w) /\ IsPass(pass'[w]) /\ pass'[w].step = "retro"
      /\ pass'[w].job = pass[w].job /\ pass'[w].outcome = outcome
  BY <1>3, PassConcluded
<1>. QED BY <1>1, <1>2, <1>4, PassKept

\* What a handler enqueues about its episode is true of it.
LEMMA StudyIsFaithful ==
  ASSUME NEW p, PassIs(p), p.step \in {"retro", "review"}, NEW type, NEW path
  PROVE  /\ IsJob(Job(type, p.job, p.outcome)) /\ Faithful(Job(type, p.job, p.outcome))
         /\ IsJob([Job(type, p.job, p.outcome) EXCEPT !.path = path])
         /\ Faithful([Job(type, p.job, p.outcome) EXCEPT !.path = path])
<1>1. p.job \in Ids /\ jobs[p.job].status = OverAs(p.outcome)
  BY DEF PassIs
<1>2. /\ IsJob(Job(type, p.job, p.outcome))
      /\ Job(type, p.job, p.outcome).target = p.job
      /\ Job(type, p.job, p.outcome).outcome = p.outcome
  BY DEF Job, IsJob
<1>3. /\ IsJob([Job(type, p.job, p.outcome) EXCEPT !.path = path])
      /\ [Job(type, p.job, p.outcome) EXCEPT !.path = path].target = p.job
      /\ [Job(type, p.job, p.outcome) EXCEPT !.path = path].outcome = p.outcome
  BY DEF Job, IsJob
<1>. QED BY <1>1, <1>2, <1>3 DEF Faithful

LEMMA PostedIsFaithful ==
  ASSUME NEW type
  PROVE  IsJob(Job(type, 0, "none")) /\ Faithful(Job(type, 0, "none"))
BY DEF Job, IsJob, Faithful

LEMMA WorkStudy ==
  ASSUME JobsInv, PassInv, NEW w \in Workers, WorkStep(w)
  PROVE  Steady /\ PassInv'
<1> DEFINE q == pass[w]
<1>0. PassIs(q)
  BY DEF PassInv
<1>1. q.step # "idle" /\ q.job \in Ids
  <2>1. q.step \in {"exec", "submit", "verify", "approve", "merge", "reject", "again",
                    "give up", "retro", "review"}
    BY DEF WorkStep, Execute, Submit, Verify, Approve, Merge, Reject, Again, GiveUp,
           EnqueueRetro, EnqueueReview, AtStep
  <2>. QED BY <1>0, <2>1 DEF PassIs
<1>2. CASE Execute(w)
  <2>1. Steady /\ Ids' = Ids
    BY <1>2, UnchangedIsSteady DEF Execute
  <2>2. PICK x : pass' = [pass EXCEPT ![w].step = "submit", ![w].wrote = x]
    BY <1>2 DEF Execute
  <2>3. /\ OthersKept(w) /\ IsPass(pass'[w])
        /\ pass'[w].step = "submit" /\ pass'[w].job = q.job
    BY <2>2, PassRecord
  <2>. QED BY <1>1, <2>1, <2>3, PassKept
<1>3. CASE Submit(w)
  <2>1. Steady
    BY <1>1, <1>3, HopIsSteady DEF Submit
  <2>. QED BY <1>1, <1>3, <2>1, GotoKept DEF Submit
<1>4. CASE Verify(w)
  <2>1. Steady
    BY <1>4, UnchangedIsSteady DEF Verify
  <2>2. Goto(w, "approve") \/ Goto(w, "reject")
    BY <1>4 DEF Verify
  <2>. QED BY <1>1, <2>1, <2>2, GotoKept
<1>5. CASE Approve(w)
  <2>1. Steady
    BY <1>1, <1>5, HopIsSteady DEF Approve
  <2>. QED BY <1>1, <1>5, <2>1, GotoKept DEF Approve
<1>6. CASE Merge(w)
  BY <1>1, <1>6, ConcludeStudy DEF Merge, OverAs
<1>7. CASE GiveUp(w)
  BY <1>1, <1>7, ConcludeStudy DEF GiveUp, OverAs
<1>8. CASE Reject(w)
  <2>1. Steady
    BY <1>1, <1>8, HopIsSteady DEF Reject
  <2>2. Goto(w, "again") \/ Goto(w, "give up")
    BY <1>8 DEF Reject
  <2>. QED BY <1>1, <2>1, <2>2, GotoKept
<1>9. CASE Again(w)
  <2>1. Steady
    BY <1>1, <1>9, HopIsSteady DEF Again
  <2>2. PICK n : pass' = [pass EXCEPT ![w].step = "exec", ![w].attempt = n]
    BY <1>9 DEF Again
  <2>3. /\ OthersKept(w) /\ IsPass(pass'[w])
        /\ pass'[w].step = "exec" /\ pass'[w].job = q.job
    BY <2>2, PassRecord
  <2>. QED BY <1>1, <2>1, <2>3, PassKept
<1>10. CASE EnqueueRetro(w)
  <2>1. q.step = "retro"
    BY <1>10 DEF EnqueueRetro, AtStep
  <2>2. Enqueue(Job("retro", q.job, q.outcome)) \/ UNCHANGED jobs
    BY <1>10 DEF EnqueueRetro
  <2>3. Steady
    BY <1>0, <2>1, <2>2, StudyIsFaithful, InsertIsSteady, UnchangedIsSteady
  <2>4. /\ OthersKept(w) /\ IsPass(pass'[w])
        /\ pass'[w].job = q.job /\ pass'[w].outcome = q.outcome
    BY <1>10, PassRecord DEF EnqueueRetro, Goto
  <2>5. jobs'[q.job].status = OverAs(q.outcome)
    BY <1>0, <1>1, <2>1, <2>3, OverIsTerminal DEF PassIs, Steady, Terminated
  <2>. QED BY <1>1, <2>3, <2>4, <2>5, PassKept
<1>11. CASE EnqueueReview(w)
  <2>1. q.step = "review"
    BY <1>11 DEF EnqueueReview, AtStep
  <2>2. \/ Enqueue([Job("review", q.job, q.outcome) EXCEPT !.path = q.wrote])
        \/ UNCHANGED jobs
    BY <1>11 DEF EnqueueReview
  <2>3. Steady
    BY <1>0, <2>1, <2>2, StudyIsFaithful, InsertIsSteady, UnchangedIsSteady
  <2>. QED BY <1>11, <2>3, GiveBackKept DEF EnqueueReview
<1>. QED BY <1>2, <1>3, <1>4, <1>5, <1>6, <1>7, <1>8, <1>9, <1>10, <1>11 DEF WorkStep

LEMMA RoleStudy ==
  ASSUME JobsInv, PassInv, NEW w \in Workers, RoleStep(w) \/ PassDies(w)
  PROVE  Steady /\ PassInv'
<1>1. CASE Retro(w)
  <2>1. Enqueue(Job("curate", 0, "none")) \/ UNCHANGED jobs
    BY <1>1 DEF Retro
  <2>2. Steady
    BY <2>1, PostedIsFaithful, InsertIsSteady, UnchangedIsSteady
  <2>. QED BY <1>1, <2>2, GotoKept DEF Retro, AtStep
<1>2. CASE Review(w)
  BY <1>2, UnchangedIsSteady, GotoKept DEF Review, AtStep
<1>3. CASE Plan(w)
  <2>1. Steady
    BY <1>3, UnchangedIsSteady DEF Plan
  <2>2. Goto(w, "commission") \/ Goto(w, "finish")
    BY <1>3 DEF Plan
  <2>. QED BY <1>3, <2>1, <2>2, GotoKept DEF Plan, AtStep
<1>4. CASE Commission(w)
  <2>1. Steady
    BY <1>4, PostedIsFaithful, InsertIsSteady DEF Commission
  <2>. QED BY <1>4, <2>1, GotoKept DEF Commission, AtStep
<1>5. CASE Finish(w)
  <2> DEFINE i == pass[w].job
  <2>1. i \in Ids
    BY <1>5 DEF Finish, AtStep, PassInv, PassIs
  <2>2. PICK to : SetStatus(i, to) /\ (~Terminated(i) \/ to = jobs[i].status)
    BY <1>5 DEF Finish, Terminated, Terminal
  <2> HIDE DEF i
  <2>3. Steady
    BY <2>1, <2>2, HopIsSteady
  <2>. QED BY <1>5, <2>3, GiveBackKept DEF Finish
<1>6. CASE PassDies(w)
  BY <1>6, UnchangedIsSteady, GiveBackKept DEF PassDies
<1>. QED BY <1>1, <1>2, <1>3, <1>4, <1>5, <1>6 DEF RoleStep

LEMMA TakeStudy ==
  ASSUME JobsInv, PassInv, NEW w \in Workers, NEW i \in Ids, Take(w, i)
  PROVE  Steady /\ PassInv'
<1>1. Steady
  <2>1. jobs[i].status = "up_for_grabs" /\ jobs' = [jobs EXCEPT ![i].status = "in_progress"]
    BY DEF Take
  <2>. QED BY <2>1, RowIsSteady DEF Terminated, Terminal
<1> DEFINE frac == BudgetFraction(headroom)
           modes == ResolveModes(BaseReview, BaseRetro, RecentErrorRate, frac)
           p == IF jobs[i].type = "work"
                THEN [Idle EXCEPT !.step = "exec", !.job = i, !.attempt = 1, !.review = modes.review,
                                  !.retro = modes.retro, !.frac = frac]
                ELSE [Idle EXCEPT !.step = FirstStep(jobs[i].type), !.job = i]
<1> HIDE DEF frac, modes
<1>2. pass' = [pass EXCEPT ![w] = p]
  BY DEF Take, frac, modes
<1>3. \E s, a, r, e, f :
        /\ p = [step |-> s, job |-> i, attempt |-> a, wrote |-> FALSE, outcome |-> "none",
                review |-> r, retro |-> e, frac |-> f]
        /\ s \in {"exec", "plan", "retro run", "review run", "finish"}
  <2>1. FirstStep(jobs[i].type) \in {"exec", "plan", "retro run", "review run", "finish"}
    BY DEF FirstStep
  <2>2. CASE jobs[i].type = "work"
    <3>1. p = [step |-> "exec", job |-> i, attempt |-> 1, wrote |-> FALSE, outcome |-> "none",
               review |-> modes.review, retro |-> modes.retro, frac |-> frac]
      BY <2>2 DEF Idle
    <3>. QED BY <3>1
  <2>3. CASE jobs[i].type # "work"
    <3>1. p = [step |-> FirstStep(jobs[i].type), job |-> i, attempt |-> 0, wrote |-> FALSE,
               outcome |-> "none", review |-> BaseReview, retro |-> BaseRetro, frac |-> Unknown]
      BY <2>3 DEF Idle
    <3>. QED BY <2>1, <3>1
  <2>. QED BY <2>2, <2>3
<1> HIDE DEF p
<1>4. IsPass(p) /\ p.job = i /\ p.step \notin {"retro", "review"}
  <2>1. PICK s, a, r, e, f :
          /\ p = [step |-> s, job |-> i, attempt |-> a, wrote |-> FALSE, outcome |-> "none",
                  review |-> r, retro |-> e, frac |-> f]
          /\ s \in {"exec", "plan", "retro run", "review run", "finish"}
    BY <1>3
  <2>2. p.step = s /\ p.job = i /\ p.attempt = a /\ p.wrote = FALSE /\ p.outcome = "none"
        /\ p.review = r /\ p.retro = e /\ p.frac = f
    BY <2>1
  <2>3. IsPass(p)
    BY <2>1, <2>2 DEF IsPass
  <2>. QED BY <2>1, <2>2, <2>3
<1>5. OthersKept(w) /\ pass'[w] = p
  BY <1>2 DEF PassInv, OthersKept
<1>. QED BY <1>1, <1>4, <1>5, PassKept

LEMMA RekickStudy ==
  ASSUME JobsInv, PassInv, NEW i \in Ids, Rekick(i)
  PROVE  Steady /\ PassInv'
<1>1. jobs[i].status = "in_progress"
  BY DEF Rekick
<1>2. CASE jobs' = [jobs EXCEPT ![i].status = "up_for_grabs", ![i].retries = @ + 1]
  <2>1. PICK n : jobs' = [jobs EXCEPT ![i].status = "up_for_grabs", ![i].retries = n]
    BY <1>2
  <2>2. Steady
    BY <1>1, <2>1, RowIsSteady DEF Terminated, Terminal
  <2>. QED BY <2>2, PassesKept DEF Rekick
<1>3. CASE SetStatus(i, "abandoned")
  <2>1. Steady
    BY <1>1, <1>3, HopIsSteady DEF Terminated, Terminal
  <2>. QED BY <2>1, PassesKept DEF Rekick
<1>. QED BY <1>2, <1>3 DEF Rekick

LEMMA StudyStep == StudyInv /\ [GatewayNext]_gatewayVars => StudyInv'
<1> SUFFICES ASSUME StudyInv, [GatewayNext]_gatewayVars PROVE StudyInv'
  OBVIOUS
<1>0. JobsInv /\ PassInv /\ LookInv
  BY DEF StudyInv
<1>1. ASSUME Steady, PassInv', \A s \in Slots : inHand'[s] # Free /\ inHand'[s] # inHand[s]
                                 => inHand'[s].task \in Ids
      PROVE  StudyInv'
  <2>1. JobsInv'
    BY <1>0, <1>1, SteadyKeepsJobs
  <2>2. LookInv'
    BY <1>0, <1>1 DEF LookInv, Steady, Free
  <2>. QED BY <1>1, <2>1, <2>2 DEF StudyInv
<1>2. CASE HostNext
  <2>1. inHand' = inHand
    BY <1>2 DEF HostNext
  <2>2. ASSUME NEW w \in Workers, HostStep(w) PROVE Steady /\ PassInv'
    BY <1>0, <2>2, WorkStudy, RoleStudy DEF HostStep
  <2>3. ASSUME NEW w \in Workers, NEW i \in Ids, HostGrab(w, i) PROVE Steady /\ PassInv'
    BY <1>0, <2>3, TakeStudy DEF HostGrab
  <2>4. ASSUME NEW i \in Ids, HostRekick(i) PROVE Steady /\ PassInv'
    BY <1>0, <2>4, RekickStudy DEF HostRekick
  <2>5. ASSUME HostTime PROVE Steady /\ PassInv'
    <3>1. pass' = pass
      BY <2>5 DEF HostTime, Schedule, HourPasses
    <3>2. CASE Schedule
      BY <1>0, <3>1, <3>2, PostedIsFaithful, InsertIsSteady, PassesKept DEF Schedule
    <3>3. CASE HourPasses
      BY <1>0, <3>1, <3>3, UnchangedIsSteady, PassesKept DEF HourPasses
    <3>. QED BY <2>5, <3>2, <3>3 DEF HostTime
  <2>6. Steady /\ PassInv'
    BY <1>2, <2>2, <2>3, <2>4, <2>5 DEF HostNext
  <2>. QED BY <1>1, <2>1, <2>6
<1>3. CASE RemoteNext
  <2>1. ASSUME NEW t \in Tokens, NEW ws, NEW type, NEW pool, Post(t, ws, type, pool)
        PROVE  StudyInv'
    <3>1. Steady
      BY <1>0, <2>1, PostedIsFaithful, InsertIsSteady DEF Post
    <3>2. UNCHANGED <<pass, inHand>>
      BY <2>1 DEF Post
    <3>. QED BY <1>0, <1>1, <3>1, <3>2, PassesKept
  <2>2. ASSUME NEW t \in Tokens, NEW ws, NEW i \in Ids, Claim(t, ws, i) PROVE StudyInv'
    <3>1. jobs[i].status = "up_for_grabs" /\ jobs' = [jobs EXCEPT ![i].status = "in_progress"]
      BY <2>2 DEF Claim, Grabbable
    <3>2. Steady
      BY <1>0, <3>1, RowIsSteady DEF Terminated, Terminal
    <3>3. UNCHANGED <<pass, inHand>>
      BY <2>2 DEF Claim
    <3>. QED BY <1>0, <1>1, <3>2, <3>3, PassesKept
  <2>3. ASSUME NEW s \in Slots, NEW t \in Tokens, NEW i \in Ids, NEW outcome,
               BeginComplete(s, t, i, outcome)
        PROVE  StudyInv'
    <3>1. inHand' = [inHand EXCEPT ![s] = [task |-> i, outcome |-> outcome, by |-> Identity[t]]]
      BY <2>3 DEF BeginComplete
    <3>2. \A z \in Slots : inHand'[z] # inHand[z] => inHand'[z].task = i
      BY <3>1
    <3>3. UNCHANGED <<jobs, pass>>
      BY <2>3 DEF BeginComplete, vars
    <3>4. Steady
      BY <1>0, <3>3, UnchangedIsSteady
    <3>. QED BY <1>0, <1>1, <3>2, <3>3, <3>4, PassesKept
  <2>4. ASSUME NEW s \in Slots, EndComplete(s) PROVE StudyInv'
    <3> DEFINE i == inHand[s].task
               to == inHand[s].outcome
    <3>1. i \in Ids
      BY <1>0, <2>4 DEF EndComplete, LookInv
    <3>2. (SetStatus(i, to) /\ jobs[i].status = "in_progress") \/ UNCHANGED jobs
      BY <2>4 DEF EndComplete
    <3>3. inHand' = [inHand EXCEPT ![s] = Free] /\ UNCHANGED pass
      BY <2>4 DEF EndComplete
    <3>4. \A z \in Slots : inHand'[z] = inHand[z] \/ inHand'[z] = Free
      BY <3>3
    <3> HIDE DEF i, to
    <3>5. Steady
      BY <1>0, <3>1, <3>2, HopIsSteady, UnchangedIsSteady DEF Terminated, Terminal
    <3>. QED BY <1>0, <1>1, <3>3, <3>4, <3>5, PassesKept
  <2>5. ASSUME NEW s \in Slots, RequestDies(s) PROVE StudyInv'
    <3>1. UNCHANGED <<jobs, pass>> /\ inHand' = [inHand EXCEPT ![s] = Free]
      BY <2>5 DEF RequestDies, vars
    <3>2. \A z \in Slots : inHand'[z] = inHand[z] \/ inHand'[z] = Free
      BY <3>1
    <3>. QED BY <1>0, <1>1, <3>1, <3>2, UnchangedIsSteady, PassesKept
  <2>6. ASSUME NEW id, Revoke(id) PROVE StudyInv'
    <3>1. UNCHANGED <<jobs, pass, inHand>>
      BY <2>6 DEF Revoke
    <3>. QED BY <1>0, <1>1, <3>1, UnchangedIsSteady, PassesKept
  <2>. QED BY <1>3, <2>1, <2>2, <2>3, <2>4, <2>5, <2>6 DEF RemoteNext
<1>4. CASE UNCHANGED gatewayVars
  <2>1. UNCHANGED <<jobs, pass, inHand>>
    BY <1>4 DEF gatewayVars, vars, gateVars
  <2>. QED BY <1>0, <1>1, <2>1, UnchangedIsSteady, PassesKept
<1>. QED BY <1>2, <1>3, <1>4 DEF GatewayNext

LEMMA StudyInit == GatewayInit => StudyInv
<1> SUFFICES ASSUME GatewayInit PROVE StudyInv
  OBVIOUS
<1>1. Columns
  BY InitIInv DEF IInv
<1>2. PICK b \in Boards : jobs = [i \in DOMAIN b.types |-> Job(b.types[i], 0, "none")]
  BY DEF GatewayInit, Init
<1>3. \A i \in Ids : \E type : jobs[i] = Job(type, 0, "none")
  BY <1>2 DEF Ids
<1>4. JobsInv
  BY <1>1, <1>3, PostedIsFaithful DEF JobsInv, Columns
<1>5. PassInv
  <2>1. IsPass(Idle) /\ Idle.step = "idle"
    BY DEF Idle, IsPass
  <2>2. pass = [w \in Workers |-> Idle]
    BY DEF GatewayInit, Init
  <2>. QED BY <2>1, <2>2 DEF PassInv, PassIs
<1>6. LookInv
  BY DEF GatewayInit, LookInv
<1>. QED BY <1>4, <1>5, <1>6 DEF StudyInv

\* However passes die, stall and overtake each other, whatever remotes claim and
\* complete: a retro or a review studies the outcome its episode's row shows for ever
\* (_maybe_enqueue_retro, _maybe_enqueue_review run after the hop that ends it).
THEOREM StudiesAreFaithful == GatewaySpec => []FollowsTheOutcome
<1>1. StudyInv => FollowsTheOutcome
  <2> SUFFICES ASSUME StudyInv, NEW i \in Ids, NEW j \in FollowUps(i)
               PROVE  jobs[i].status = (IF jobs[j].outcome = "done" THEN "merged" ELSE "abandoned")
    BY DEF FollowsTheOutcome
  <2>1. j \in Ids /\ jobs[j].type \in {"retro", "review"} /\ jobs[j].target = i
    BY DEF FollowUps
  <2>2. i # 0
    BY AppendToTable DEF StudyInv, JobsInv, Ids
  <2>. QED BY <2>1, <2>2 DEF StudyInv, JobsInv, Faithful, OverAs
<1>. QED BY <1>1, StudyInit, StudyStep, PTL DEF GatewaySpec

=============================================================================
