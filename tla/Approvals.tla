----------------------------- MODULE Approvals -----------------------------
(***************************************************************************)
(* The approvals table of runtime/approvals.py, the store every gated      *)
(* action shares: one row per request a human is asked to decide.  A row   *)
(* binds one action (the fingerprint of task, tool, capabilities,          *)
(* workstream and arguments) and is never deleted.  Each action below is   *)
(* one transaction; a client composes them, and whatever happens between   *)
(* two of them is visible to the second (READ COMMITTED).                  *)
(***************************************************************************)
EXTENDS Integers, FiniteSets

CONSTANTS
  Acts,      \* fingerprints
  NoAct,     \* the fingerprint of a row that has not been inserted
  MaxRows    \* bound: rows ever inserted

ASSUME ApprovalsAssumption == NoAct \notin Acts /\ MaxRows \in Nat

VARIABLES
  row,       \* row[i]: the action and status of the i-th row inserted
  next       \* the id the next row gets

storeVars == <<row, next>>

Ids == 1..MaxRows
Open == {"pending", "approved"}
RowStatuses == {"absent", "denied", "consumed"} \cup Open

StoreType ==
  /\ row \in [Ids -> [act : Acts \cup {NoAct}, status : RowStatuses]]
  /\ next \in 1..(MaxRows + 1)

StoreInit ==
  /\ row = [i \in Ids |-> [act |-> NoAct, status |-> "absent"]]
  /\ next = 1

\* The rows of action a in one of the statuses S.
RowsOf(a, S) == {i \in Ids : row[i].act = a /\ row[i].status \in S}

\* request_approval, its SELECT: a request joins the oldest row of these statuses.
ReusablePending == {"pending"}
Reusable == {"pending", "approved"}
OldestUnspent(a, i) ==
  LET R == RowsOf(a, Open \cup {"consumed"}) IN i \in R /\ \A j \in R : i <= j
OldestOpen(a, i) == i \in RowsOf(a, Reusable) /\ \A j \in RowsOf(a, Reusable) : i <= j

\* find_grant: a granted row not yet consumed.
IsGrantFor(a, i) == i \in RowsOf(a, {"approved"})

\* request_approval, its INSERT.
InsertPending(a) ==
  /\ next \in Ids
  /\ row' = [row EXCEPT ![next] = [act |-> a, status |-> "pending"]]
  /\ next' = next + 1

\* resolve_approval, guarded to pending.
Undecided(i) == row[i].status = "pending"
ResolveAs(i, v) ==
  /\ Undecided(i)
  /\ row' = [row EXCEPT ![i].status = v]
  /\ UNCHANGED next

\* consume_grant, guarded to approved; elsewhere it matches nothing.
ConsumableOnce(i) == row[i].status \in {"approved", "consumed"}
Consumable(i) == row[i].status = "approved"
ConsumeUnmarked(i) == Consumable(i) /\ UNCHANGED <<row, next>>
Consume(i) ==
  /\ Consumable(i)
  /\ row' = [row EXCEPT ![i].status = "consumed"]
  /\ UNCHANGED next

=============================================================================
