----------------------------- MODULE BudgetGate -----------------------------
(***************************************************************************)
(* The spend gate of runtime/budget.py in the model-call path of           *)
(* runtime/model/call.py.  A call reserves its estimate on every cap that  *)
(* governs it under the row locks of enforce, runs the provider, records   *)
(* its real cost as a model.call event and then releases the reservation;  *)
(* spend is never stored but read from the events.  Calls of all workers   *)
(* run at the same time, operators set caps, and a call over a cap asks    *)
(* the human to raise it through the approvals table.                      *)
(*                                                                         *)
(* One resource stands for both dollars and tokens, whose columns and      *)
(* predicates are alike.                                                   *)
(***************************************************************************)
EXTENDS Integers, FiniteSets

CONSTANTS
  Caps,        \* the rows of budgets: (workstream or org, period)
  OrgCaps,     \* those of the org ceiling
  Calls,       \* calls of call_model, each with its arguments:
  Governs,     \*   Governs[c]: the caps of its workstream and of the org
  Normal,      \*   the calls whose purpose is normal (others may use the reserve)
  Est,         \*   Est[c]: estimate against the routed model
  FallbackEst, \*   FallbackEst[c]: estimate against the fallback model
  Overrun,     \* by how much a call may cost more than its estimate
  NoCap, NoRaise, NoRow,
  InitCap,     \* InitCap[r]: the ceiling at the start, or NoCap
  NewCaps,     \* NewCaps[r]: the ceilings an operator may give r later
  ReservePct,  \* reserve_frac in percent (100: no reserve zone)
  MaxCap,      \* bound: the highest ceiling a raise may reach
  MaxRows,     \* bound: approval rows
  FaultKinds,  \* the disturbances of an instance, of death, emit fails, window rolls
  MaxFaults    \* bound: how many of them

ASSUME BudgetAssumption ==
  /\ IsFiniteSet(Calls)
  /\ OrgCaps \subseteq Caps
  /\ Governs \in [Calls -> SUBSET Caps]
  /\ Normal \subseteq Calls
  /\ Est \in [Calls -> Nat] /\ FallbackEst \in [Calls -> Nat]
  /\ Overrun \in Nat
  /\ NoCap \notin Nat
  /\ InitCap \in [Caps -> Nat \cup {NoCap}]
  /\ NewCaps \in [Caps -> SUBSET Nat]
  /\ ReservePct \in 1..100
  /\ MaxCap \in Nat /\ MaxFaults \in Nat
  /\ FaultKinds \subseteq {"death", "emit fails", "window rolls"}

VARIABLES
  cap,        \* cap_usd / cap_tokens, or NoCap: no row, or a tracking-only one
  reserved,   \* reserved_usd / reserved_tokens
  spent,      \* the sum of the model.call events in the cap's window
  pc, hold,   \* per call: next step, reservations it will release
  blockedBy,  \* the cap an over-cap call asks the human to raise
  raise, nextRaise,  \* the approvals table
  applied,    \* approved raises the operator has turned into a set_budget
  took,       \* history: the caps that took each of the call's reservations
  normal,     \* history: what normal calls have spent under each cap
  faults

Approve == INSTANCE Approvals WITH Acts <- Caps, NoAct <- NoRaise,
                                 row <- raise, next <- nextRaise

moneyVars == <<cap, reserved, spent>>
callVars == <<pc, hold, blockedBy>>
askVars == <<raise, nextRaise, applied>>
history == <<took, normal>>
budgetVars == <<moneyVars, callVars, askVars, history, faults>>

Attempts == {"first", "fallback"}
NoHold == [a \in Attempts |-> 0]
Steps == {"gate", "report", "provider", "emit", "regate", "reportAgain",
          "retry", "emitAgain", "request", "insert", "release", "done", "dead"}

BudgetTypeOK ==
  /\ Approve!StoreType
  /\ cap \in [Caps -> Nat \cup {NoCap}]
  /\ reserved \in [Caps -> Nat]
  /\ spent \in [Caps -> Nat]
  /\ pc \in [Calls -> Steps]
  /\ hold \in [Calls -> [Attempts -> Nat]]
  /\ blockedBy \in [Calls -> Caps \cup {NoRow}]
  /\ applied \subseteq Approve!Ids
  /\ took \in [Calls -> [Attempts -> SUBSET Caps]]
  /\ normal \in [Caps -> Nat]
  /\ faults \in 0..MaxFaults

BudgetInit ==
  /\ Approve!StoreInit
  /\ cap = InitCap
  /\ reserved = [r \in Caps |-> 0]
  /\ spent = [r \in Caps |-> 0]
  /\ pc = [c \in Calls |-> "gate"]
  /\ hold = [c \in Calls |-> NoHold]
  /\ blockedBy = [c \in Calls |-> NoRow]
  /\ applied = {}
  /\ took = [c \in Calls |-> [a \in Attempts |-> {}]]
  /\ normal = [r \in Caps |-> 0]
  /\ faults = 0

-----------------------------------------------------------------------------
(* The verdict                                                             *)

Goto(c, p) == pc' = [pc EXCEPT ![c] = p]
Fault(kind) == kind \in FaultKinds /\ faults < MaxFaults /\ faults' = faults + 1

\* The caps that can stop call c.
Enforced(c) == {r \in Governs[c] : cap[r] # NoCap}

\* BudgetStatus.context: accrued spend, everybody's cushion, and this estimate.
ProjectedAlone(r, est) == spent[r] + est
Projected(r, est) == spent[r] + reserved[r] + est

\* BudgetStatus.zone
Over(r, est) == Projected(r, est) > cap[r]
InReserve(r, est) ==
  /\ ~Over(r, est)
  /\ ReservePct < 100 /\ cap[r] > 0
  /\ Projected(r, est) * 100 >= ReservePct * cap[r]

\* The cap that blocks: the workstream's own before the org's (of several periods,
\* either).
Blocks(c, r, est) ==
  /\ r \in Enforced(c) /\ Over(r, est)
  /\ r \in OrgCaps => \A q \in Enforced(c) \ OrgCaps : ~Over(q, est)

Admitted(c, est) ==
  /\ \A r \in Enforced(c) : ~Over(r, est)
  /\ c \in Normal => \A r \in Enforced(c) : ~InReserve(r, est)

Add(f, R, n) == [r \in Caps |-> IF r \in R THEN f[r] + n ELSE f[r]]

\* GREATEST(reserved - est, 0), on every row of the workstream and the org.
Floor(n) == IF n < 0 THEN 0 ELSE n
ClearCushion(c, est) == [r \in Caps |-> IF r \in Governs[c] THEN 0 ELSE reserved[r]]
ReleaseOwnOnly(c, est) ==
  [r \in Caps |-> IF r \in Governs[c] \ OrgCaps THEN Floor(reserved[r] - est) ELSE reserved[r]]
Released(c, est) ==
  [r \in Caps |-> IF r \in Governs[c] THEN Floor(reserved[r] - est) ELSE reserved[r]]

-----------------------------------------------------------------------------
(* enforce and call_model                                                  *)

\* Where the call goes on once enforce has reported.
Reported == [report |-> "provider", reportAgain |-> "retry"]

\* enforce, phase 1: lock, decide and reserve in one transaction.  Over a cap it
\* raises after phase 2; in the reserve zone a normal call is withheld.
Gate(c, from, attempt, est, admitted) ==
  /\ pc[c] = from
  /\ \/ /\ Admitted(c, est)
        /\ reserved' = Add(reserved, Enforced(c), est)
        /\ took' = [took EXCEPT ![c][attempt] = Enforced(c)]
        \* call_model records the reservation even when no cap took it
        /\ hold' = [hold EXCEPT ![c][attempt] = est]
        /\ Goto(c, IF Enforced(c) = {} THEN Reported[admitted] ELSE admitted)
        /\ UNCHANGED blockedBy
     \/ \E r \in Caps : /\ Blocks(c, r, est)
                        /\ blockedBy' = [blockedBy EXCEPT ![c] = r]
                        /\ Goto(c, "request")
                        /\ UNCHANGED <<reserved, took, hold>>
     \/ /\ \A r \in Enforced(c) : ~Over(r, est)
        /\ ~Admitted(c, est)
        /\ Goto(c, "release")
        /\ UNCHANGED <<reserved, took, hold, blockedBy>>
  /\ UNCHANGED <<cap, spent, askVars, normal, faults>>

Enforce(c) == Gate(c, "gate", "first", Est[c], "report")
EnforceFallback(c) == Gate(c, "regate", "fallback", FallbackEst[c], "reportAgain")

\* enforce, phase 2: the zone events; if an emit fails the reservation just made
\* is released before the error reaches call_model, which releases the others.
ReportZone(c, from, attempt) ==
  /\ pc[c] = from
  /\ \/ /\ Goto(c, Reported[from])
        /\ UNCHANGED <<moneyVars, hold, faults>>
     \/ /\ Fault("emit fails")
        /\ Goto(c, "release")
        /\ hold' = [hold EXCEPT ![c][attempt] = 0]
        /\ reserved' = Released(c, hold[c][attempt])
        /\ UNCHANGED <<cap, spent>>
  /\ UNCHANGED <<blockedBy, askVars, history>>

ReportFirst(c) == ReportZone(c, "report", "first")
ReportFallback(c) == ReportZone(c, "reportAgain", "fallback")

\* provider.complete: it answers, asks for the fallback, or dies.
Complete(c) ==
  /\ pc[c] = "provider"
  /\ \E p \in {"emit", "regate", "release"} : Goto(c, p)
  /\ UNCHANGED <<moneyVars, hold, blockedBy, askVars, history, faults>>

CompleteFallback(c) ==
  /\ pc[c] = "retry"
  /\ \E p \in {"emitAgain", "release"} : Goto(c, p)
  /\ UNCHANGED <<moneyVars, hold, blockedBy, askVars, history, faults>>

\* The model.call event: from here on the cost is accrued spend.  When it
\* cannot be written the money is spent and nowhere counted.
Emit(c) ==
  /\ pc[c] \in {"emit", "emitAgain"}
  /\ \/ \E cost \in 0..((IF pc[c] = "emit" THEN Est[c] ELSE FallbackEst[c]) + Overrun) :
          /\ spent' = Add(spent, Governs[c], cost)
          /\ normal' = IF c \in Normal THEN Add(normal, Governs[c], cost) ELSE normal
          /\ UNCHANGED faults
     \/ Fault("emit fails") /\ UNCHANGED <<spent, normal>>
  /\ Goto(c, "release")
  /\ UNCHANGED <<cap, reserved, hold, blockedBy, askVars, took>>

\* The finally block: one release_reservation, a transaction each, in order.
Release(c) ==
  /\ pc[c] = "release"
  /\ \/ \E a \in Attempts : /\ hold[c][a] # 0
                            /\ a = "fallback" => hold[c]["first"] = 0
                            /\ reserved' = Released(c, hold[c][a])
                            /\ hold' = [hold EXCEPT ![c][a] = 0]
                            /\ UNCHANGED pc
     \/ hold[c] = NoHold /\ Goto(c, "done") /\ UNCHANGED <<reserved, hold>>
  /\ UNCHANGED <<cap, spent, blockedBy, askVars, history, faults>>

\* Over a cap: budget.exceeded, request_approval for raising the cap, OverBudget.
Request(c) ==
  /\ pc[c] = "request"
  /\ \/ Approve!RowsOf(blockedBy[c], Approve!Reusable) # {} /\ Goto(c, "release") /\ UNCHANGED faults
     \/ Approve!RowsOf(blockedBy[c], Approve!Reusable) = {} /\ Goto(c, "insert") /\ UNCHANGED faults
     \/ Fault("emit fails") /\ Goto(c, "release")
  /\ UNCHANGED <<moneyVars, hold, blockedBy, askVars, history>>

Insert(c) ==
  /\ pc[c] = "insert"
  /\ Approve!InsertPending(blockedBy[c])
  /\ Goto(c, "release")
  /\ UNCHANGED <<moneyVars, hold, blockedBy, applied, history, faults>>

\* The worker process dies: the finally block does not run.
Die(c) ==
  /\ pc[c] \notin {"gate", "done", "dead"}
  /\ Fault("death")
  /\ Goto(c, "dead")
  /\ UNCHANGED <<moneyVars, hold, blockedBy, askVars, history>>

-----------------------------------------------------------------------------
(* Humans, operators and the calendar                                      *)

ResolveRaise(i) ==
  /\ \E v \in {"approved", "denied"} : Approve!ResolveAs(i, v)
  /\ UNCHANGED <<moneyVars, callVars, applied, history, faults>>

\* The operator carries out an approved raise with set_budget.
Raise(i) ==
  /\ raise[i].status = "approved" /\ i \notin applied
  /\ cap[raise[i].act] < MaxCap
  /\ cap' = [cap EXCEPT ![raise[i].act] = @ + 1]
  /\ applied' = applied \cup {i}
  /\ UNCHANGED <<reserved, spent, callVars, raise, nextRaise, history, faults>>

\* set_budget while calls are in flight.
SetBudget(r) ==
  /\ \E v \in NewCaps[r] : v # cap[r] /\ cap' = [cap EXCEPT ![r] = v]
  /\ UNCHANGED <<reserved, spent, callVars, askVars, history, faults>>

\* Midnight, the first of the month: the window of a cap starts again.
WindowRolls(r) ==
  /\ spent[r] # 0
  /\ Fault("window rolls")
  /\ spent' = [spent EXCEPT ![r] = 0]
  /\ normal' = [normal EXCEPT ![r] = 0]
  /\ UNCHANGED <<cap, reserved, callVars, askVars, took>>

-----------------------------------------------------------------------------
CallStep(c) ==
  \/ Enforce(c) \/ ReportFirst(c) \/ Complete(c) \/ EnforceFallback(c)
  \/ ReportFallback(c) \/ CompleteFallback(c) \/ Emit(c) \/ Release(c)
  \/ Request(c) \/ Insert(c)

BudgetNext ==
  \/ \E c \in Calls : CallStep(c) \/ Die(c)
  \/ \E i \in Approve!Ids : ResolveRaise(i) \/ Raise(i)
  \/ \E r \in Caps : SetBudget(r) \/ WindowRolls(r)

BudgetSpec == BudgetInit /\ [][BudgetNext]_budgetVars

\* A worker that has started a call goes on with it.
BudgetFairSpec == BudgetSpec /\ \A c \in Calls : WF_budgetVars(CallStep(c))

-----------------------------------------------------------------------------
(* Properties                                                              *)

\* Reservations as a set with an element for each unit of money, so that a sum of
\* reservations is a cardinality.  A reservation is a call and its attempt.
Units(h, x) == {<<x[1], x[2], n>> : n \in 1..h[x[1]][x[2]]}
UnitsOf(h, X) == UNION {Units(h, x) : x \in X}
Total(h, X) == Cardinality(UnitsOf(h, X))

\* The reservations cap r took; those of them whose call has neither landed its cost nor
\* given up are what may still be added to the spend of r.
Taken(r) == {x \in Calls \X Attempts : r \in took[x[1]][x[2]]}
Owing(r) == {x \in Taken(r) : pc[x[1]] \notin {"release", "done", "dead"}}
Owed(r) == Total(hold, Owing(r))

\* The caps that held before the first call; of the others nothing is promised to
\* the calls already running.
Settled == {r \in Caps : InitCap[r] # NoCap}

\* Concurrent calls cannot together break a cap: what has been spent and what
\* admitted calls may still cost stay within it (costs within the estimates, caps
\* only raised).  enforce checks and reserves under the row locks.
CapHolds == \A r \in Settled : spent[r] + Owed(r) <= cap[r]

\* The cushion other calls are gated on always covers every admitted call whose
\* cost has not landed, whoever releases, fails or dies meanwhile.
CushionCovers == \A r \in Settled : reserved[r] >= Owed(r)

\* The buffer near a cap is kept for winding down: what normal calls have spent
\* stays below the reserve line, however many of them ran at once.
ReserveIsKept == \A r \in Settled : normal[r] # 0 => normal[r] * 100 < ReservePct * cap[r]

\* Every reservation is returned in the end, after fallbacks, overruns, failed
\* emits and caps that were set while a call was running: a leaked one would
\* shrink the cap for good.
SomebodyDied == \E c \in Calls : pc[c] = "dead"
CushionIsReturned == <>[](SomebodyDied \/ \A r \in Caps : reserved[r] = 0)

\* What a migration comment says of it, deaths included.
CapNeverShrinks ==
  (\A c \in Calls : pc[c] \in {"gate", "done", "dead"}) => \A r \in Caps : reserved[r] = 0

\* A call that ends blocked on a cap that still stops it has left the human a
\* question: a pending request for the cap, or a granted one the operator has still
\* to carry out (enforce raises the approval before it raises OverBudget).
IsAsked(r) ==
  \E i \in Approve!RowsOf(r, Approve!Open) : raise[i].status = "approved" => i \notin applied
BlockedIsAsked ==
  [][\A c \in Calls :
       pc[c] \in {"request", "insert"} /\ pc'[c] = "release" /\ Over(blockedBy[c], Est[c])
         => IsAsked(blockedBy[c])']_budgetVars

=============================================================================
