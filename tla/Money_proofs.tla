---------------------------- MODULE Money_proofs ----------------------------
(***************************************************************************)
(* Theorems about what money is staked on: the spend gate (BudgetGate) and *)
(* the bets (Experiments).                                                 *)
(*                                                                         *)
(* The spend gate, for any set of caps and any finite set of concurrent    *)
(* calls: what is reserved on a cap is to the unit what calls hold there,  *)
(* so the cushion covers every admitted call and the cap holds.            *)
(*                                                                         *)
(* The bets, for any callers, telemetry, bets and bounds: a verdict is     *)
(* final, a bet that is kept or scaled earned it by what had been observed *)
(* and spent, and more budget is asked for once, for a scaled one.         *)
(***************************************************************************)
EXTENDS Experiments, BudgetGate, TLAPS, FiniteSetTheorems, FunctionTheorems,
        SequenceTheorems

-----------------------------------------------------------------------------
Reservations == Calls \X Attempts
Amounts == [Calls -> [Attempts -> Nat]]

LEMMA FiniteReservations == IsFiniteSet(Reservations)
<1>1. IsFiniteSet({"first"}) /\ IsFiniteSet({"first"} \cup {"fallback"})
  BY FS_Singleton, FS_AddElement
<1>2. IsFiniteSet(Attempts)
  <2>1. Attempts = {"first"} \cup {"fallback"}
    BY DEF Attempts
  <2>. QED BY <1>1, <2>1
<1>3. IsFiniteSet(Calls)
  BY BudgetAssumption
<1>4. IsFiniteSet(Calls \X Attempts)
  BY <1>2, <1>3, FS_Product
<1>. QED BY <1>4 DEF Reservations

LEMMA UnitsCount ==
  ASSUME NEW h \in Amounts, NEW x \in Reservations
  PROVE  /\ IsFiniteSet(Units(h, x))
         /\ Cardinality(Units(h, x)) = h[x[1]][x[2]]
<1> DEFINE k == h[x[1]][x[2]]
<1> DEFINE f == [n \in 1..k |-> <<x[1], x[2], n>>]
<1>1. k \in Nat
  BY DEF Amounts, Reservations
<1>2. f \in [1..k -> Units(h, x)]
  BY DEF Units
<1>3. \A m, n \in 1..k : f[m] = f[n] => m = n
  OBVIOUS
<1>4. \A u \in Units(h, x) : \E n \in 1..k : f[n] = u
  BY DEF Units
<1>5. ExistsBijection(1..k, Units(h, x))
  <2> HIDE DEF f, k
  <2>1. f \in Bijection(1..k, Units(h, x))
    BY <1>2, <1>3, <1>4, Fun_IsBij
  <2>. QED BY <2>1 DEF ExistsBijection
<1>6. IsFiniteSet(1..k) /\ Cardinality(1..k) = k
  <2>1. 0 \in Int /\ 1 \in Int /\ k \in Int
    BY <1>1
  <2> HIDE DEF k
  <2>. QED BY <1>1, <2>1, FS_Interval
<1> HIDE DEF k
<1>7. IsFiniteSet(Units(h, x)) /\ Cardinality(Units(h, x)) = k
  BY <1>5, <1>6, FS_Bijection
<1>. QED BY <1>7 DEF k

LEMMA UnitsFinite ==
  ASSUME NEW h \in Amounts, NEW X \in SUBSET Reservations
  PROVE  IsFiniteSet(UnitsOf(h, X))
<1> DEFINE f == [x \in X |-> Units(h, x)]
<1> DEFINE S == {Units(h, x) : x \in X}
<1>1. IsFiniteSet(X)
  BY FiniteReservations, FS_Subset
<1>2. f \in Surjection(X, S)
  BY Fun_IsSurj
<1>3. IsFiniteSet(S)
  <2> HIDE DEF f, S
  <2>. QED BY <1>1, <1>2, FS_Surjection
<1>4. \A T \in S : IsFiniteSet(T)
  BY UnitsCount
<1>5. IsFiniteSet(UNION S)
  <2> HIDE DEF S
  <2>. QED BY <1>3, <1>4, FS_UNION
<1>. QED BY <1>5 DEF UnitsOf

LEMMA TotalOfLess ==
  ASSUME NEW h \in Amounts, NEW X \in SUBSET Reservations, NEW Y \in SUBSET X
  PROVE  /\ Total(h, X) \in Nat
         /\ Total(h, Y) \in Nat
         /\ Total(h, Y) <= Total(h, X)
<1>1. UnitsOf(h, Y) \in SUBSET UnitsOf(h, X)
  BY DEF UnitsOf
<1>2. IsFiniteSet(UnitsOf(h, X)) /\ IsFiniteSet(UnitsOf(h, Y))
  BY UnitsFinite
<1>. QED
  BY <1>1, <1>2, FS_Subset, FS_CardinalityType DEF Total

LEMMA TotalSplits ==
  ASSUME NEW h \in Amounts, NEW X \in SUBSET Reservations, NEW x \in X
  PROVE  Total(h, X) = Total(h, X \ {x}) + h[x[1]][x[2]]
<1> DEFINE A == UnitsOf(h, X \ {x})
<1> DEFINE B == Units(h, x)
<1>1. IsFiniteSet(A) /\ IsFiniteSet(B) /\ Cardinality(B) = h[x[1]][x[2]]
  BY UnitsFinite, UnitsCount
<1>2. UnitsOf(h, X) = A \cup B
  BY DEF UnitsOf
<1>3. A \cap B = {}
  <2> SUFFICES ASSUME NEW u, u \in A, u \in B PROVE FALSE
    OBVIOUS
  <2>1. u[1] = x[1] /\ u[2] = x[2]
    BY DEF Units
  <2>2. PICK y \in X \ {x} : u \in Units(h, y)
    BY DEF UnitsOf
  <2>3. u[1] = y[1] /\ u[2] = y[2]
    BY <2>2 DEF Units
  <2>4. \A z \in X : z = <<z[1], z[2]>>
    BY DEF Reservations
  <2>. QED BY <2>1, <2>2, <2>3, <2>4
<1>4. Cardinality(A) \in Nat /\ Cardinality(B) \in Nat
  BY <1>1, FS_CardinalityType
<1> HIDE DEF A, B
<1>5. Cardinality(A \cup B) = Cardinality(A) + Cardinality(B)
  <2>1. Cardinality(A \cap B) = 0
    BY <1>3, FS_EmptySet
  <2>2. Cardinality(A \cup B) = Cardinality(A) + Cardinality(B) - Cardinality(A \cap B)
    BY <1>1, FS_Union
  <2>. QED BY <1>4, <2>1, <2>2
<1>. QED BY <1>1, <1>2, <1>5 DEF A, B, Total

LEMMA TotalAgrees ==
  ASSUME NEW h, NEW g, NEW X,
         \A x \in X : g[x[1]][x[2]] = h[x[1]][x[2]]
  PROVE  Total(g, X) = Total(h, X)
<1>1. \A x \in X : Units(g, x) = Units(h, x)
  BY DEF Units
<1>2. UnitsOf(g, X) = UnitsOf(h, X)
  BY <1>1 DEF UnitsOf
<1>. QED BY <1>2 DEF Total

LEMMA TotalOfNone ==
  ASSUME NEW h, NEW X, \A x \in X : h[x[1]][x[2]] = 0
  PROVE  Total(h, X) = 0
<1>1. \A x \in X : Units(h, x) = {}
  BY DEF Units
<1>2. UnitsOf(h, X) = {}
  BY <1>1 DEF UnitsOf
<1>. QED BY <1>2, FS_EmptySet DEF Total

\* The part of reservation x in the total.
Part(h, X, x) == IF x \in X THEN h[x[1]][x[2]] ELSE 0

\* Amounts h on X and g on Y are the same but for x.
SameBut(h, g, X, Y, x) ==
  X \ {x} = Y \ {x} /\ \A y \in X \ {x} : g[y[1]][y[2]] = h[y[1]][y[2]]

LEMMA TotalChanges ==
  ASSUME NEW h \in Amounts, NEW g \in Amounts,
         NEW X \in SUBSET Reservations, NEW Y \in SUBSET Reservations,
         NEW x \in Reservations, SameBut(h, g, X, Y, x)
  PROVE  Total(g, Y) - Part(g, Y, x) = Total(h, X) - Part(h, X, x)
<1> DEFINE Rest == X \ {x}
<1>0. Rest = Y \ {x} /\ \A y \in Rest : g[y[1]][y[2]] = h[y[1]][y[2]]
  BY DEF SameBut
<1>1. Total(g, Rest) = Total(h, Rest)
  BY <1>0, TotalAgrees
<1>2. Total(h, Rest) \in Nat /\ Total(g, Rest) \in Nat
  BY TotalOfLess
<1>3. Total(h, X) = Total(h, Rest) + (IF x \in X THEN h[x[1]][x[2]] ELSE 0)
  <2>1. CASE x \in X
    BY <2>1, TotalSplits
  <2>2. CASE x \notin X
    <3>1. Rest = X
      BY <2>2
    <3> HIDE DEF Rest
    <3>. QED BY <2>2, <3>1, <1>2
  <2>. QED BY <2>1, <2>2
<1>4. Total(g, Y) = Total(g, Rest) + (IF x \in Y THEN g[x[1]][x[2]] ELSE 0)
  <2>1. CASE x \in Y
    BY <1>0, <2>1, TotalSplits
  <2>2. CASE x \notin Y
    <3>1. Rest = Y
      BY <1>0, <2>2
    <3> HIDE DEF Rest
    <3>. QED BY <2>2, <3>1, <1>2
  <2>. QED BY <2>1, <2>2
<1>5. g[x[1]][x[2]] \in Nat /\ h[x[1]][x[2]] \in Nat
  BY DEF Amounts, Reservations
<1> HIDE DEF Rest
<1>. QED BY <1>1, <1>2, <1>3, <1>4, <1>5 DEF Part

-----------------------------------------------------------------------------
Takers == [Calls -> [Attempts -> SUBSET Caps]]
MoneyType ==
  /\ DOMAIN cap = Caps /\ \A r \in Settled : cap[r] \in Nat
  /\ reserved \in [Caps -> Nat] /\ spent \in [Caps -> Nat]
  /\ pc \in [Calls -> Steps] /\ hold \in Amounts /\ took \in Takers

\* What a call holds at step p ...
HoldsAt(c, p) ==
  /\ p = "gate" => hold[c]["first"] = 0
  /\ p \in {"gate", "report", "provider", "emit", "regate"} => hold[c]["fallback"] = 0
  /\ p \in {"report", "provider", "emit"} => hold[c]["first"] = Est[c]
  /\ p \in {"reportAgain", "retry", "emitAgain"} => hold[c]["fallback"] = FallbackEst[c]
\* ... and that every cap that governs it, and no other, took it.
TookAll(c) ==
  \A a \in Attempts, r \in Settled :
    hold[c][a] # 0 => (r \in took[c][a] <=> r \in Governs[c])
HoldInv == \A c \in Calls : HoldsAt(c, pc[c]) /\ TookAll(c)

LEMMA ReportedTo == Reported["report"] = "provider" /\ Reported["reportAgain"] = "retry"
BY DEF Reported

LEMMA BudgetInitTyped == BudgetInit => MoneyType /\ HoldInv
<1> SUFFICES ASSUME BudgetInit PROVE MoneyType /\ HoldInv
  OBVIOUS
<1>1. /\ cap = InitCap /\ reserved = [r \in Caps |-> 0] /\ spent = [r \in Caps |-> 0]
      /\ pc = [c \in Calls |-> "gate"] /\ hold = [c \in Calls |-> NoHold]
      /\ took = [c \in Calls |-> [a \in Attempts |-> {}]]
  BY DEF BudgetInit
<1>2. DOMAIN cap = Caps /\ \A r \in Settled : cap[r] \in Nat
  BY <1>1, BudgetAssumption DEF Settled
<1>3. reserved \in [Caps -> Nat] /\ spent \in [Caps -> Nat]
  BY <1>1
<1>4. pc \in [Calls -> Steps] /\ hold \in Amounts
  BY <1>1 DEF Steps, Amounts, NoHold
<1>5. took \in Takers
  BY <1>1 DEF Takers
<1>6. \A c \in Calls : hold[c]["first"] = 0 /\ hold[c]["fallback"] = 0 /\ pc[c] = "gate"
  BY <1>1 DEF NoHold, Attempts
<1>7. HoldInv
  BY <1>6 DEF HoldInv, HoldsAt, TookAll, Attempts
<1>. QED BY <1>2, <1>3, <1>4, <1>5, <1>7 DEF MoneyType

LEMMA MoveTyped ==
  ASSUME HoldInv, NEW c \in Calls, pc \in [Calls -> Steps],
         NEW p \in Steps, Goto(c, p), HoldsAt(c, p), UNCHANGED <<hold, took>>
  PROVE  pc' \in [Calls -> Steps] /\ HoldInv'
<1>1. pc' \in [Calls -> Steps] /\ pc'[c] = p /\ \A d \in Calls : d # c => pc'[d] = pc[d]
  BY DEF Goto
<1>2. ASSUME NEW d \in Calls PROVE HoldsAt(d, pc[d])' /\ TookAll(d)'
  <2>1. TookAll(d)'
    BY DEF HoldInv, TookAll
  <2>2. CASE d = c
    BY <1>1, <2>1, <2>2 DEF HoldsAt
  <2>3. CASE d # c
    BY <1>1, <2>1, <2>3 DEF HoldInv, HoldsAt
  <2>. QED BY <2>2, <2>3
<1>. QED BY <1>1, <1>2 DEF HoldInv

\* A step that changes one reservation of one call.
LEMMA ChangeTyped ==
  ASSUME MoneyType, HoldInv, NEW c \in Calls, NEW a \in Attempts, NEW n \in Nat,
         NEW p \in Steps, NEW R \in SUBSET Caps,
         hold' = [hold EXCEPT ![c][a] = n], took' = [took EXCEPT ![c][a] = R],
         pc' = [pc EXCEPT ![c] = p],
         n # 0 => \A r \in Settled : r \in R <=> r \in Governs[c],
         HoldsAt(c, p)'
  PROVE  pc' \in [Calls -> Steps] /\ hold' \in Amounts /\ took' \in Takers /\ HoldInv'
<1>1. /\ pc' \in [Calls -> Steps] /\ pc'[c] = p
      /\ \A d \in Calls : d # c => pc'[d] = pc[d]
  BY DEF MoneyType
<1>2. /\ hold' \in Amounts /\ hold'[c][a] = n
      /\ \A d \in Calls, b \in Attempts : d # c \/ b # a => hold'[d][b] = hold[d][b]
  BY DEF MoneyType, Amounts
<1>3. /\ took' \in Takers /\ took'[c][a] = R
      /\ \A d \in Calls, b \in Attempts : d # c \/ b # a => took'[d][b] = took[d][b]
  BY DEF MoneyType, Takers
<1>4. ASSUME NEW d \in Calls PROVE HoldsAt(d, pc[d])' /\ TookAll(d)'
  <2>1. TookAll(d)'
    BY <1>2, <1>3 DEF HoldInv, TookAll
  <2>2. CASE d = c
    BY <1>1, <2>1, <2>2 DEF HoldsAt
  <2>3. CASE d # c
    <3>1. \A b \in {"first", "fallback"} : hold'[d][b] = hold[d][b]
      BY <1>2, <2>3 DEF Attempts
    <3>. QED BY <1>1, <2>1, <2>3, <3>1 DEF HoldInv, HoldsAt
  <2>. QED BY <2>2, <2>3
<1>. QED BY <1>1, <1>2, <1>3, <1>4 DEF HoldInv

\* What enforce does when it admits, and what it does otherwise.
Reserves(c, a, est, p) ==
  /\ Admitted(c, est)
  /\ reserved' = Add(reserved, Enforced(c), est)
  /\ took' = [took EXCEPT ![c][a] = Enforced(c)]
  /\ hold' = [hold EXCEPT ![c][a] = est]
  /\ Goto(c, p)
GoesOn(c, p) == Goto(c, p) /\ UNCHANGED <<reserved, took, hold>>

LEMMA GateCases ==
  ASSUME NEW c \in Calls, Enforce(c) \/ EnforceFallback(c)
  PROVE  /\ UNCHANGED <<cap, spent, normal>>
         /\ pc[c] \in {"gate", "regate"}
         /\ \/ \E a \in Attempts, est \in Nat, p \in Steps :
                 /\ Reserves(c, a, est, p)
                 /\ \/ pc[c] = "gate" /\ a = "first" /\ est = Est[c]
                         /\ p \in {"report", "provider"}
                    \/ pc[c] = "regate" /\ a = "fallback" /\ est = FallbackEst[c]
                         /\ p \in {"reportAgain", "retry"}
            \/ \E p \in {"request", "release"} : GoesOn(c, p)
<1>1. Est[c] \in Nat /\ FallbackEst[c] \in Nat
  BY BudgetAssumption
<1>2. CASE Enforce(c)
  BY <1>1, <1>2, ReportedTo DEF Enforce, Gate, Reserves, GoesOn, Attempts, Steps
<1>3. CASE EnforceFallback(c)
  BY <1>1, <1>3, ReportedTo DEF EnforceFallback, Gate, Reserves, GoesOn, Attempts, Steps
<1>. QED BY <1>2, <1>3

Ended == {"release", "done", "dead"}

\* A step that leaves the money alone ...
Moves(c) ==
  /\ \E p \in Steps \ {"gate"} :
       /\ Goto(c, p)
       /\ HoldsAt(c, pc[c]) => HoldsAt(c, p)
       /\ pc[c] \in Ended => p \in Ended
  /\ UNCHANGED <<cap, spent, normal, reserved, hold, took>>
\* ... one that returns a reservation ...
Returns(c) ==
  /\ \E a \in Attempts : /\ hold' = [hold EXCEPT ![c][a] = 0]
                         /\ reserved' = Released(c, hold[c][a])
  /\ pc' = [pc EXCEPT ![c] = "release"]
  /\ UNCHANGED <<cap, spent, normal, took>>
\* ... and one that lands a cost.
Lands(c) ==
  /\ pc' = [pc EXCEPT ![c] = "release"]
  /\ \E a \in Attempts, est \in Nat, cost \in Nat :
       /\ \/ pc[c] = "emit" /\ a = "first" /\ est = Est[c]
          \/ pc[c] = "emitAgain" /\ a = "fallback" /\ est = FallbackEst[c]
       /\ cost <= est + Overrun
       /\ spent' = Add(spent, Governs[c], cost)
       /\ normal' = IF c \in Normal THEN Add(normal, Governs[c], cost) ELSE normal
  /\ UNCHANGED <<cap, reserved, hold, took>>
Admits(c) ==
  /\ \E a \in Attempts, est \in Nat, p \in Steps :
       /\ Reserves(c, a, est, p)
       /\ \/ pc[c] = "gate" /\ a = "first" /\ est = Est[c] /\ p \in {"report", "provider"}
          \/ pc[c] = "regate" /\ a = "fallback" /\ est = FallbackEst[c]
               /\ p \in {"reportAgain", "retry"}
  /\ UNCHANGED <<cap, spent, normal>>

LEMMA CallCases ==
  ASSUME MoneyType, NEW c \in Calls, CallStep(c) \/ Die(c)
  PROVE  Admits(c) \/ Moves(c) \/ Returns(c) \/ Lands(c)
<1> USE DEF Goto, Steps, HoldsAt, Ended, moneyVars, history
<1>1. CASE Enforce(c) \/ EnforceFallback(c)
  <2>1. CASE \E p \in {"request", "release"} : GoesOn(c, p)
    <3>1. Moves(c)
      BY <1>1, <2>1, GateCases DEF GoesOn, Moves
    <3>. QED BY <3>1
  <2>. QED BY <1>1, <2>1, GateCases DEF Admits
<1>2. CASE ReportFirst(c) \/ ReportFallback(c)
  <2>1. PICK from, a :
          /\ ReportZone(c, from, a) /\ a \in Attempts
          /\ \/ from = "report" /\ a = "first"
             \/ from = "reportAgain" /\ a = "fallback"
    BY <1>2 DEF ReportFirst, ReportFallback, Attempts
  <2>2. CASE Goto(c, Reported[from]) /\ UNCHANGED <<moneyVars, hold>>
    <3>1. /\ UNCHANGED <<cap, spent, normal, reserved, hold, took>> /\ pc[c] = from
          /\ Reported[from] \in Steps \ {"gate"}
          /\ \/ from = "report" /\ Reported[from] = "provider"
             \/ from = "reportAgain" /\ Reported[from] = "retry"
      BY <2>1, <2>2, ReportedTo DEF ReportZone
    <3>2. Moves(c)
      BY <2>2, <3>1 DEF Moves
    <3>. QED BY <3>2
  <2>3. CASE /\ Goto(c, "release")
             /\ hold' = [hold EXCEPT ![c][a] = 0]
             /\ reserved' = Released(c, hold[c][a])
             /\ UNCHANGED <<cap, spent>>
    BY <2>1, <2>3 DEF ReportZone, Returns
  <2>. QED BY <2>1, <2>2, <2>3 DEF ReportZone
<1>3. CASE Release(c)
  <2>1. CASE \E a \in Attempts : /\ hold' = [hold EXCEPT ![c][a] = 0]
                                 /\ reserved' = Released(c, hold[c][a])
                                 /\ UNCHANGED pc
    <3>1. pc' = [pc EXCEPT ![c] = "release"]
      BY <1>3, <2>1 DEF Release, MoneyType
    <3>. QED BY <1>3, <2>1, <3>1 DEF Release, Returns
  <2>2. CASE Goto(c, "done") /\ UNCHANGED <<reserved, hold>>
    <3>1. Moves(c)
      BY <1>3, <2>2 DEF Release, Moves
    <3>. QED BY <3>1
  <2>. QED BY <1>3, <2>1, <2>2 DEF Release
<1>4. CASE Complete(c) \/ CompleteFallback(c)
  <2>1. Moves(c)
    BY <1>4 DEF Complete, CompleteFallback, Moves
  <2>. QED BY <2>1
<1>5. CASE Emit(c)
  <2>1. CASE UNCHANGED <<spent, normal>>
    <3>1. Moves(c)
      BY <1>5, <2>1 DEF Emit, Moves
    <3>. QED BY <3>1
  <2>2. ASSUME NEW cost \in 0..((IF pc[c] = "emit" THEN Est[c] ELSE FallbackEst[c]) + Overrun),
               spent' = Add(spent, Governs[c], cost),
               normal' = IF c \in Normal THEN Add(normal, Governs[c], cost) ELSE normal
        PROVE  Lands(c)
    <3>0. /\ Est[c] \in Nat /\ FallbackEst[c] \in Nat /\ Overrun \in Nat
          /\ "first" \in Attempts /\ "fallback" \in Attempts
      BY BudgetAssumption DEF Attempts
    <3>1. cost \in Nat
      BY <3>0
    <3>2. /\ pc' = [pc EXCEPT ![c] = "release"] /\ pc[c] \in {"emit", "emitAgain"}
          /\ UNCHANGED <<cap, reserved, hold, took>>
      BY <1>5 DEF Emit
    <3>3. CASE pc[c] = "emit"
      BY <2>2, <3>0, <3>1, <3>2, <3>3 DEF Lands
    <3>4. CASE pc[c] = "emitAgain"
      BY <2>2, <3>0, <3>1, <3>2, <3>4 DEF Lands
    <3>. QED BY <3>2, <3>3, <3>4
  <2>. QED BY <1>5, <2>1, <2>2 DEF Emit
<1>6. CASE Request(c) \/ Insert(c) \/ Die(c)
  <2>1. Moves(c)
    BY <1>6 DEF Request, Insert, Die, Moves
  <2>. QED BY <2>1
<1>. QED BY <1>1, <1>2, <1>3, <1>4, <1>5, <1>6 DEF CallStep

\* What the others do: the human resolves, the operator sets caps, a window rolls.
LEMMA WorldStep ==
  ASSUME MoneyType,
         \/ \E i \in Approve!Ids : ResolveRaise(i) \/ Raise(i)
         \/ \E r \in Caps : SetBudget(r) \/ WindowRolls(r)
         \/ UNCHANGED budgetVars
  PROVE  /\ UNCHANGED <<reserved, pc, hold, took>>
         /\ DOMAIN cap' = Caps /\ \A r \in Settled : cap'[r] \in Nat
         /\ spent' \in [Caps -> Nat] /\ \A r \in Caps : spent'[r] <= spent[r]
         /\ (\A r \in Settled : NewCaps[r] = {}) => \A r \in Settled : cap'[r] >= cap[r]
<1> USE DEF callVars, moneyVars, history, MoneyType
<1>0. \A r \in Settled : r \in Caps
  BY DEF Settled
<1>1. CASE \E i \in Approve!Ids : ResolveRaise(i)
  BY <1>1 DEF ResolveRaise
<1>2. ASSUME NEW i \in Approve!Ids, Raise(i)
      PROVE  /\ UNCHANGED <<reserved, spent, pc, hold, took>> /\ DOMAIN cap' = Caps
             /\ \A r \in Settled : cap'[r] \in Nat /\ cap'[r] >= cap[r]
  <2>1. \A r \in Settled : cap'[r] = IF r = raise[i].act THEN cap[r] + 1 ELSE cap[r]
    BY <1>0, <1>2 DEF Raise
  <2>. QED BY <1>2, <2>1 DEF Raise
<1>3. ASSUME NEW q \in Caps, SetBudget(q)
      PROVE  /\ UNCHANGED <<reserved, spent, pc, hold, took>> /\ DOMAIN cap' = Caps
             /\ \A r \in Settled : cap'[r] \in Nat
             /\ (\A r \in Settled : NewCaps[r] = {}) => \A r \in Settled : cap'[r] >= cap[r]
  <2>1. PICK v \in NewCaps[q] : cap' = [cap EXCEPT ![q] = v]
    BY <1>3 DEF SetBudget
  <2>2. v \in Nat
    BY BudgetAssumption
  <2>3. \A r \in Settled : cap'[r] = IF r = q THEN v ELSE cap[r]
    BY <1>0, <2>1
  <2>. QED BY <1>3, <2>1, <2>2, <2>3 DEF SetBudget
<1>4. ASSUME NEW q \in Caps, WindowRolls(q)
      PROVE  /\ UNCHANGED <<cap, reserved, pc, hold, took>>
             /\ spent' \in [Caps -> Nat] /\ \A r \in Caps : spent'[r] <= spent[r]
  <2>1. /\ spent' = [spent EXCEPT ![q] = 0]
        /\ UNCHANGED <<cap, reserved, pc, hold, took>>
    BY <1>4 DEF WindowRolls
  <2>2. spent' \in [Caps -> Nat] /\ \A r \in Caps : spent'[r] = IF r = q THEN 0 ELSE spent[r]
    BY <2>1
  <2>3. \A r \in Caps : spent[r] \in Nat
    OBVIOUS
  <2>. QED BY <2>1, <2>2, <2>3
<1>5. CASE UNCHANGED budgetVars
  BY <1>5 DEF budgetVars
<1>. QED BY <1>1, <1>2, <1>3, <1>4, <1>5

LEMMA ReleasedType ==
  ASSUME MoneyType, NEW c \in Calls, NEW n \in Nat
  PROVE  Released(c, n) \in [Caps -> Nat]
BY DEF Released, Floor, MoneyType

LEMMA TookStays ==
  ASSUME MoneyType, NEW c \in Calls, NEW a \in Attempts
  PROVE  /\ took = [took EXCEPT ![c][a] = took[c][a]] /\ took[c][a] \in SUBSET Caps
         /\ hold[c][a] \in Nat /\ <<c, a>> \in Reservations
BY DEF MoneyType, Takers, Amounts, Reservations

LEMMA StepTyped ==
  MoneyType /\ HoldInv /\ [BudgetNext]_budgetVars => MoneyType' /\ HoldInv'
<1> SUFFICES ASSUME MoneyType, HoldInv, [BudgetNext]_budgetVars
             PROVE  MoneyType' /\ HoldInv'
  OBVIOUS
<1>1. ASSUME NEW c \in Calls, CallStep(c) \/ Die(c)
      PROVE  MoneyType' /\ HoldInv'
  <2>1. CASE Admits(c)
    <3>1. PICK a \in Attempts, est \in Nat, p \in Steps :
            /\ Reserves(c, a, est, p)
            /\ \/ pc[c] = "gate" /\ a = "first" /\ est = Est[c] /\ p \in {"report", "provider"}
               \/ pc[c] = "regate" /\ a = "fallback" /\ est = FallbackEst[c]
                    /\ p \in {"reportAgain", "retry"}
      BY <2>1 DEF Admits
    <3>2. Enforced(c) \in SUBSET Caps /\ \A r \in Settled : r \in Enforced(c) <=> r \in Governs[c]
      BY BudgetAssumption DEF Enforced, Settled, MoneyType
    <3>3. /\ reserved' = Add(reserved, Enforced(c), est)
          /\ took' = [took EXCEPT ![c][a] = Enforced(c)]
          /\ hold' = [hold EXCEPT ![c][a] = est] /\ pc' = [pc EXCEPT ![c] = p]
          /\ UNCHANGED <<cap, spent>>
      BY <2>1, <3>1 DEF Admits, Reserves, Goto
    <3>4. hold'[c][a] = est /\ \A b \in Attempts : b # a => hold'[c][b] = hold[c][b]
      BY <3>3 DEF MoneyType, Amounts
    <3>5. HoldsAt(c, pc[c])
      BY DEF HoldInv
    <3>6. HoldsAt(c, p)'
      BY <3>1, <3>4, <3>5 DEF HoldsAt, Attempts
    <3>7. pc' \in [Calls -> Steps] /\ hold' \in Amounts /\ took' \in Takers /\ HoldInv'
      BY <3>2, <3>3, <3>6, ChangeTyped
    <3>8. reserved' \in [Caps -> Nat]
      BY <3>3 DEF Add, MoneyType
    <3>. QED BY <3>3, <3>7, <3>8 DEF MoneyType
  <2>2. CASE Moves(c)
    <3>1. PICK p \in Steps : Goto(c, p) /\ HoldsAt(c, p)
      BY <2>2 DEF Moves, HoldInv
    <3>2. pc' \in [Calls -> Steps] /\ HoldInv'
      BY <2>2, <3>1, MoveTyped DEF Moves, MoneyType
    <3>. QED BY <2>2, <3>2 DEF Moves, MoneyType
  <2>3. CASE Returns(c)
    <3>1. PICK a \in Attempts : /\ hold' = [hold EXCEPT ![c][a] = 0]
                                /\ reserved' = Released(c, hold[c][a])
      BY <2>3 DEF Returns
    <3>2. took' = [took EXCEPT ![c][a] = took[c][a]] /\ took[c][a] \in SUBSET Caps
      BY <2>3, TookStays DEF Returns
    <3>3. pc' = [pc EXCEPT ![c] = "release"] /\ "release" \in Steps /\ HoldsAt(c, "release")'
      BY <2>3 DEF Returns, Steps, HoldsAt
    <3>4. pc' \in [Calls -> Steps] /\ hold' \in Amounts /\ took' \in Takers /\ HoldInv'
      BY <3>1, <3>2, <3>3, ChangeTyped
    <3>5. reserved' \in [Caps -> Nat]
      BY <3>1, TookStays, ReleasedType
    <3>. QED BY <2>3, <3>4, <3>5 DEF MoneyType, Returns
  <2>4. CASE Lands(c)
    <3>1. Goto(c, "release") /\ HoldsAt(c, "release") /\ "release" \in Steps
      BY <2>4 DEF Lands, Goto, HoldsAt, Steps
    <3>2. pc' \in [Calls -> Steps] /\ HoldInv'
      BY <2>4, <3>1, MoveTyped DEF Lands, MoneyType
    <3>3. spent' \in [Caps -> Nat]
      BY <2>4 DEF Lands, Add, MoneyType
    <3>. QED BY <2>4, <3>2, <3>3 DEF Lands, MoneyType
  <2>. QED BY <1>1, <2>1, <2>2, <2>3, <2>4, CallCases
<1>2. CASE \/ \E i \in Approve!Ids : ResolveRaise(i) \/ Raise(i)
           \/ \E r \in Caps : SetBudget(r) \/ WindowRolls(r)
           \/ UNCHANGED budgetVars
  <2>1. /\ UNCHANGED <<reserved, pc, hold, took>> /\ DOMAIN cap' = Caps
        /\ \A r \in Settled : cap'[r] \in Nat /\ spent' \in [Caps -> Nat]
    BY <1>2, WorldStep
  <2>2. HoldInv'
    BY <2>1 DEF HoldInv, HoldsAt, TookAll
  <2>3. spent' \in [Caps -> Nat]
    BY <1>2, WorldStep
  <2>. QED BY <2>1, <2>2, <2>3 DEF MoneyType
<1>. QED BY <1>1, <1>2 DEF BudgetNext

-----------------------------------------------------------------------------
\* What is reserved on a cap is what calls hold there, to the unit.
Ledger == \A r \in Settled : reserved[r] = Total(hold, Taken(r))

LEMMA LedgerInit == BudgetInit => Ledger
<1> SUFFICES ASSUME BudgetInit, NEW r \in Settled PROVE reserved[r] = Total(hold, Taken(r))
  BY DEF Ledger
<1>1. \A x \in Taken(r) : hold[x[1]][x[2]] = 0
  BY DEF BudgetInit, NoHold, Taken
<1>2. Total(hold, Taken(r)) = 0
  BY <1>1, TotalOfNone
<1>3. r \in Caps
  BY DEF Settled
<1>. QED BY <1>2, <1>3 DEF BudgetInit

\* One reservation changes.
Changes(c, a, n, R) ==
  hold' = [hold EXCEPT ![c][a] = n] /\ took' = [took EXCEPT ![c][a] = R]

LEMMA LedgerMoves ==
  ASSUME MoneyType, MoneyType', NEW c \in Calls, NEW a \in Attempts, NEW n \in Nat, NEW R,
         Changes(c, a, n, R), NEW r \in Settled
  PROVE  /\ Total(hold, Taken(r)) \in Nat /\ Total(hold, Taken(r))' \in Nat
         /\ r \in took[c][a] => Total(hold, Taken(r)) >= hold[c][a]
         /\ Total(hold, Taken(r))' - (IF r \in R THEN n ELSE 0)
              = Total(hold, Taken(r)) - (IF r \in took[c][a] THEN hold[c][a] ELSE 0)
<1> DEFINE x == <<c, a>>
           X == Taken(r)
           Y == Taken(r)'
<1>1. /\ hold \in Amounts /\ hold' \in Amounts /\ x \in Reservations
      /\ X \in SUBSET Reservations /\ Y \in SUBSET Reservations
  BY DEF MoneyType, Taken, Reservations
<1>2. hold'[c][a] = n /\ took'[c][a] = R
  BY DEF MoneyType, Amounts, Takers, Changes
<1>3. \A y \in Reservations : y # x =>
        hold'[y[1]][y[2]] = hold[y[1]][y[2]] /\ took'[y[1]][y[2]] = took[y[1]][y[2]]
  BY DEF MoneyType, Amounts, Takers, Reservations, Changes
<1>4. X \ {x} = Y \ {x}
  BY <1>3 DEF Taken, Reservations
<1>5. \A y \in X \ {x} : hold'[y[1]][y[2]] = hold[y[1]][y[2]]
  BY <1>1, <1>3
<1>6. (x \in X <=> r \in took[c][a]) /\ (x \in Y <=> r \in R)
  BY <1>1, <1>2 DEF Taken, Reservations
<1>7. x[1] = c /\ x[2] = a
  OBVIOUS
<1>8. Total(hold', Y) - Part(hold', Y, x) = Total(hold, X) - Part(hold, X, x)
  <2> HIDE DEF x, X, Y
  <2>1. SameBut(hold, hold', X, Y, x)
    BY <1>4, <1>5 DEF SameBut
  <2>. QED BY <1>1, <2>1, TotalChanges
<1>9. Total(hold, X) \in Nat /\ Total(hold', Y) \in Nat
  <2> HIDE DEF x, X, Y
  <2>. QED BY <1>1, TotalOfLess
<1>10. x \in X => Total(hold, X) >= hold[c][a]
  <2>1. Total(hold, X \ {x}) \in Nat
    <3> HIDE DEF x, X
    <3>. QED BY <1>1, TotalOfLess
  <2>2. hold[c][a] \in Nat
    BY DEF MoneyType, Amounts
  <2> HIDE DEF X
  <2>3. x \in X => Total(hold, X) = Total(hold, X \ {x}) + hold[c][a]
    <3> HIDE DEF x
    <3>. QED BY <1>1, <1>7, TotalSplits
  <2>. QED BY <1>9, <2>1, <2>2, <2>3
<1>11. Total(hold, Taken(r))' = Total(hold', Y)
  BY DEF Total, UnitsOf, Units
<1>12. /\ Part(hold', Y, x) = IF r \in R THEN n ELSE 0
       /\ Part(hold, X, x) = IF r \in took[c][a] THEN hold[c][a] ELSE 0
  BY <1>2, <1>6, <1>7 DEF Part
<1>. QED BY <1>6, <1>8, <1>9, <1>10, <1>11, <1>12

LEMMA LedgerStep ==
  MoneyType /\ HoldInv /\ Ledger /\ [BudgetNext]_budgetVars => Ledger'
<1> SUFFICES ASSUME MoneyType, HoldInv, Ledger, [BudgetNext]_budgetVars, NEW r \in Settled
             PROVE  reserved'[r] = Total(hold, Taken(r))'
  BY DEF Ledger, Settled
<1>0. MoneyType' /\ HoldInv' /\ r \in Caps
  BY StepTyped DEF Settled
<1>1. CASE UNCHANGED <<reserved, hold, took>>
  <2>1. Taken(r)' = Taken(r)
    BY <1>1 DEF Taken
  <2>2. Total(hold, Taken(r))' = Total(hold, Taken(r))
    BY <1>1, <2>1 DEF Total, UnitsOf, Units
  <2>. QED BY <1>1, <2>2 DEF Ledger
<1>2. ASSUME NEW c \in Calls, Admits(c)
      PROVE  reserved'[r] = Total(hold, Taken(r))'
  <2>1. PICK a \in Attempts, est \in Nat, p \in Steps :
          /\ Reserves(c, a, est, p)
          /\ (pc[c] = "gate" /\ a = "first") \/ (pc[c] = "regate" /\ a = "fallback")
    BY <1>2 DEF Admits
  <2>2. hold[c][a] = 0
    BY <2>1 DEF HoldInv, HoldsAt
  <2>3. reserved'[r] = IF r \in Enforced(c) THEN reserved[r] + est ELSE reserved[r]
    BY <1>0, <2>1 DEF Reserves, Add
  <2>. Changes(c, a, est, Enforced(c))
    BY <2>1 DEF Reserves, Changes
  <2>4. /\ Total(hold, Taken(r)) \in Nat /\ Total(hold, Taken(r))' \in Nat
        /\ Total(hold, Taken(r))' - (IF r \in Enforced(c) THEN est ELSE 0)
             = Total(hold, Taken(r)) - (IF r \in took[c][a] THEN hold[c][a] ELSE 0)
    BY <1>0, LedgerMoves
  <2>. QED BY <2>2, <2>3, <2>4 DEF Ledger
<1>3. ASSUME NEW c \in Calls, Returns(c)
      PROVE  reserved'[r] = Total(hold, Taken(r))'
  <2>1. PICK a \in Attempts : /\ hold' = [hold EXCEPT ![c][a] = 0]
                              /\ reserved' = Released(c, hold[c][a])
    BY <1>3 DEF Returns
  <2>2. Changes(c, a, 0, took[c][a]) /\ hold[c][a] \in Nat
    BY <1>3, <2>1, TookStays DEF Returns, Changes
  <2>3. reserved'[r] = IF r \in Governs[c] THEN Floor(reserved[r] - hold[c][a]) ELSE reserved[r]
    BY <1>0, <2>1 DEF Released
  <2>a. took[c][a] \in SUBSET Caps /\ 0 \in Nat
    BY DEF MoneyType, Takers
  <2>4. /\ Total(hold, Taken(r)) \in Nat /\ Total(hold, Taken(r))' \in Nat
        /\ r \in took[c][a] => Total(hold, Taken(r)) >= hold[c][a]
        /\ Total(hold, Taken(r))' - (IF r \in took[c][a] THEN 0 ELSE 0)
             = Total(hold, Taken(r)) - (IF r \in took[c][a] THEN hold[c][a] ELSE 0)
    <3> DEFINE R == took[c][a]
    <3>1. Changes(c, a, 0, R) /\ R \in SUBSET Caps
      BY <2>2, <2>a
    <3> HIDE DEF R
    <3>2. /\ Total(hold, Taken(r)) \in Nat /\ Total(hold, Taken(r))' \in Nat
          /\ r \in took[c][a] => Total(hold, Taken(r)) >= hold[c][a]
          /\ Total(hold, Taken(r))' - (IF r \in R THEN 0 ELSE 0)
               = Total(hold, Taken(r)) - (IF r \in took[c][a] THEN hold[c][a] ELSE 0)
      BY <1>0, <2>a, <3>1, LedgerMoves
    <3>. QED BY <3>2 DEF R
  <2>5. hold[c][a] # 0 => (r \in took[c][a] <=> r \in Governs[c])
    BY DEF HoldInv, TookAll
  <2>6. reserved[r] = Total(hold, Taken(r))
    BY DEF Ledger
  <2>. QED BY <2>2, <2>3, <2>4, <2>5, <2>6 DEF Floor
<1>4. ASSUME NEW c \in Calls, Moves(c) \/ Lands(c)
      PROVE  UNCHANGED <<reserved, hold, took>>
  BY <1>4 DEF Moves, Lands
<1>5. CASE \/ \E i \in Approve!Ids : ResolveRaise(i) \/ Raise(i)
           \/ \E q \in Caps : SetBudget(q) \/ WindowRolls(q)
           \/ UNCHANGED budgetVars
  BY <1>5, <1>1, WorldStep
<1>. QED BY <1>1, <1>2, <1>3, <1>4, <1>5, CallCases DEF BudgetNext

-----------------------------------------------------------------------------
\* What some of the calls may still add to the spend of r.
OwingBy(r, C) == {x \in Owing(r) : x[1] \in C}
OwedBy(r, C) == Total(hold, OwingBy(r, C))

LEMMA AllOwe ==
  ASSUME NEW r
  PROVE  OwingBy(r, Calls) = Owing(r) /\ OwedBy(r, Calls) = Owed(r)
<1>1. OwingBy(r, Calls) = Owing(r)
  BY DEF OwingBy, Owing, Taken
<1>. QED BY <1>1 DEF OwedBy, Owed

LEMMA AllOweAfter ==
  ASSUME NEW r
  PROVE  OwedBy(r, Calls)' = Owed(r)'
<1>1. OwingBy(r, Calls)' = Owing(r)'
  BY DEF OwingBy, Owing, Taken
<1>. QED BY <1>1 DEF OwedBy, Owed, Total, UnitsOf, Units

LEMMA OwedIsHeld ==
  ASSUME MoneyType, Ledger, NEW r \in Settled, NEW C
  PROVE  OwedBy(r, C) \in Nat /\ reserved[r] >= OwedBy(r, C)
<1>1. Taken(r) \in SUBSET Reservations /\ OwingBy(r, C) \in SUBSET Taken(r) /\ hold \in Amounts
  BY DEF MoneyType, Taken, Owing, OwingBy, Reservations
<1>2. Total(hold, OwingBy(r, C)) \in Nat /\ Total(hold, OwingBy(r, C)) <= Total(hold, Taken(r))
  BY <1>1, TotalOfLess
<1>. QED BY <1>2 DEF Ledger, OwedBy

\* Whoever is not admitted only lowers what is owed.
LEMMA OwedFalls ==
  ASSUME MoneyType, MoneyType', NEW r \in Settled, NEW C,
         OwingBy(r, C)' \subseteq OwingBy(r, C),
         \A x \in OwingBy(r, C)' : hold'[x[1]][x[2]] = hold[x[1]][x[2]]
  PROVE  /\ OwedBy(r, C)' = Total(hold, OwingBy(r, C)')
         /\ OwedBy(r, C)' \in Nat /\ OwedBy(r, C)' <= OwedBy(r, C)
<1> DEFINE X == OwingBy(r, C)
           Y == OwingBy(r, C)'
<1>1. X \in SUBSET Reservations /\ Y \in SUBSET X /\ hold \in Amounts
  BY DEF MoneyType, OwingBy, Owing, Taken, Reservations
<1>2. Total(hold', Y) = Total(hold, Y)
  BY TotalAgrees
<1>3. OwedBy(r, C)' = Total(hold', Y) /\ OwedBy(r, C) = Total(hold, X)
  BY DEF OwedBy, Total, UnitsOf, Units
<1>4. Total(hold, Y) \in Nat /\ Total(hold, Y) <= Total(hold, X)
  <2> HIDE DEF X, Y
  <2>. QED BY <1>1, TotalOfLess
<1>. QED BY <1>2, <1>3, <1>4

LEMMA OthersOwe ==
  ASSUME MoneyType, NEW c \in Calls, NEW p \in Steps, pc' = [pc EXCEPT ![c] = p],
         pc[c] \in Ended => p \in Ended, UNCHANGED took, NEW r \in Settled, NEW C
  PROVE  /\ OwingBy(r, C)' \subseteq OwingBy(r, C)
         /\ p \in Ended => \A x \in OwingBy(r, C)' : x[1] # c
<1>1. pc'[c] = p /\ \A d \in Calls : d # c => pc'[d] = pc[d]
  BY DEF MoneyType
<1>2. Taken(r)' = Taken(r)
  BY DEF Taken
<1>3. \A x \in Taken(r) : x[1] \in Calls
  BY DEF Taken
<1>. QED BY <1>1, <1>2, <1>3 DEF OwingBy, Owing, Ended

\* An admitted call owes its estimate under every settled cap that governs it.
LEMMA AdmittedOwes ==
  ASSUME MoneyType, HoldInv, MoneyType', NEW r \in Settled, NEW C, NEW c \in Calls, Admits(c)
  PROVE  \E est \in Nat : /\ Admitted(c, est) /\ OwedBy(r, C)' \in Nat
                          /\ OwedBy(r, C)' = OwedBy(r, C)
                               + (IF c \in C /\ r \in Enforced(c) THEN est ELSE 0)
<1>1. PICK a \in Attempts, est \in Nat, p \in Steps :
        /\ Reserves(c, a, est, p)
        /\ \/ pc[c] = "gate" /\ a = "first" /\ p \in {"report", "provider"}
           \/ pc[c] = "regate" /\ a = "fallback" /\ p \in {"reportAgain", "retry"}
  BY DEF Admits
<1>2. Changes(c, a, est, Enforced(c)) /\ pc' = [pc EXCEPT ![c] = p] /\ Admitted(c, est)
  BY <1>1 DEF Reserves, Changes, Goto
<1> DEFINE x == <<c, a>>
           X == OwingBy(r, C)
           Y == OwingBy(r, C)'
<1>3. /\ x \in Reservations /\ X \in SUBSET Reservations /\ Y \in SUBSET Reservations
      /\ hold \in Amounts /\ hold' \in Amounts /\ x[1] = c /\ x[2] = a
  BY DEF MoneyType, OwingBy, Owing, Taken, Reservations
<1>4. /\ hold'[c][a] = est /\ took'[c][a] = Enforced(c)
      /\ pc'[c] = p /\ \A d \in Calls : d # c => pc'[d] = pc[d]
  BY <1>2 DEF MoneyType, Amounts, Takers, Changes
<1>5. \A y \in Reservations : y # x =>
        /\ hold'[y[1]][y[2]] = hold[y[1]][y[2]] /\ took'[y[1]][y[2]] = took[y[1]][y[2]]
  BY <1>2 DEF MoneyType, Amounts, Takers, Reservations, Changes
<1>6. \A y \in Reservations :
        /\ y[1] \in Calls
        /\ pc[y[1]] \notin {"release", "done", "dead"} <=>
             pc'[y[1]] \notin {"release", "done", "dead"}
  BY <1>1, <1>4 DEF Reservations
<1>7. X \ {x} = Y \ {x}
  BY <1>5, <1>6 DEF OwingBy, Owing, Taken, Reservations
<1>8. SameBut(hold, hold', X, Y, x)
  BY <1>3, <1>5, <1>7 DEF SameBut
<1>9. Part(hold, X, x) = 0
  BY <1>1, <1>3 DEF HoldInv, HoldsAt, Part
<1>10. Part(hold', Y, x) = IF c \in C /\ r \in Enforced(c) THEN est ELSE 0
  BY <1>1, <1>3, <1>4 DEF Part, OwingBy, Owing, Taken, Reservations
<1>11. Total(hold', Y) - Part(hold', Y, x) = Total(hold, X) - Part(hold, X, x)
  <2> HIDE DEF x, X, Y
  <2>. QED BY <1>3, <1>8, TotalChanges
<1>12. OwedBy(r, C)' = Total(hold', Y) /\ OwedBy(r, C) = Total(hold, X)
  BY DEF OwedBy, Total, UnitsOf, Units
<1>13. Total(hold', Y) \in Nat /\ Total(hold, X) \in Nat
  <2> HIDE DEF x, X, Y
  <2>. QED BY <1>3, TotalOfLess
<1> HIDE DEF x, X, Y
<1>. QED BY <1>2, <1>9, <1>10, <1>11, <1>12, <1>13

\* A call that moves on or returns a reservation owes no more than before.
LEMMA MovedOwes ==
  ASSUME MoneyType, MoneyType', NEW r \in Settled, NEW C, NEW c \in Calls, Moves(c) \/ Returns(c)
  PROVE  OwedBy(r, C)' \in Nat /\ OwedBy(r, C)' <= OwedBy(r, C)
<1>1. CASE Moves(c)
  <2>1. OwingBy(r, C)' \subseteq OwingBy(r, C)
    BY <1>1, OthersOwe DEF Moves, Goto
  <2>. QED BY <1>1, <2>1, OwedFalls DEF Moves
<1>2. CASE Returns(c)
  <2>1. OwingBy(r, C)' \subseteq OwingBy(r, C) /\ \A x \in OwingBy(r, C)' : x[1] # c
    BY <1>2, OthersOwe DEF Returns, Ended, Steps
  <2>2. \A x \in OwingBy(r, C)' : hold'[x[1]][x[2]] = hold[x[1]][x[2]]
    BY <1>2, <2>1 DEF Returns, OwingBy, Owing, Taken, MoneyType, Amounts
  <2>. QED BY <2>1, <2>2, OwedFalls
<1>. QED BY <1>1, <1>2

\* A call whose cost lands owed at least that much, if costs keep within the estimates.
LEMMA LandedOwed ==
  ASSUME MoneyType, HoldInv, MoneyType', NEW r \in Settled, NEW C, NEW c \in Calls, Lands(c),
         Overrun = 0
  PROVE  \E cost \in Nat :
           /\ spent' = Add(spent, Governs[c], cost)
           /\ normal' = IF c \in Normal THEN Add(normal, Governs[c], cost) ELSE normal
           /\ OwedBy(r, C)' \in Nat
           /\ OwedBy(r, C)' + (IF c \in C /\ r \in Governs[c] THEN cost ELSE 0) <= OwedBy(r, C)
<1>1. PICK a \in Attempts, est \in Nat, cost \in Nat :
        /\ \/ pc[c] = "emit" /\ a = "first" /\ est = Est[c]
           \/ pc[c] = "emitAgain" /\ a = "fallback" /\ est = FallbackEst[c]
        /\ cost <= est
        /\ spent' = Add(spent, Governs[c], cost)
        /\ normal' = IF c \in Normal THEN Add(normal, Governs[c], cost) ELSE normal
  BY DEF Lands
<1>2. hold[c][a] = est /\ pc[c] \notin Ended
  BY <1>1 DEF HoldInv, HoldsAt, Ended
<1>3. OwingBy(r, C)' \subseteq OwingBy(r, C) /\ \A x \in OwingBy(r, C)' : x[1] # c
  BY OthersOwe DEF Lands, Ended, Steps
<1>4. /\ OwedBy(r, C)' = Total(hold, OwingBy(r, C)')
      /\ OwedBy(r, C)' \in Nat /\ OwedBy(r, C)' <= OwedBy(r, C)
  BY <1>3, OwedFalls DEF Lands
<1>5. OwedBy(r, C) \in Nat
  <2>1. OwingBy(r, C) \in SUBSET Reservations /\ hold \in Amounts
    BY DEF MoneyType, OwingBy, Owing, Taken, Reservations
  <2>. QED BY <2>1, TotalOfLess DEF OwedBy
<1>6. OwedBy(r, C)' + (IF c \in C /\ r \in Governs[c] THEN cost ELSE 0) <= OwedBy(r, C)
  <2>1. CASE est = 0 \/ ~(c \in C /\ r \in Governs[c])
    <3>1. (IF c \in C /\ r \in Governs[c] THEN cost ELSE 0) = 0
      BY <1>1, <2>1
    <3>. QED BY <1>4, <1>5, <3>1
  <2>2. CASE est # 0 /\ c \in C /\ r \in Governs[c]
    <3> DEFINE x == <<c, a>>
               X == OwingBy(r, C)
               Y == OwingBy(r, C)'
    <3>1. r \in took[c][a]
      BY <1>2, <2>2 DEF HoldInv, TookAll
    <3>2. x \in X
      BY <1>2, <2>2, <3>1 DEF OwingBy, Owing, Taken, Ended
    <3>3. Y \in SUBSET (X \ {x}) /\ X \in SUBSET Reservations /\ hold \in Amounts
      BY <1>3 DEF MoneyType, OwingBy, Owing, Taken, Reservations
    <3>4. x[1] = c /\ x[2] = a
      OBVIOUS
    <3>5. /\ Total(hold, X) = Total(hold, X \ {x}) + hold[x[1]][x[2]]
          /\ Total(hold, Y) <= Total(hold, X \ {x}) /\ Total(hold, X \ {x}) \in Nat
      <4> HIDE DEF x, X, Y
      <4>1. X \ {x} \in SUBSET Reservations
        BY <3>3
      <4>. QED BY <3>2, <3>3, <4>1, TotalSplits, TotalOfLess
    <3>6. OwedBy(r, C) = Total(hold, X) /\ OwedBy(r, C)' = Total(hold, Y)
      BY <1>4 DEF OwedBy
    <3> HIDE DEF x, X, Y
    <3>. QED BY <1>1, <1>2, <1>4, <2>2, <3>4, <3>5, <3>6
  <2>. QED BY <2>1, <2>2
<1>. QED BY <1>1, <1>4, <1>6

LEMMA WorldOwes ==
  ASSUME UNCHANGED <<pc, hold, took>>, NEW r, NEW C
  PROVE  OwedBy(r, C)' = OwedBy(r, C)
<1>1. OwingBy(r, C)' = OwingBy(r, C)
  BY DEF OwingBy, Owing, Taken
<1>. QED BY <1>1 DEF OwedBy, Total, UnitsOf, Units

LEMMA CapStep ==
  ASSUME MoneyType, HoldInv, Ledger, MoneyType', [BudgetNext]_budgetVars, CapHolds,
         Overrun = 0, \A r \in Settled : NewCaps[r] = {}
  PROVE  CapHolds'
<1> SUFFICES ASSUME NEW r \in Settled PROVE spent'[r] + OwedBy(r, Calls)' <= cap'[r]
  BY AllOweAfter DEF CapHolds, Settled
<1>0. /\ spent[r] \in Nat /\ cap[r] \in Nat /\ spent'[r] \in Nat /\ cap'[r] \in Nat /\ r \in Caps
      /\ spent[r] + OwedBy(r, Calls) <= cap[r] /\ OwedBy(r, Calls) \in Nat
      /\ reserved[r] >= OwedBy(r, Calls) /\ reserved[r] \in Nat
  BY OwedIsHeld, AllOwe DEF MoneyType, CapHolds, Settled
<1>1. ASSUME NEW c \in Calls, Admits(c)
      PROVE  spent'[r] + OwedBy(r, Calls)' <= cap'[r]
  <2>1. PICK est \in Nat : /\ Admitted(c, est) /\ OwedBy(r, Calls)' \in Nat
                           /\ OwedBy(r, Calls)' = OwedBy(r, Calls)
                                + (IF c \in Calls /\ r \in Enforced(c) THEN est ELSE 0)
    BY <1>1, AdmittedOwes
  <2>2. r \in Enforced(c) => spent[r] + reserved[r] + est <= cap[r]
    BY <1>0, <2>1 DEF Admitted, Over, Projected
  <2>. QED BY <1>0, <1>1, <2>1, <2>2 DEF Admits
<1>2. ASSUME NEW c \in Calls, Moves(c) \/ Returns(c)
      PROVE  spent'[r] + OwedBy(r, Calls)' <= cap'[r]
  <2>1. OwedBy(r, Calls)' \in Nat /\ OwedBy(r, Calls)' <= OwedBy(r, Calls)
    BY <1>2, MovedOwes
  <2>2. UNCHANGED <<cap, spent>>
    BY <1>2 DEF Moves, Returns
  <2>. QED BY <1>0, <2>1, <2>2
<1>3. ASSUME NEW c \in Calls, Lands(c)
      PROVE  spent'[r] + OwedBy(r, Calls)' <= cap'[r]
  <2>1. PICK cost \in Nat :
          /\ spent' = Add(spent, Governs[c], cost) /\ OwedBy(r, Calls)' \in Nat
          /\ OwedBy(r, Calls)' + (IF c \in Calls /\ r \in Governs[c] THEN cost ELSE 0)
               <= OwedBy(r, Calls)
    BY <1>3, LandedOwed
  <2>2. spent'[r] = IF r \in Governs[c] THEN spent[r] + cost ELSE spent[r]
    BY <1>0, <2>1 DEF Add
  <2>3. cap'[r] = cap[r]
    BY <1>3 DEF Lands
  <2>. QED BY <1>0, <2>1, <2>2, <2>3
<1>4. CASE \/ \E i \in Approve!Ids : ResolveRaise(i) \/ Raise(i)
           \/ \E q \in Caps : SetBudget(q) \/ WindowRolls(q)
           \/ UNCHANGED budgetVars
  <2>1. UNCHANGED <<pc, hold, took>> /\ spent'[r] <= spent[r] /\ cap'[r] >= cap[r]
    BY <1>0, <1>4, WorldStep
  <2>2. OwedBy(r, Calls)' = OwedBy(r, Calls)
    BY <2>1, WorldOwes
  <2>. QED BY <1>0, <2>1, <2>2
<1>. QED BY <1>1, <1>2, <1>3, <1>4, CallCases DEF BudgetNext

LEMMA NothingOwed ==
  ASSUME BudgetInit, NEW r, NEW C
  PROVE  OwedBy(r, C) = 0
<1>1. \A x \in OwingBy(r, C) : hold[x[1]][x[2]] = 0
  BY DEF BudgetInit, NoHold, Taken, Owing, OwingBy
<1>. QED BY <1>1, TotalOfNone DEF OwedBy

LEMMA CapInit == BudgetInit => CapHolds
<1> SUFFICES ASSUME BudgetInit, NEW r \in Settled PROVE spent[r] + Owed(r) <= cap[r]
  BY DEF CapHolds
<1>1. Owed(r) = 0
  BY NothingOwed, AllOwe
<1>2. spent[r] = 0 /\ cap[r] \in Nat
  BY BudgetAssumption DEF BudgetInit, Settled
<1>. QED BY <1>1, <1>2

\* What normal calls have spent, with what those still running may add, is below the
\* reserve line, and is a part of all that was spent.
Line(n) == ReservePct * n
BufferHolds(r, n) == n # 0 => n * 100 < Line(cap[r])
BufferInv ==
  /\ normal \in [Caps -> Nat] /\ \A r \in Caps : normal[r] <= spent[r]
  /\ \A r \in Settled : BufferHolds(r, normal[r] + OwedBy(r, Normal))

LEMMA NormalInWorld ==
  ASSUME MoneyType, BufferInv,
         \/ \E i \in Approve!Ids : ResolveRaise(i) \/ Raise(i)
         \/ \E r \in Caps : SetBudget(r) \/ WindowRolls(r)
         \/ UNCHANGED budgetVars
  PROVE  /\ normal' \in [Caps -> Nat]
         /\ \A r \in Caps : normal'[r] <= spent'[r] /\ normal'[r] <= normal[r]
<1> USE DEF callVars, moneyVars, history, MoneyType, BufferInv
<1>0. ASSUME UNCHANGED <<spent, normal>>
      PROVE  /\ normal' \in [Caps -> Nat]
             /\ \A r \in Caps : normal'[r] <= spent'[r] /\ normal'[r] <= normal[r]
  BY <1>0
<1>1. ASSUME NEW q \in Caps, WindowRolls(q)
      PROVE  /\ normal' \in [Caps -> Nat]
             /\ \A r \in Caps : normal'[r] <= spent'[r] /\ normal'[r] <= normal[r]
  <2>1. spent' = [spent EXCEPT ![q] = 0] /\ normal' = [normal EXCEPT ![q] = 0]
    BY <1>1 DEF WindowRolls
  <2>. QED BY <2>1
<1>2. CASE \/ \E i \in Approve!Ids : ResolveRaise(i) \/ Raise(i)
           \/ \E r \in Caps : SetBudget(r)
           \/ UNCHANGED budgetVars
  <2>1. UNCHANGED <<spent, normal>>
    BY <1>2 DEF ResolveRaise, Raise, SetBudget, budgetVars
  <2>. QED BY <1>0, <2>1
<1>. QED BY <1>1, <1>2

LEMMA LineRises ==
  ASSUME NEW u \in Nat, NEW v \in Nat, u <= v
  PROVE  Line(u) \in Nat /\ Line(v) \in Nat /\ Line(u) <= Line(v)
<1>1. ReservePct \in Nat
  <2>1. ReservePct \in 1..100
    BY BudgetAssumption, Zenon
  <2>. QED BY <2>1
<1>2. ReservePct * u \in Nat /\ ReservePct * v \in Nat /\ ReservePct * u <= ReservePct * v
  BY <1>1
<1>. QED BY <1>2 DEF Line

\* Less money under a line that only moves up.
LEMMA LessIsKept ==
  ASSUME NEW n \in Nat, NEW m \in Nat, NEW u \in Nat, NEW v \in Nat,
         m <= n, u <= v, n # 0 => n * 100 < Line(u)
  PROVE  m # 0 => m * 100 < Line(v)
BY LineRises

LEMMA BufferStep ==
  ASSUME MoneyType, HoldInv, Ledger, MoneyType', [BudgetNext]_budgetVars, BufferInv,
         Overrun = 0, ReservePct < 100, \A r \in Settled : NewCaps[r] = {}
  PROVE  BufferInv'
<1> DEFINE Owe(r) == normal[r] + OwedBy(r, Normal)
<1>0. ASSUME NEW r \in Settled
      PROVE  /\ spent[r] \in Nat /\ cap[r] \in Nat /\ spent'[r] \in Nat /\ cap'[r] \in Nat
             /\ r \in Caps /\ normal[r] \in Nat /\ normal[r] <= spent[r]
             /\ OwedBy(r, Normal) \in Nat /\ reserved[r] >= OwedBy(r, Normal)
             /\ reserved[r] \in Nat /\ BufferHolds(r, Owe(r))
  BY OwedIsHeld DEF MoneyType, BufferInv, Settled
<1>1. /\ normal' \in [Caps -> Nat]
      /\ \A r \in Caps : normal'[r] <= spent'[r]
  <2>1. CASE UNCHANGED <<spent, normal>>
    BY <2>1 DEF BufferInv
  <2>2. ASSUME NEW c \in Calls, Lands(c)
        PROVE  normal' \in [Caps -> Nat] /\ \A r \in Caps : normal'[r] <= spent'[r]
    <3>1. PICK cost \in Nat :
            /\ spent' = Add(spent, Governs[c], cost)
            /\ normal' = IF c \in Normal THEN Add(normal, Governs[c], cost) ELSE normal
      BY <2>2 DEF Lands
    <3>2. \A r \in Caps : spent[r] \in Nat /\ normal[r] \in Nat /\ normal[r] <= spent[r]
      BY DEF MoneyType, BufferInv
    <3>3. CASE c \in Normal
      <4>1. normal' = Add(normal, Governs[c], cost)
        BY <3>1, <3>3
      <4>. QED BY <3>1, <3>2, <4>1 DEF Add
    <3>4. CASE c \notin Normal
      <4>1. normal' = normal
        BY <3>1, <3>4
      <4>. QED BY <3>1, <3>2, <4>1 DEF Add, BufferInv
    <3>. QED BY <3>3, <3>4
  <2>3. ASSUME NEW c \in Calls, Admits(c) \/ Moves(c) \/ Returns(c)
        PROVE  UNCHANGED <<spent, normal>>
    BY <2>3 DEF Admits, Moves, Returns
  <2>4. CASE \/ \E i \in Approve!Ids : ResolveRaise(i) \/ Raise(i)
             \/ \E q \in Caps : SetBudget(q) \/ WindowRolls(q)
             \/ UNCHANGED budgetVars
    BY <2>4, NormalInWorld
  <2>. QED BY <2>1, <2>2, <2>3, <2>4, CallCases DEF BudgetNext
<1>2. ASSUME NEW r \in Settled PROVE BufferHolds(r, Owe(r))'
  <2> USE <1>0, <1>2
  <2>0. normal'[r] \in Nat
    BY <1>1
  <2>1. ASSUME OwedBy(r, Normal)' \in Nat, Owe(r)' <= Owe(r), cap'[r] >= cap[r]
        PROVE  BufferHolds(r, Owe(r))'
    <3> DEFINE n == Owe(r)
               m == Owe(r)'
    <3>1. n \in Nat /\ m \in Nat /\ m <= n /\ cap[r] <= cap'[r]
          /\ (n # 0 => n * 100 < Line(cap[r]))
      BY <2>0, <2>1 DEF BufferHolds
    <3>2. cap[r] \in Nat /\ cap'[r] \in Nat
      OBVIOUS
    <3> HIDE DEF n, m
    <3>3. m # 0 => m * 100 < Line(cap'[r])
      BY <3>1, <3>2, LessIsKept
    <3>. QED BY <3>3 DEF m, BufferHolds
  <2>2. ASSUME NEW c \in Calls, Admits(c) PROVE BufferHolds(r, Owe(r))'
    <3>1. PICK est \in Nat : /\ Admitted(c, est) /\ OwedBy(r, Normal)' \in Nat
                             /\ OwedBy(r, Normal)' = OwedBy(r, Normal)
                                  + (IF c \in Normal /\ r \in Enforced(c) THEN est ELSE 0)
      BY <2>2, AdmittedOwes
    <3>2. UNCHANGED <<cap, normal>>
      BY <2>2 DEF Admits
    <3>3. CASE ~(c \in Normal /\ r \in Enforced(c))
      <4>1. OwedBy(r, Normal)' = OwedBy(r, Normal)
        BY <3>1, <3>3
      <4>2. Owe(r)' <= Owe(r) /\ cap'[r] >= cap[r]
        BY <3>2, <4>1
      <4>. QED BY <2>1, <3>1, <4>2
    <3>4. CASE c \in Normal /\ r \in Enforced(c)
      <4> DEFINE n == Owe(r)'
                 p == Projected(r, est)
                 line == Line(cap[r])
      <4>1. n \in Nat /\ p \in Nat /\ n <= p
        BY <3>1, <3>2, <3>4 DEF Projected
      <4>2. p <= cap[r] /\ (cap[r] > 0 => ~(p * 100 >= line))
        <5>1. ~Over(r, est) /\ ~InReserve(r, est)
          BY <3>1, <3>4 DEF Admitted
        <5>2. cap[r] > 0 => ~(p * 100 >= line)
          <6> HIDE DEF p
          <6>. QED BY <5>1 DEF InReserve, Line, p
        <5>3. p <= cap[r]
          <6> HIDE DEF line
          <6>. QED BY <4>1, <5>1 DEF Over
        <5>. QED BY <5>2, <5>3
      <4>3. line \in Int
        BY LineRises
      <4> HIDE DEF n, p, line
      <4>4. n # 0 => n * 100 < line
        BY <4>1, <4>2, <4>3
      <4>. QED BY <3>2, <4>4 DEF n, line, BufferHolds
    <3>. QED BY <3>3, <3>4
  <2>3. ASSUME NEW c \in Calls, Moves(c) \/ Returns(c) PROVE BufferHolds(r, Owe(r))'
    <3>1. OwedBy(r, Normal)' \in Nat /\ OwedBy(r, Normal)' <= OwedBy(r, Normal)
      BY <2>3, MovedOwes
    <3>2. UNCHANGED <<cap, normal>>
      BY <2>3 DEF Moves, Returns
    <3>3. Owe(r)' <= Owe(r) /\ cap'[r] >= cap[r]
      BY <3>1, <3>2
    <3>. QED BY <2>1, <3>1, <3>3
  <2>4. ASSUME NEW c \in Calls, Lands(c) PROVE BufferHolds(r, Owe(r))'
    <3>1. PICK cost \in Nat :
            /\ normal' = IF c \in Normal THEN Add(normal, Governs[c], cost) ELSE normal
            /\ OwedBy(r, Normal)' \in Nat
            /\ OwedBy(r, Normal)' + (IF c \in Normal /\ r \in Governs[c] THEN cost ELSE 0)
                 <= OwedBy(r, Normal)
      BY <2>4, LandedOwed
    <3>2. normal'[r] = normal[r] + (IF c \in Normal /\ r \in Governs[c] THEN cost ELSE 0)
      BY <3>1 DEF Add
    <3>3. cap'[r] = cap[r]
      BY <2>4 DEF Lands
    <3>4. Owe(r)' <= Owe(r) /\ cap'[r] >= cap[r]
      BY <3>1, <3>2, <3>3
    <3>. QED BY <2>1, <3>1, <3>4
  <2>5. CASE \/ \E i \in Approve!Ids : ResolveRaise(i) \/ Raise(i)
             \/ \E q \in Caps : SetBudget(q) \/ WindowRolls(q)
             \/ UNCHANGED budgetVars
    <3>1. UNCHANGED <<pc, hold, took>> /\ cap'[r] >= cap[r]
      BY <2>5, WorldStep
    <3>2. normal'[r] <= normal[r]
      BY <2>5, NormalInWorld
    <3>3. OwedBy(r, Normal)' = OwedBy(r, Normal)
      BY <3>1, WorldOwes
    <3>4. Owe(r)' <= Owe(r)
      BY <2>0, <3>2, <3>3
    <3>. QED BY <2>1, <3>1, <3>3, <3>4
  <2>. QED BY <2>2, <2>3, <2>4, <2>5, CallCases DEF BudgetNext
<1>. QED BY <1>1, <1>2 DEF BufferInv, Settled

LEMMA BufferInit == BudgetInit => BufferInv
<1> SUFFICES ASSUME BudgetInit PROVE BufferInv
  OBVIOUS
<1>1. /\ normal = [r \in Caps |-> 0] /\ spent = [r \in Caps |-> 0]
      /\ \A r \in Settled : r \in Caps /\ OwedBy(r, Normal) = 0
  BY NothingOwed DEF BudgetInit, Settled
<1>. QED BY <1>1 DEF BufferInv, BufferHolds

\* Whatever calls fall back, fail or die, whoever sets or raises a cap meanwhile: the
\* reservations other calls are gated on cover all that the admitted calls under a cap may
\* still cost (enforce under the row locks, release_reservation in the finally block).
THEOREM CushionIsEnough == BudgetSpec => []CushionCovers
<1>1. BudgetInit => MoneyType /\ HoldInv /\ Ledger
  BY BudgetInitTyped, LedgerInit
<1>2. MoneyType /\ HoldInv /\ Ledger /\ [BudgetNext]_budgetVars => (MoneyType /\ HoldInv /\ Ledger)'
  BY StepTyped, LedgerStep
<1>3. MoneyType /\ HoldInv /\ Ledger => CushionCovers
  BY OwedIsHeld, AllOwe DEF CushionCovers
<1>. QED BY <1>1, <1>2, <1>3, PTL DEF BudgetSpec

\* Any number of concurrent calls, with any estimates and fallbacks, stay within every cap
\* that held from the start, if no call costs more than its estimate and the operator only
\* raises caps, by the approvals enforce asks for.
THEOREM CapsHold ==
  ASSUME Overrun = 0, \A r \in Settled : NewCaps[r] = {}
  PROVE  BudgetSpec => []CapHolds
<1> DEFINE Inv == MoneyType /\ HoldInv /\ Ledger /\ CapHolds
<1>1. BudgetInit => Inv
  BY BudgetInitTyped, LedgerInit, CapInit
<1>2. Inv /\ [BudgetNext]_budgetVars => Inv'
  <2>1. Inv /\ [BudgetNext]_budgetVars => (MoneyType /\ HoldInv /\ Ledger)'
    BY StepTyped, LedgerStep
  <2>. QED BY <2>1, CapStep
<1>. QED BY <1>1, <1>2, PTL DEF BudgetSpec

\* However many normal calls run at once, what they have spent under a cap stays below its
\* reserve line (enforce withholds a normal call in the reserve zone), if no call costs more
\* than its estimate and the operator only raises caps.
THEOREM ReserveIsProtected ==
  ASSUME Overrun = 0, ReservePct < 100, \A r \in Settled : NewCaps[r] = {}
  PROVE  BudgetSpec => []ReserveIsKept
<1> DEFINE Inv == MoneyType /\ HoldInv /\ Ledger /\ BufferInv
<1>1. BudgetInit => Inv
  BY BudgetInitTyped, LedgerInit, BufferInit
<1>2. Inv /\ [BudgetNext]_budgetVars => Inv'
  <2>1. Inv /\ [BudgetNext]_budgetVars => (MoneyType /\ HoldInv /\ Ledger)'
    BY StepTyped, LedgerStep
  <2>. QED BY <2>1, BufferStep
<1>3. Inv => ReserveIsKept
  <2> SUFFICES ASSUME Inv, NEW r \in Settled, normal[r] # 0
               PROVE  normal[r] * 100 < ReservePct * cap[r]
    BY DEF ReserveIsKept
  <2> DEFINE n == normal[r] + OwedBy(r, Normal)
             line == Line(cap[r])
  <2>1. normal[r] \in Nat /\ OwedBy(r, Normal) \in Nat /\ n # 0 /\ line \in Int
    BY OwedIsHeld, LineRises DEF MoneyType, BufferInv, Settled
  <2>2. n * 100 < line
    BY <2>1 DEF BufferInv, BufferHolds
  <2>3. normal[r] <= n
    BY <2>1
  <2> HIDE DEF line
  <2>4. normal[r] * 100 < line
    BY <2>1, <2>2, <2>3
  <2>. QED BY <2>4 DEF line, Line
<1>. QED BY <1>1, <1>2, <1>3, PTL DEF BudgetSpec

-----------------------------------------------------------------------------
(* Sequences that grow                                                       *)

Sequence(s) == \E S : s \in Seq(S)

LEMMA Grown ==
  ASSUME NEW s, Sequence(s), NEW x
  PROVE  /\ Sequence(Append(s, x)) /\ Len(s) \in Nat
         /\ DOMAIN s = 1..Len(s) /\ DOMAIN Append(s, x) = 1..(Len(s) + 1)
         /\ Len(Append(s, x)) = Len(s) + 1
         /\ \A k \in 1..Len(s) : Append(s, x)[k] = s[k]
         /\ Append(s, x)[Len(s) + 1] = x
<1>1. PICK S : s \in Seq(S)
  BY DEF Sequence
<1>2. s \in Seq(S \cup {x}) /\ x \in S \cup {x}
  BY <1>1, SeqMonotonic
<1>3. /\ Append(s, x) \in Seq(S \cup {x})
      /\ Len(Append(s, x)) = Len(s) + 1
      /\ \A k \in 1..Len(s) : Append(s, x)[k] = s[k]
      /\ Append(s, x)[Len(s) + 1] = x
  BY <1>2, AppendProperties
<1>4. Len(s) \in Nat /\ DOMAIN s = 1..Len(s)
      /\ DOMAIN Append(s, x) = 1..Len(Append(s, x))
  BY <1>2, <1>3, LenProperties
<1> QED
  BY <1>3, <1>4 DEF Sequence

LEMMA FirstPart ==
  ASSUME NEW S, NEW t, NEW k \in Nat \ {0}, \A i \in 1..k : t[i] \in S
  PROVE  /\ SubSeq(t, 1, k) \in Seq(S) /\ Len(SubSeq(t, 1, k)) = k
         /\ \A i \in 1..k : SubSeq(t, 1, k)[i] = t[i]
<1>1. k \in Int /\ 1 \in Int /\ 1..(k - 1 + 1) = 1..k /\ 1 <= k /\ k - 1 + 1 = k
  OBVIOUS
<1>2. /\ SubSeq(t, 1, k) \in Seq(S)
      /\ Len(SubSeq(t, 1, k)) = IF 1 <= k THEN k - 1 + 1 ELSE 0
      /\ \A i \in 1..(k - 1 + 1) : SubSeq(t, 1, k)[i] = t[1 + i - 1]
  BY <1>1, SubSeqProperties
<1>3. \A i \in 1..k : 1 + i - 1 = i
  OBVIOUS
<1> QED
  BY <1>1, <1>2, <1>3

LEMMA Prefix ==
  ASSUME NEW s, Sequence(s), NEW x, NEW k \in 1..Len(s)
  PROVE  SubSeq(Append(s, x), 1, k) = SubSeq(s, 1, k)
<1>1. PICK S : s \in Seq(S)
  BY DEF Sequence
<1>2. /\ Len(s) \in Nat /\ Len(Append(s, x)) = Len(s) + 1
      /\ \A i \in 1..Len(s) : Append(s, x)[i] = s[i]
  BY Grown
<1>3. k \in Nat \ {0} /\ \A i \in 1..k : s[i] \in S /\ Append(s, x)[i] \in S
  BY <1>1, <1>2, ElementOfSeq
<1>4. /\ SubSeq(s, 1, k) \in Seq(S) /\ Len(SubSeq(s, 1, k)) = k
      /\ \A i \in 1..k : SubSeq(s, 1, k)[i] = s[i]
  BY <1>3, FirstPart
<1>5. ASSUME NEW t, t = Append(s, x)
      PROVE  /\ SubSeq(t, 1, k) \in Seq(S) /\ Len(SubSeq(t, 1, k)) = k
             /\ \A i \in 1..k : SubSeq(t, 1, k)[i] = s[i]
  <2>1. \A i \in 1..Len(s) : t[i] = s[i]
    BY <1>2, <1>5, Zenon
  <2>2. \A i \in 1..k : t[i] = s[i] /\ t[i] \in S
    BY <1>2, <1>3, <2>1
  <2>3. /\ SubSeq(t, 1, k) \in Seq(S) /\ Len(SubSeq(t, 1, k)) = k
        /\ \A i \in 1..k : SubSeq(t, 1, k)[i] = t[i]
    BY <1>3, <2>2, FirstPart
  <2> QED
    BY <2>2, <2>3
<1>6. ASSUME NEW t, t = Append(s, x) PROVE SubSeq(t, 1, k) = SubSeq(s, 1, k)
  <2>1. /\ SubSeq(t, 1, k) \in Seq(S) /\ Len(SubSeq(t, 1, k)) = k
        /\ \A i \in 1..k : SubSeq(t, 1, k)[i] = s[i]
    BY <1>5, <1>6, Zenon
  <2> QED
    BY <1>4, <2>1, SeqEqual
<1> QED
  BY <1>6, Zenon

-----------------------------------------------------------------------------
(* What a verdict rests on                                                   *)

Deserves(e, v, total) ==
  LET m == exp[e].metric IN
  /\ total \in Nat
  /\ Meets(m, v)
  /\ exp[e].budget # NoBudget => total <= exp[e].budget
  /\ total <= spend[e]
  /\ IF m.name = "cost" THEN v = total
     ELSE \E k \in 1..Len(obs[e]) : v = Aggregate(m.agg, SubSeq(obs[e], 1, k))

Columns == {"metric", "budget", "status", "observed", "spent"}

Tables ==
  /\ Sequence(exp) /\ Len(exp) <= MaxExperiments
  /\ \A e \in Exps :
       /\ DOMAIN exp[e] = Columns
       /\ exp[e].budget \in Int
  /\ DOMAIN obs = 1..MaxExperiments
  /\ \A e \in 1..MaxExperiments : Sequence(obs[e])
  /\ spend \in [1..MaxExperiments -> Nat]

Kept == \A e \in Exps : exp[e].status \in {"kept", "scaled"} =>
                          Deserves(e, exp[e].observed, exp[e].spent)

\* What a caller carries from one statement to the next.
Good(j) ==
  /\ j.op \in {"analyze", "observe"} => {"op", "seen"} \subseteq DOMAIN j
  /\ j.op = "fix" => {"op", "found"} \subseteq DOMAIN j
  /\ j.op = "start" => {"op", "e"} \subseteq DOMAIN j
  /\ j.op = "observe" => "e" \in DOMAIN j
  /\ j.op \in {"start", "started", "observe", "check", "measure", "judge", "verdict", "ask",
               "insert"}
       => j.e \in Exps
  /\ j.op = "judge" => j.spent \in Nat /\ j.spent <= spend[j.e]
  /\ j.op = "verdict" =>
       /\ j.decision \in {"kept", "scaled", "killed"}
       /\ j.decision # "killed" => Deserves(j.e, j.v, j.spent)

Carried == DOMAIN job = Callers /\ \A c \in Callers : Good(job[c])

IInv == Tables /\ Kept /\ Carried

LEMMA ExpsAre ==
  ASSUME Tables
  PROVE  Len(exp) \in Nat /\ DOMAIN exp = Exps /\ Exps \subseteq 1..MaxExperiments
BY Grown, ExperimentsAssumption DEF Tables, Exps

-----------------------------------------------------------------------------
(* Facts only accumulate: what a verdict rests on stays true.                *)

Grows ==
  /\ Exps \subseteq Exps'
  /\ \A e \in Exps : exp'[e].metric = exp[e].metric /\ exp'[e].budget = exp[e].budget
  /\ \A e \in 1..MaxExperiments :
       /\ spend[e] \in Nat /\ spend'[e] \in Nat /\ spend[e] <= spend'[e]
       /\ \A k \in 1..Len(obs[e]) :
            k \in 1..Len(obs'[e]) /\ SubSeq(obs'[e], 1, k) = SubSeq(obs[e], 1, k)

LEMMA DeservesStays ==
  ASSUME Tables, Grows, NEW e \in Exps, NEW v, NEW total, Deserves(e, v, total)
  PROVE  Deserves(e, v, total)'
<1>1. e \in 1..MaxExperiments
  BY ExpsAre
<1>2. exp'[e].metric = exp[e].metric /\ exp'[e].budget = exp[e].budget
  BY DEF Grows
<1>3. total <= spend'[e]
  BY <1>1 DEF Grows, Deserves
<1>4. CASE exp[e].metric.name = "cost"
  BY <1>2, <1>3, <1>4 DEF Deserves
<1>5. CASE exp[e].metric.name # "cost"
  <2>1. PICK k \in 1..Len(obs[e]) : v = Aggregate(exp[e].metric.agg, SubSeq(obs[e], 1, k))
    BY <1>5 DEF Deserves
  <2>2. k \in 1..Len(obs'[e]) /\ SubSeq(obs'[e], 1, k) = SubSeq(obs[e], 1, k)
    BY <1>1 DEF Grows
  <2>3. v = Aggregate(exp'[e].metric.agg, SubSeq(obs'[e], 1, k))
    BY <1>2, <2>1, <2>2
  <2> QED
    BY <1>2, <1>3, <1>5, <2>2, <2>3 DEF Deserves
<1> QED
  BY <1>4, <1>5

LEMMA GoodStays ==
  ASSUME Tables, Grows, NEW j, Good(j)
  PROVE  Good(j)'
<1>1. \A e \in Exps : e \in Exps' /\ e \in 1..MaxExperiments
  BY ExpsAre DEF Grows
<1>2. ASSUME j.op = "judge" PROVE j.spent \in Nat /\ j.spent <= spend'[j.e]
  <2>1. j.spent \in Nat /\ j.spent <= spend[j.e] /\ j.e \in 1..MaxExperiments
    BY <1>1, <1>2 DEF Good
  <2>2. spend[j.e] \in Nat /\ spend'[j.e] \in Nat /\ spend[j.e] <= spend'[j.e]
    BY <2>1 DEF Grows
  <2> QED
    BY <2>1, <2>2
<1>3. ASSUME j.op = "verdict", j.decision # "killed" PROVE Deserves(j.e, j.v, j.spent)'
  BY <1>3, DeservesStays DEF Good
<1> QED
  BY <1>1, <1>2, <1>3 DEF Good

\* A call goes on with what it may carry; the others carry what they did.
LEMMA CallCarries ==
  ASSUME Tables, Grows, Carried, NEW c \in Callers, NEW j, Become(c, j), Good(j)'
  PROVE  Carried'
<1>1. DOMAIN job' = Callers /\ job'[c] = j /\ \A x \in Callers \ {c} : job'[x] = job[x]
  BY DEF Become, Carried
<1>2. ASSUME NEW x \in Callers \ {c} PROVE Good(job[x])'
  <2>1. PICK i : i = job[x]
    OBVIOUS
  <2>2. Good(i)'
    BY <2>1, GoodStays DEF Carried
  <2>3. job'[x] = i
    BY <1>1, <2>1
  <2> QED
    BY <2>2, <2>3
<1>3. Good(job[c])'
  BY <1>1
<1> QED
  BY <1>1, <1>2, <1>3 DEF Carried

LEMMA OthersCarry ==
  ASSUME Tables, Grows, Carried, UNCHANGED job
  PROVE  Carried'
<1>1. ASSUME NEW x \in Callers PROVE Good(job[x])'
  <2>1. PICK i : i = job[x]
    OBVIOUS
  <2>2. Good(i)'
    BY <2>1, GoodStays DEF Carried
  <2> QED
    BY <2>1, <2>2
<1> QED
  BY <1>1 DEF Carried

-----------------------------------------------------------------------------
(* What the steps do to the tables                                           *)

Unmoved == exp' = exp \/ \E x : exp' = Append(exp, x)

LEMMA StillKeeps ==
  ASSUME Tables, Kept, UNCHANGED <<exp, obs, spend>>
  PROVE  Tables' /\ Kept' /\ Grows /\ Unmoved
BY ExpsAre DEF Tables, Kept, Grows, Exps, Deserves, Unmoved

\* A new experiment is only proposed.
LEMMA ProposeKeeps ==
  ASSUME Tables, Kept, NEW spec, Propose(spec), spec.budget \in Int
  PROVE  Tables' /\ Kept' /\ Grows /\ Unmoved
<1> DEFINE x == [metric |-> spec.metric, budget |-> spec.budget,
                 status |-> "proposed", observed |-> None, spent |-> 0]
<1>1. exp' = Append(exp, x) /\ Len(exp) < MaxExperiments /\ UNCHANGED <<obs, spend>>
  BY DEF Propose
<1>2. /\ DOMAIN x = Columns /\ x.budget \in Int /\ x.status = "proposed"
  BY DEF Columns
<1> HIDE DEF x
<1>3. /\ Sequence(exp') /\ Len(exp) \in Nat /\ Len(exp') = Len(exp) + 1
      /\ \A k \in 1..Len(exp) : exp'[k] = exp[k]
      /\ exp'[Len(exp) + 1] = x
  BY <1>1, Grown DEF Tables
<1>4. Exps' = Exps \cup {Len(exp) + 1} /\ Len(exp) + 1 \notin Exps
  BY <1>3 DEF Exps
<1>5. \A e \in Exps : exp'[e] = exp[e]
  BY <1>3 DEF Exps
<1>6. Tables'
  <2>1. Len(exp') <= MaxExperiments
    BY <1>1, <1>3, ExperimentsAssumption
  <2>2. \A e \in Exps' : DOMAIN exp'[e] = Columns /\ exp'[e].budget \in Int
    BY <1>2, <1>3, <1>4, <1>5 DEF Tables
  <2> QED
    BY <1>1, <1>3, <2>1, <2>2 DEF Tables
<1>7. Grows
  <2>1. \A e \in 1..MaxExperiments : spend[e] \in Nat /\ spend[e] <= spend[e]
    BY DEF Tables
  <2> QED
    BY <1>1, <1>4, <1>5, <2>1 DEF Grows
<1>8. Kept'
  <2>1. ASSUME NEW e \in Exps', exp'[e].status \in {"kept", "scaled"}
        PROVE  e \in Exps /\ exp'[e] = exp[e]
    BY <1>2, <1>3, <1>4, <1>5, <2>1
  <2>2. ASSUME NEW e \in Exps, exp[e].status \in {"kept", "scaled"}, exp'[e] = exp[e]
        PROVE  Deserves(e, exp[e].observed, exp[e].spent)'
    <3>1. PICK v, w : v = exp[e].observed /\ w = exp[e].spent
      OBVIOUS
    <3>2. Deserves(e, v, w)'
      BY <1>7, <2>2, <3>1, DeservesStays DEF Kept
    <3> QED
      BY <2>2, <3>1, <3>2
  <2> QED
    BY <2>1, <2>2 DEF Kept
<1> QED
  BY <1>1, <1>6, <1>7, <1>8 DEF Unmoved

\* A row is rewritten, its metric and budget left alone; what it says it deserves.
LEMMA UpdateKeeps ==
  ASSUME Tables, Kept, NEW e \in Exps, NEW r, exp' = [exp EXCEPT ![e] = r],
         DOMAIN r = Columns, r.metric = exp[e].metric, r.budget = exp[e].budget,
         UNCHANGED <<obs, spend>>,
         r.status \in {"kept", "scaled"} => Deserves(e, r.observed, r.spent)
  PROVE  /\ Tables' /\ Kept' /\ Grows
         /\ Exps' = Exps /\ exp'[e] = r /\ \A x \in Exps \ {e} : exp'[x] = exp[x]
<1>1. PICK S : exp \in Seq(S)
  BY DEF Tables, Sequence
<1>2. exp \in Seq(S \cup {r})
  BY <1>1, SeqMonotonic
<1>3. exp' \in Seq(S \cup {r}) /\ Len(exp') = Len(exp)
  BY <1>2, ExceptSeq DEF Exps
<1>4. exp'[e] = r /\ \A x \in Exps \ {e} : exp'[x] = exp[x]
  BY ExpsAre
<1>5. Exps' = Exps
  BY <1>3 DEF Exps
<1>6. Tables'
  BY <1>3, <1>4, <1>5 DEF Tables, Sequence
<1>7. Grows
  BY <1>4, <1>5, ExpsAre DEF Grows, Tables
<1>8. Kept'
  <2>1. ASSUME NEW x \in Exps, exp'[x].status \in {"kept", "scaled"}
        PROVE  Deserves(x, exp[x].observed, exp[x].spent)'
    <3>1. PICK v, w : v = exp'[x].observed /\ w = exp'[x].spent
      OBVIOUS
    <3>2. Deserves(x, v, w)
      BY <1>4, <2>1, <3>1 DEF Kept
    <3>3. Deserves(x, v, w)'
      BY <1>7, <3>2, DeservesStays
    <3> QED
      BY <3>1, <3>3
  <2> QED
    BY <1>5, <2>1 DEF Kept
<1> QED
  BY <1>4, <1>5, <1>6, <1>7, <1>8

\* Spend goes up, and observations are appended.
LEMMA FactsKeep ==
  ASSUME Tables, Kept, UNCHANGED exp, NEW e \in 1..MaxExperiments,
         spend' \in {spend, [spend EXCEPT ![e] = @ + 1]},
         obs' = obs \/ \E v : obs' = [obs EXCEPT ![e] = Append(@, v)]
  PROVE  Tables' /\ Kept' /\ Grows /\ Unmoved
<1>0. Exps' = Exps
  BY DEF Exps
<1>1. /\ spend' \in [1..MaxExperiments -> Nat]
      /\ \A x \in 1..MaxExperiments :
           spend[x] \in Nat /\ spend'[x] \in Nat /\ spend[x] <= spend'[x]
  <2>1. spend \in [1..MaxExperiments -> Nat]
    BY DEF Tables
  <2>2. CASE spend' = spend
    BY <2>1, <2>2
  <2>3. CASE spend' = [spend EXCEPT ![e] = @ + 1]
    BY <2>1, <2>3
  <2> QED
    BY <2>2, <2>3
<1>2. /\ DOMAIN obs' = 1..MaxExperiments
      /\ \A x \in 1..MaxExperiments : obs'[x] = obs[x] \/ \E v : obs'[x] = Append(obs[x], v)
  BY DEF Tables
<1>3. ASSUME NEW x \in 1..MaxExperiments
      PROVE  /\ Sequence(obs'[x])
             /\ \A k \in 1..Len(obs[x]) :
                  k \in 1..Len(obs'[x]) /\ SubSeq(obs'[x], 1, k) = SubSeq(obs[x], 1, k)
  <2>1. Sequence(obs[x])
    BY DEF Tables
  <2>2. CASE obs'[x] = obs[x]
    BY <2>1, <2>2
  <2>3. ASSUME NEW v, obs'[x] = Append(obs[x], v)
        PROVE  /\ Sequence(obs'[x])
               /\ \A k \in 1..Len(obs[x]) :
                    k \in 1..Len(obs'[x]) /\ SubSeq(obs'[x], 1, k) = SubSeq(obs[x], 1, k)
    <3>1. Sequence(obs'[x]) /\ Len(obs[x]) \in Nat /\ Len(obs'[x]) = Len(obs[x]) + 1
      BY <2>1, <2>3, Grown
    <3>2. \A k \in 1..Len(obs[x]) : SubSeq(obs'[x], 1, k) = SubSeq(obs[x], 1, k)
      BY <2>1, <2>3, Prefix
    <3> QED
      BY <3>1, <3>2
  <2> QED
    BY <1>2, <2>2, <2>3
<1>4. Tables'
  BY <1>0, <1>1, <1>2, <1>3 DEF Tables
<1>5. Grows
  BY <1>0, <1>1, <1>3 DEF Grows
<1>6. Kept'
  <2>1. ASSUME NEW x \in Exps, exp[x].status \in {"kept", "scaled"}
        PROVE  Deserves(x, exp[x].observed, exp[x].spent)'
    <3>1. PICK v, w : v = exp[x].observed /\ w = exp[x].spent
      OBVIOUS
    <3>2. Deserves(x, v, w)'
      BY <1>5, <2>1, <3>1, DeservesStays DEF Kept
    <3> QED
      BY <3>1, <3>2
  <2> QED
    BY <1>0, <2>1 DEF Kept
<1> QED
  BY <1>4, <1>5, <1>6 DEF Unmoved

-----------------------------------------------------------------------------
(* The steps                                                                 *)

FinalStep ==
  /\ Exps \subseteq Exps'
  /\ \A e \in Exps :
       \/ exp'[e] = exp[e]
       \/ exp[e].status = "proposed" /\ exp'[e].status = "running"
       \/ exp[e].status = "running" /\ exp'[e].status \in Transitions["evaluated"]

LEMMA UnmovedIsFinal ==
  ASSUME Tables, Unmoved
  PROVE  FinalStep
<1>1. CASE exp' = exp
  BY <1>1 DEF FinalStep, Exps
<1>2. ASSUME NEW x, exp' = Append(exp, x) PROVE FinalStep
  <2>1. /\ Len(exp) \in Nat /\ Len(exp') = Len(exp) + 1
        /\ \A k \in 1..Len(exp) : exp'[k] = exp[k]
    BY <1>2, Grown DEF Tables
  <2> QED
    BY <2>1 DEF FinalStep, Exps
<1> QED
  BY <1>1, <1>2 DEF Unmoved

LEMMA QuietCall ==
  ASSUME IInv, NEW c \in Callers, NEW j, Become(c, j), Good(j), UNCHANGED <<exp, obs, spend>>
  PROVE  IInv' /\ FinalStep
BY StillKeeps, GoodStays, CallCarries, UnmovedIsFinal DEF IInv

LEMMA IdleIsGood == Good(Idle) /\ Good(Idle)'
BY DEF Good, Idle

LEMMA BeginKeeps ==
  ASSUME IInv, NEW c \in Callers,
         \/ Analyze(c)
         \/ \E e \in Exps : Start(c, e) \/ Evaluate(c, e)
         \/ \E e \in Fixes, since \in 0..Len(log) : Observe(c, e, since)
  PROVE  IInv' /\ FinalStep
<1>1. ASSUME NEW j, Begin(c, j), Good(j) PROVE IInv' /\ FinalStep
  BY <1>1, QuietCall DEF Begin, bets
<1>2. CASE Analyze(c)
  <2>1. PICK j : j = [op |-> "analyze", since |-> 0, seen |-> <<>>]
    OBVIOUS
  <2>2. Begin(c, j) /\ Good(j)
    BY <1>2, <2>1 DEF Analyze, Good
  <2> QED
    BY <1>1, <2>2
<1>3. ASSUME NEW e \in Exps, Start(c, e) PROVE IInv' /\ FinalStep
  <2>1. PICK j : j = [op |-> "start", e |-> e]
    OBVIOUS
  <2>2. Begin(c, j) /\ Good(j)
    BY <1>3, <2>1 DEF Start, Good
  <2> QED
    BY <1>1, <2>2
<1>4. ASSUME NEW e \in Exps, Evaluate(c, e) PROVE IInv' /\ FinalStep
  <2>1. PICK j : j = [op |-> "check", e |-> e]
    OBVIOUS
  <2>2. Begin(c, j) /\ Good(j)
    BY <1>4, <2>1 DEF Evaluate, Good
  <2> QED
    BY <1>1, <2>2
<1>5. ASSUME NEW e \in Fixes, NEW since, Observe(c, e, since) PROVE IInv' /\ FinalStep
  <2>1. PICK j : j = [op |-> "observe", e |-> e, since |-> since, seen |-> <<>>]
    OBVIOUS
  <2>2. Begin(c, j) /\ Good(j)
    BY <1>5, <2>1 DEF Observe, Good, Fixes
  <2> QED
    BY <1>1, <2>2
<1> QED
  BY <1>2, <1>3, <1>4, <1>5

\* The calls that only read, decide or ask.
LEMMA ThinkingKeeps ==
  ASSUME IInv, NEW c \in Callers,
         \/ Reads(c) \/ Raises(c) \/ Detects(c) \/ Analyzed(c) \/ Enqueue(c)
         \/ Checks(c) \/ MeasuresSpend(c) \/ ComesSecond(c) \/ Asks(c) \/ Inserts(c) \/ Dies(c)
  PROVE  IInv' /\ FinalStep
<1>0. Good(job[c])
  BY DEF IInv, Carried
<1>1. CASE Raises(c) \/ Analyzed(c) \/ ComesSecond(c) \/ Inserts(c) \/ Dies(c)
  <2>1. Become(c, Idle) /\ UNCHANGED <<exp, obs, spend>>
    BY <1>1 DEF Raises, Analyzed, ComesSecond, Inserts, Dies, Goes, bets
  <2>2. PICK j : j = Idle
    OBVIOUS
  <2>3. Become(c, j) /\ Good(j)
    BY <2>1, <2>2, IdleIsGood
  <2> QED
    BY <2>1, <2>3, QuietCall
<1>2. CASE Reads(c)
  <2>1. PICK j : j = [job[c] EXCEPT !.seen = Append(@, Len(log))]
    OBVIOUS
  <2>2. Become(c, j) /\ UNCHANGED <<exp, obs, spend>> /\ job[c].op \in {"analyze", "observe"}
    BY <1>2, <2>1 DEF Reads, Goes, bets
  <2>3. /\ DOMAIN j = DOMAIN job[c] /\ j.op = job[c].op
        /\ j.op = "observe" => j.e = job[c].e
    BY <1>0, <2>1, <2>2 DEF Good
  <2>4. Good(j)
    BY <1>0, <2>2, <2>3 DEF Good
  <2> QED
    BY <2>2, <2>4, QuietCall
<1>3. CASE Detects(c)
  <2>1. PICK j : j = [op |-> "fix", found |-> Detect(Report(c))]
    OBVIOUS
  <2>2. Become(c, j) /\ UNCHANGED <<exp, obs, spend>> /\ Good(j)
    BY <1>3, <2>1 DEF Detects, Goes, bets, Good
  <2> QED
    BY <2>2, QuietCall
<1>4. CASE Enqueue(c)
  <2>1. PICK j : j = [job[c] EXCEPT !.op = "started"]
    OBVIOUS
  <2>2. Become(c, j) /\ UNCHANGED <<exp, obs, spend>> /\ job[c].op = "start"
    BY <1>4, <2>1 DEF Enqueue
  <2>3. j.op = "started" /\ j.e = job[c].e /\ j.e \in Exps
    BY <1>0, <2>1, <2>2 DEF Good
  <2>4. Good(j)
    BY <2>3 DEF Good
  <2> QED
    BY <2>2, <2>4, QuietCall
<1>5. CASE Checks(c)
  <2>1. PICK j : /\ Become(c, j) /\ UNCHANGED <<exp, obs, spend>>
                 /\ j = Idle \/ j = [op |-> "measure", e |-> job[c].e]
    BY <1>5 DEF Checks, Goes, bets
  <2>2. job[c].e \in Exps
    BY <1>0, <1>5 DEF Checks, Good
  <2>3. Good(j)
    BY <2>1, <2>2 DEF Good, Idle
  <2> QED
    BY <2>1, <2>3, QuietCall
<1>6. CASE MeasuresSpend(c)
  <2>1. PICK j : j = [op |-> "judge", e |-> job[c].e, spent |-> spend[job[c].e]]
    OBVIOUS
  <2>2. Become(c, j) /\ UNCHANGED <<exp, obs, spend>> /\ job[c].op = "measure"
    BY <1>6, <2>1 DEF MeasuresSpend, Goes, bets
  <2>3. j.e \in Exps /\ j.spent = spend[j.e] /\ j.spent \in Nat
    BY <1>0, <2>1, <2>2, ExpsAre DEF Good, IInv, Tables
  <2>4. Good(j)
    BY <2>1, <2>3 DEF Good
  <2> QED
    BY <2>2, <2>4, QuietCall
<1>7. CASE Asks(c)
  <2>1. PICK j : /\ Become(c, j) /\ UNCHANGED <<exp, obs, spend>>
                 /\ j = Idle \/ j = [op |-> "insert", e |-> job[c].e]
    BY <1>7 DEF Asks, Goes, bets
  <2>2. job[c].e \in Exps
    BY <1>0, <1>7 DEF Asks, Good
  <2>3. Good(j)
    BY <2>1, <2>2 DEF Good, Idle
  <2> QED
    BY <2>1, <2>3, QuietCall
<1> QED
  BY <1>1, <1>2, <1>3, <1>4, <1>5, <1>6, <1>7

\* decide_outcome: what is not killed deserves it.
LEMMA DecisionIsDeserved ==
  ASSUME Tables, NEW e \in Exps, NEW total \in Nat, total <= spend[e],
         NEW v, v = Observed(exp[e].metric, obs[e], total),
         NEW d, d = DecideOutcome(exp[e], v, total)
  PROVE  d \in {"kept", "scaled", "killed"} /\ (d # "killed" => Deserves(e, v, total))
<1>1. d \in {"kept", "scaled", "killed"}
  BY DEF DecideOutcome, Judge
<1>2. ASSUME d # "killed" PROVE Deserves(e, v, total)
  <2>1. ~OverBudget(total, exp[e].budget) /\ v # None /\ Meets(exp[e].metric, v)
    BY <1>2 DEF DecideOutcome, Judge
  <2>2. exp[e].budget # NoBudget => total <= exp[e].budget
    BY <2>1 DEF OverBudget, Tables
  <2>3. CASE exp[e].metric.name = "cost"
    BY <2>1, <2>2, <2>3 DEF Observed, Deserves
  <2>4. CASE exp[e].metric.name # "cost"
    <3>1. obs[e] # <<>> /\ v = Aggregate(exp[e].metric.agg, obs[e])
      BY <2>1, <2>4 DEF Observed
    <3>2. PICK S : obs[e] \in Seq(S)
      BY ExpsAre DEF Tables, Sequence
    <3>3. SubSeq(obs[e], 1, Len(obs[e])) = obs[e] /\ Len(obs[e]) \in 1..Len(obs[e])
      BY <3>1, <3>2, SubSeqFull, EmptySeq, LenProperties
    <3> QED
      BY <2>1, <2>2, <2>4, <3>1, <3>3 DEF Deserves
  <2> QED
    BY <2>3, <2>4
<1> QED
  BY <1>1, <1>2

LEMMA JudgesKeeps ==
  ASSUME IInv, NEW c \in Callers, Judges(c)
  PROVE  IInv' /\ FinalStep
<1>0. Good(job[c]) /\ job[c].op = "judge"
  BY DEF IInv, Carried, Judges
<1>1. PICK e, total : e = job[c].e /\ total = job[c].spent
  OBVIOUS
<1>2. PICK v : v = Observed(exp[e].metric, obs[e], total)
  OBVIOUS
<1>3. PICK d : d = DecideOutcome(exp[e], v, total)
  OBVIOUS
<1>4. e \in Exps /\ total \in Nat /\ total <= spend[e]
  BY <1>0, <1>1 DEF Good
<1>5. PICK j : j = [op |-> "verdict", e |-> e, spent |-> total, v |-> v, decision |-> d]
  OBVIOUS
<1>6. Become(c, j) /\ UNCHANGED <<exp, obs, spend>>
  BY <1>1, <1>2, <1>3, <1>5 DEF Judges, Goes, bets
<1>7. Good(j)
  BY <1>2, <1>3, <1>4, <1>5, DecisionIsDeserved DEF Good, IInv
<1> QED
  BY <1>6, <1>7, QuietCall

LEMMA WritingKeeps ==
  ASSUME IInv, NEW c \in Callers,
         (\E p \in Patterns : ProposeFix(c, p)) \/ RecordsRate(c)
  PROVE  IInv' /\ FinalStep
<1>0. Good(job[c]) /\ Tables /\ Kept /\ Carried
  BY DEF IInv, Carried
<1>1. ASSUME NEW p \in Patterns, ProposeFix(c, p) PROVE IInv' /\ FinalStep
  <2>1. Tables' /\ Kept' /\ Grows /\ Unmoved
    <3>1. PICK spec : spec = FixFor(p)
      OBVIOUS
    <3>2. Propose(spec) /\ spec.budget \in Int
      BY <1>1, <3>1 DEF ProposeFix, FixFor, NoBudget
    <3> QED
      BY <1>0, <3>2, ProposeKeeps
  <2>2. PICK j : j = [job[c] EXCEPT !.found = @ \ {p}]
    OBVIOUS
  <2>3. Become(c, j) /\ j.op = "fix" /\ DOMAIN j = DOMAIN job[c] /\ job[c].op = "fix"
    BY <1>0, <1>1, <2>2 DEF ProposeFix, Good
  <2>4. Good(j)'
    BY <1>0, <2>3 DEF Good
  <2> QED
    BY <1>0, <2>1, <2>3, <2>4, CallCarries, UnmovedIsFinal DEF IInv
<1>2. CASE RecordsRate(c)
  <2>1. PICK e : e = job[c].e
    OBVIOUS
  <2>2. e \in Exps /\ e \in 1..MaxExperiments
    BY <1>0, <1>2, <2>1, ExpsAre DEF RecordsRate, IsRead, Good
  <2>3. /\ UNCHANGED <<exp, spend>>
        /\ obs' = obs \/ \E v : obs' = [obs EXCEPT ![e] = Append(@, v)]
    BY <1>2, <2>1 DEF RecordsRate
  <2>4. Tables' /\ Kept' /\ Grows /\ Unmoved
    BY <1>0, <2>2, <2>3, FactsKeep
  <2>5. PICK j : j = [op |-> "check", e |-> e]
    OBVIOUS
  <2>6. Become(c, j)
    BY <1>2, <2>1, <2>5 DEF RecordsRate
  <2>7. Good(j)'
    BY <2>2, <2>4, <2>5 DEF Good, Grows
  <2> QED
    BY <1>0, <2>4, <2>6, <2>7, CallCarries, UnmovedIsFinal DEF IInv
<1> QED
  BY <1>1, <1>2

\* start_experiment's and evaluate_experiment's UPDATEs, each guarded by the status.
LEMMA UpdatingKeeps ==
  ASSUME IInv, NEW c \in Callers, Started(c) \/ Commits(c)
  PROVE  IInv' /\ FinalStep
<1>0. Good(job[c]) /\ Tables /\ Kept /\ Carried
  BY DEF IInv, Carried
<1>1. PICK e : e = job[c].e
  OBVIOUS
<1>2. e \in Exps
  BY <1>0, <1>1 DEF Started, Commits, Good
<1>3. DOMAIN exp[e] = Columns
  BY <1>0, <1>2 DEF Tables
<1>4. CASE Started(c) /\ ~Startable(e)
  <2>1. PICK j : j = Idle
    OBVIOUS
  <2>2. Become(c, j) /\ Good(j) /\ UNCHANGED <<exp, obs, spend>>
    BY <1>1, <1>4, <2>1, IdleIsGood DEF Started
  <2> QED
    BY <2>2, QuietCall
<1>5. CASE Started(c) /\ Startable(e)
  <2>1. PICK r : r = [exp[e] EXCEPT !.status = "running"]
    OBVIOUS
  <2>2. /\ DOMAIN r = Columns /\ r.metric = exp[e].metric /\ r.budget = exp[e].budget
        /\ r.status = "running" /\ exp[e].status = "proposed"
    BY <1>3, <1>5, <2>1 DEF Columns, Startable
  <2>3. exp' = [exp EXCEPT ![e] = r] /\ UNCHANGED <<obs, spend>> /\ Become(c, Idle)
    BY <1>1, <1>5, <2>1 DEF Started
  <2>4. /\ Tables' /\ Kept' /\ Grows
        /\ Exps' = Exps /\ exp'[e] = r /\ \A x \in Exps \ {e} : exp'[x] = exp[x]
    BY <1>0, <1>2, <2>2, <2>3, UpdateKeeps
  <2>5. Carried'
    BY <1>0, <2>3, <2>4, IdleIsGood, CallCarries DEF Idle
  <2> QED
    BY <2>2, <2>4, <2>5 DEF IInv, FinalStep
<1>6. CASE Commits(c)
  <2>1. PICK d, v, total : d = job[c].decision /\ v = job[c].v /\ total = job[c].spent
    OBVIOUS
  <2>2. PICK r : r = [exp[e] EXCEPT !.status = d, !.observed = v, !.spent = total]
    OBVIOUS
  <2>3. /\ DOMAIN r = Columns /\ r.metric = exp[e].metric /\ r.budget = exp[e].budget
        /\ r.status = d /\ r.observed = v /\ r.spent = total
    BY <1>3, <2>2 DEF Columns
  <2>4. exp[e].status = "running" /\ UNCHANGED <<obs, spend>>
    BY <1>1, <1>6 DEF Commits, Judgeable
  <2>5. exp' = [exp EXCEPT ![e] = r]
    BY <1>1, <1>2, <1>6, <2>1, <2>2, <1>0, ExpsAre DEF Commits
  <2>6. /\ d \in {"kept", "scaled", "killed"}
        /\ d # "killed" => Deserves(e, v, total)
    BY <1>0, <1>1, <1>6, <2>1 DEF Commits, Good
  <2>7. /\ Tables' /\ Kept' /\ Grows
        /\ Exps' = Exps /\ exp'[e] = r /\ \A x \in Exps \ {e} : exp'[x] = exp[x]
    BY <1>0, <1>2, <2>3, <2>4, <2>5, <2>6, UpdateKeeps
  <2>8. PICK j : Become(c, j) /\ (j = Idle \/ j = [op |-> "ask", e |-> e])
    BY <1>1, <1>6 DEF Commits
  <2>9. Good(j)'
    BY <1>2, <2>7, <2>8 DEF Good, Idle
  <2>10. Carried'
    BY <1>0, <2>7, <2>8, <2>9, CallCarries
  <2> QED
    BY <2>3, <2>4, <2>6, <2>7, <2>10 DEF IInv, FinalStep, Transitions
<1> QED
  BY <1>4, <1>5, <1>6

LEMMA WorldKeeps ==
  ASSUME IInv,
         \/ \E k \in Telemetry : Happen(k)
         \/ \E spec \in Founders : ProposeBet(spec)
         \/ \E e \in Exps : Costs(e) \/ \E v \in Measures : RecordObservation(e, v)
         \/ \E i \in Store!Ids, v \in {"approved", "denied"} : Resolve(i, v)
         \/ UNCHANGED vars
  PROVE  IInv' /\ FinalStep
<1>0. Tables /\ Kept /\ Carried
  BY DEF IInv
<1>1. UNCHANGED job
  BY DEF Happen, ProposeBet, Costs, RecordObservation, Resolve, vars, calls
<1>2. ASSUME Tables', Kept', Grows, Unmoved PROVE IInv' /\ FinalStep
  BY <1>0, <1>1, <1>2, OthersCarry, UnmovedIsFinal DEF IInv
<1>3. CASE \/ \E k \in Telemetry : Happen(k)
           \/ \E i \in Store!Ids, v \in {"approved", "denied"} : Resolve(i, v)
           \/ UNCHANGED vars
  <2>1. UNCHANGED <<exp, obs, spend>>
    BY <1>3 DEF Happen, Resolve, vars, bets
  <2> QED
    BY <1>0, <1>2, <2>1, StillKeeps
<1>4. ASSUME NEW spec \in Founders, ProposeBet(spec) PROVE IInv' /\ FinalStep
  BY <1>0, <1>2, <1>4, ProposeKeeps, ExperimentsAssumption DEF ProposeBet
<1>5. ASSUME NEW e \in Exps, Costs(e) \/ \E v \in Measures : RecordObservation(e, v)
      PROVE  IInv' /\ FinalStep
  <2>1. e \in 1..MaxExperiments
    BY <1>0, ExpsAre
  <2>2. /\ UNCHANGED exp /\ spend' \in {spend, [spend EXCEPT ![e] = @ + 1]}
        /\ obs' = obs \/ \E v : obs' = [obs EXCEPT ![e] = Append(@, v)]
    BY <1>5 DEF Costs, RecordObservation
  <2> QED
    BY <1>0, <1>2, <2>1, <2>2, FactsKeep
<1> QED
  BY <1>3, <1>4, <1>5

LEMMA NextKeeps ==
  ASSUME IInv, [Next]_vars
  PROVE  IInv' /\ FinalStep
<1>1. ASSUME NEW c \in Callers, Continue(c) \/ Dies(c) PROVE IInv' /\ FinalStep
  BY <1>1, ThinkingKeeps, JudgesKeeps, WritingKeeps, UpdatingKeeps DEF Continue
<1> QED
  BY <1>1, BeginKeeps, WorldKeeps DEF Next

LEMMA InitHolds ==
  ASSUME Init
  PROVE  IInv
<1>1. exp = <<>> /\ Len(exp) = 0 /\ Exps = {} /\ Sequence(exp)
  BY EmptySeq DEF Init, Exps, Sequence
<1>2. /\ \A e \in 1..MaxExperiments : Sequence(obs[e])
      /\ DOMAIN obs = 1..MaxExperiments /\ spend \in [1..MaxExperiments -> Nat]
  BY EmptySeq DEF Init, Sequence
<1>3. Tables /\ Kept
  BY <1>1, <1>2, ExperimentsAssumption DEF Tables, Kept
<1>4. Carried
  BY IdleIsGood DEF Init, Carried
<1> QED
  BY <1>3, <1>4 DEF IInv

\* A bet is kept or scaled only by what had been recorded when it was judged: an aggregate
\* of its observations, or its spend, that meets the target, within the budget, however
\* observations, spend and other evaluations went on meanwhile (decide_outcome).
THEOREM KeptIsEarned == Spec => []BetsAreEarned
<1>1. IInv => BetsAreEarned
  BY DEF IInv, Kept, Deserves, BetsAreEarned
<1> QED
  BY <1>1, InitHolds, NextKeeps, PTL DEF Spec

\* No call rewrites a verdict, or the facts it rests on: the row moves from proposed to
\* running and from running to a verdict, once (the guarded UPDATEs of start_experiment
\* and evaluate_experiment).
THEOREM VerdictsStand == Spec => VerdictIsFinal
<1> DEFINE Final == \A e \in Exps :
             \/ exp'[e] = exp[e]
             \/ exp[e].status = "proposed" /\ exp'[e].status = "running"
             \/ exp[e].status = "running" /\ exp'[e].status \in Transitions["evaluated"]
<1>1. IInv /\ [Next]_vars => [Final]_vars
  BY NextKeeps DEF FinalStep
<1>2. [][Final]_vars => VerdictIsFinal
  BY PTL DEF VerdictIsFinal
<1> QED
  BY <1>1, <1>2, InitHolds, NextKeeps, PTL DEF Spec

-----------------------------------------------------------------------------
(* Requests for more budget.  Why it is inductive: the UPDATE that only one  *)
(* call wins makes it the only one that asks for its experiment, and until   *)
(* its INSERT there is no request of that experiment.                        *)

Asking(c) == job[c].op \in {"ask", "insert"}
Scaled(e) == e \in Exps /\ exp[e].status = "scaled"

RowsEarned ==
  /\ DOMAIN row = Store!Ids /\ DOMAIN raised = Store!Ids
  /\ \A i \in Store!Ids : raised[i] = 0 \/ Scaled(raised[i])
  /\ \A i \in Store!Ids : row[i].status # "absent" => raised[i] # 0
  /\ \A i, k \in Store!Ids : raised[i] # 0 /\ raised[k] = raised[i] => k = i

AskersEarned ==
  /\ \A c \in Callers : Asking(c) =>
       Scaled(job[c].e) /\ \A i \in Store!Ids : raised[i] # job[c].e
  /\ \A c, d \in Callers : Asking(c) /\ Asking(d) /\ job[c].e = job[d].e => c = d

LEMMA ScaledStays ==
  ASSUME Tables, Tables', FinalStep, NEW e, Scaled(e)
  PROVE  Scaled(e)'
BY DEF Scaled, FinalStep

\* A step that inserts no request and lets nobody begin to ask.
LEMMA QuietEarned ==
  ASSUME IInv, IInv', FinalStep, RowsEarned, AskersEarned,
         DOMAIN row' = DOMAIN row, UNCHANGED raised,
         \A i \in Store!Ids : row'[i].status # "absent" => row[i].status # "absent",
         \A c \in Callers : Asking(c)' => Asking(c) /\ job'[c].e = job[c].e
  PROVE  RowsEarned' /\ AskersEarned'
<1>1. \A e : Scaled(e) => Scaled(e)'
  BY ScaledStays DEF IInv
<1>2. RowsEarned'
  BY <1>1 DEF RowsEarned
<1>3. AskersEarned'
  BY <1>1 DEF AskersEarned
<1> QED
  BY <1>2, <1>3

\* The call goes on with something other than asking.
LEMMA CallEarned ==
  ASSUME IInv, IInv', FinalStep, RowsEarned, AskersEarned,
         UNCHANGED <<store, raised>>, NEW c \in Callers, NEW j, Become(c, j),
         j.op \notin {"ask", "insert"} \/ (Asking(c) /\ j.e = job[c].e)
  PROVE  RowsEarned' /\ AskersEarned'
<1>1. job'[c] = j /\ \A x \in Callers \ {c} : job'[x] = job[x]
  BY DEF Become, IInv, Carried
<1>2. \A x \in Callers : Asking(x)' => Asking(x) /\ job'[x].e = job[x].e
  BY <1>1 DEF Asking
<1>3. UNCHANGED row
  BY DEF store
<1> QED
  BY <1>2, <1>3, QuietEarned

LEMMA CommitEarned ==
  ASSUME IInv, IInv', FinalStep, RowsEarned, AskersEarned,
         NEW c \in Callers, Commits(c)
  PROVE  RowsEarned' /\ AskersEarned'
<1>1. PICK e : e = job[c].e
  OBVIOUS
<1>2. e \in Exps /\ exp[e].status = "running" /\ job[c].op = "verdict"
  BY <1>1 DEF Commits, Judgeable, IInv, Carried, Good
<1>3. UNCHANGED <<store, raised>>
  BY DEF Commits
<1>4. ~Scaled(e) /\ ~Asking(c)
  BY <1>2 DEF Scaled, Asking
<1>5. CASE job[c].decision # "scaled"
  <2>1. PICK j : j = Idle
    OBVIOUS
  <2>2. Become(c, j) /\ j.op = "idle"
    BY <1>5, <2>1 DEF Commits, AddsBudget, Idle
  <2> QED
    BY <1>3, <2>2, CallEarned
<1>6. CASE job[c].decision = "scaled"
  <2>1. job' = [job EXCEPT ![c] = [op |-> "ask", e |-> e]]
    BY <1>1, <1>6 DEF Commits, AddsBudget, Become
  <2>2. /\ job'[c] = [op |-> "ask", e |-> e]
        /\ \A x \in Callers \ {c} : job'[x] = job[x]
    BY <2>1 DEF IInv, Carried
  <2>3. Scaled(e)'
    <3>1. DOMAIN exp[e] = Columns /\ DOMAIN exp = Exps
      BY <1>2, ExpsAre DEF IInv, Tables
    <3>2. exp'[e].status = "scaled"
      BY <1>1, <1>2, <1>6, <3>1 DEF Commits, Columns
    <3> QED
      BY <1>2, <3>2 DEF Scaled, FinalStep
  <2>4. \A x : Scaled(x) => Scaled(x)'
    BY ScaledStays DEF IInv
  <2>5. \A i \in Store!Ids : raised[i] # e
    BY <1>2, <1>4, ExpsAre DEF RowsEarned, IInv
  <2>6. \A x \in Callers : Asking(x) => job[x].e # e
    BY <1>4 DEF AskersEarned
  <2>7. RowsEarned'
    BY <1>3, <2>4 DEF RowsEarned, store
  <2>8. \A x \in Callers : Asking(x)' =>
          Scaled(job[x].e)' /\ \A i \in Store!Ids : raised'[i] # job'[x].e
    <3> SUFFICES ASSUME NEW x \in Callers, Asking(x)'
                 PROVE  Scaled(job[x].e)' /\ \A i \in Store!Ids : raised'[i] # job'[x].e
      OBVIOUS
    <3>1. CASE x = c
      BY <1>3, <2>2, <2>3, <2>5, <3>1 DEF Scaled
    <3>2. CASE x # c
      <4>1. Asking(x) /\ job'[x].e = job[x].e
        BY <2>2, <3>2 DEF Asking
      <4>2. Scaled(job[x].e) /\ \A i \in Store!Ids : raised[i] # job[x].e
        BY <4>1 DEF AskersEarned
      <4>3. PICK f : f = job[x].e
        OBVIOUS
      <4>4. Scaled(f)'
        BY <2>4, <4>2, <4>3
      <4> QED
        BY <1>3, <4>1, <4>2, <4>3, <4>4 DEF Scaled
    <3> QED
      BY <3>1, <3>2
  <2>9. \A x, y \in Callers : Asking(x)' /\ Asking(y)' /\ job'[x].e = job'[y].e => x = y
    BY <2>2, <2>6 DEF AskersEarned, Asking
  <2> QED
    BY <2>7, <2>8, <2>9 DEF AskersEarned
<1> QED
  BY <1>5, <1>6

LEMMA InsertEarned ==
  ASSUME IInv, IInv', FinalStep, RowsEarned, AskersEarned,
         NEW c \in Callers, Inserts(c)
  PROVE  RowsEarned' /\ AskersEarned'
<1>1. PICK e : e = job[c].e
  OBVIOUS
<1>2. Asking(c) /\ Scaled(e) /\ e # 0 /\ \A i \in Store!Ids : raised[i] # e
  BY <1>1 DEF Inserts, Asking, AskersEarned, Scaled, Exps
<1>3. /\ next \in Store!Ids
      /\ row' = [row EXCEPT ![next] = [act |-> Scale, status |-> "pending"]]
      /\ raised' = [raised EXCEPT ![next] = e]
      /\ job' = [job EXCEPT ![c] = Idle]
  BY <1>1 DEF Inserts, Store!InsertPending, Become
<1>4. \A x : Scaled(x) => Scaled(x)'
  BY ScaledStays DEF IInv
<1>5. /\ DOMAIN row' = Store!Ids /\ DOMAIN raised' = Store!Ids
      /\ raised'[next] = e
      /\ \A i \in Store!Ids \ {next} : row'[i] = row[i] /\ raised'[i] = raised[i]
  BY <1>3 DEF RowsEarned
<1>6. job'[c].op = "idle" /\ \A x \in Callers \ {c} : job'[x] = job[x]
  BY <1>3 DEF IInv, Carried, Idle
<1>7. RowsEarned'
  BY <1>2, <1>4, <1>5 DEF RowsEarned
<1>8. \A x \in Callers : Asking(x)' => Asking(x) /\ x # c /\ job'[x].e = job[x].e
  BY <1>6 DEF Asking
<1>9. \A x \in Callers : Asking(x) /\ x # c => job[x].e # e
  BY <1>1, <1>2 DEF AskersEarned
<1>10. AskersEarned'
  BY <1>4, <1>5, <1>8, <1>9 DEF AskersEarned
<1> QED
  BY <1>7, <1>10

LEMMA EarnedInit ==
  ASSUME Init
  PROVE  RowsEarned /\ AskersEarned
BY DEF Init, Store!StoreInit, RowsEarned, AskersEarned, Asking, Idle

\* The calls that do not commit a verdict, look for a request or insert one.
LEMMA ContinueEarned ==
  ASSUME IInv, IInv', FinalStep, RowsEarned, AskersEarned,
         NEW c \in Callers, Continue(c) \/ Dies(c)
  PROVE  RowsEarned' /\ AskersEarned'
<1>0. Good(job[c])
  BY DEF IInv, Carried
<1>1. CASE Raises(c) \/ Analyzed(c) \/ ComesSecond(c) \/ Started(c) \/ Dies(c)
  <2>1. PICK j : j = Idle
    OBVIOUS
  <2>2. Become(c, j) /\ j.op = "idle" /\ UNCHANGED <<store, raised>>
    BY <1>1, <2>1 DEF Raises, Analyzed, ComesSecond, Started, Dies, Goes, Idle
  <2> QED
    BY <2>2, CallEarned
<1>2. CASE Reads(c) \/ (\E p \in Patterns : ProposeFix(c, p)) \/ Enqueue(c)
  <2>1. PICK j : /\ Become(c, j) /\ UNCHANGED <<store, raised>>
                 /\ \/ /\ job[c].op \in {"analyze", "observe"}
                       /\ j = [job[c] EXCEPT !.seen = Append(@, Len(log))]
                    \/ /\ job[c].op = "fix"
                       /\ \E p \in Patterns : j = [job[c] EXCEPT !.found = @ \ {p}]
                    \/ job[c].op = "start" /\ j = [job[c] EXCEPT !.op = "started"]
    <3>1. CASE Reads(c)
      BY <3>1 DEF Reads, Goes
    <3>2. CASE \E p \in Patterns : ProposeFix(c, p)
      BY <3>2 DEF ProposeFix
    <3>3. CASE Enqueue(c)
      BY <3>3 DEF Enqueue
    <3> QED
      BY <1>2, <3>1, <3>2, <3>3
  <2>2. j.op \in {"analyze", "observe", "fix", "started"}
    BY <1>0, <2>1 DEF Good
  <2> QED
    BY <2>1, <2>2, CallEarned
<1>3. CASE Detects(c) \/ RecordsRate(c) \/ Checks(c) \/ MeasuresSpend(c) \/ Judges(c)
  <2>1. PICK j : /\ Become(c, j) /\ UNCHANGED <<store, raised>>
                 /\ j.op \in {"fix", "check", "measure", "idle", "judge", "verdict"}
    <3>1. CASE Detects(c)
      BY <3>1 DEF Detects, Goes
    <3>2. CASE RecordsRate(c)
      BY <3>2 DEF RecordsRate
    <3>3. CASE Checks(c)
      BY <3>3 DEF Checks, Goes, Idle
    <3>4. CASE MeasuresSpend(c)
      BY <3>4 DEF MeasuresSpend, Goes
    <3>5. CASE Judges(c)
      BY <3>5 DEF Judges, Goes
    <3> QED
      BY <1>3, <3>1, <3>2, <3>3, <3>4, <3>5
  <2> QED
    BY <2>1, CallEarned
<1>4. CASE Asks(c)
  <2>1. PICK j : /\ Become(c, j) /\ UNCHANGED <<store, raised>> /\ job[c].op = "ask"
                 /\ j = Idle \/ j = [op |-> "insert", e |-> job[c].e]
    BY <1>4 DEF Asks, Goes
  <2>2. Asking(c) /\ (j.op = "idle" \/ j.e = job[c].e)
    BY <2>1 DEF Asking, Idle
  <2> QED
    BY <2>1, <2>2, CallEarned DEF Idle
<1> QED
  BY <1>1, <1>2, <1>3, <1>4, CommitEarned, InsertEarned DEF Continue

LEMMA BeginEarned ==
  ASSUME IInv, IInv', FinalStep, RowsEarned, AskersEarned, NEW c \in Callers,
         \/ Analyze(c)
         \/ \E e \in Exps : Start(c, e) \/ Evaluate(c, e)
         \/ \E e \in Fixes, since \in 0..Len(log) : Observe(c, e, since)
  PROVE  RowsEarned' /\ AskersEarned'
<1>1. PICK j : Begin(c, j) /\ j.op \in {"analyze", "start", "check", "observe"}
  <2>1. CASE Analyze(c)
    BY <2>1 DEF Analyze
  <2>2. ASSUME NEW e \in Exps, Start(c, e) \/ Evaluate(c, e)
        PROVE  \E j : Begin(c, j) /\ j.op \in {"analyze", "start", "check", "observe"}
    BY <2>2 DEF Start, Evaluate
  <2>3. ASSUME NEW e \in Fixes, NEW since, Observe(c, e, since)
        PROVE  \E j : Begin(c, j) /\ j.op \in {"analyze", "start", "check", "observe"}
    BY <2>3 DEF Observe
  <2> QED
    BY <2>1, <2>2, <2>3
<1>2. Become(c, j) /\ UNCHANGED <<store, raised>>
  BY <1>1 DEF Begin
<1> QED
  BY <1>1, <1>2, CallEarned

LEMMA WorldEarned ==
  ASSUME IInv, IInv', FinalStep, RowsEarned, AskersEarned,
         \/ \E k \in Telemetry : Happen(k)
         \/ \E spec \in Founders : ProposeBet(spec)
         \/ \E e \in Exps : Costs(e) \/ \E v \in Measures : RecordObservation(e, v)
         \/ \E i \in Store!Ids, v \in {"approved", "denied"} : Resolve(i, v)
         \/ UNCHANGED vars
  PROVE  RowsEarned' /\ AskersEarned'
<1>1. UNCHANGED <<job, raised>>
  BY DEF Happen, ProposeBet, Costs, RecordObservation, Resolve, vars, calls
<1>2. \A c \in Callers : Asking(c)' => Asking(c) /\ job'[c].e = job[c].e
  BY <1>1 DEF Asking
<1>3. CASE \E i \in Store!Ids, v \in {"approved", "denied"} : Resolve(i, v)
  <2>1. PICK i \in Store!Ids, v \in {"approved", "denied"} :
           /\ row[i].status = "pending"
           /\ row' = [row EXCEPT ![i].status = v]
    BY <1>3 DEF Resolve, Store!ResolveAs, Store!Undecided
  <2>2. DOMAIN row' = DOMAIN row /\ \A k \in Store!Ids : k # i => row'[k] = row[k]
    BY <2>1 DEF RowsEarned
  <2>3. \A k \in Store!Ids : row'[k].status # "absent" => row[k].status # "absent"
    BY <2>1, <2>2
  <2> QED
    BY <1>1, <1>2, <2>2, <2>3, QuietEarned
<1>4. CASE ~\E i \in Store!Ids, v \in {"approved", "denied"} : Resolve(i, v)
  <2>1. UNCHANGED row
    BY <1>4 DEF Happen, ProposeBet, Costs, RecordObservation, vars, store
  <2> QED
    BY <1>1, <1>2, <2>1, QuietEarned
<1> QED
  BY <1>3, <1>4

\* The human is asked for more budget at most once for each scaled experiment, by the call
\* whose verdict it was, for any callers, evaluations, verdicts and deaths
\* (evaluate_experiment asks after the UPDATE that only one call wins).
THEOREM RequestsWereEarned == Spec => []RequestsAreEarned
<1> DEFINE Inv == IInv /\ RowsEarned /\ AskersEarned
<1>1. Init => Inv
  BY InitHolds, EarnedInit
<1>2. Inv /\ [Next]_vars => Inv'
  <2> SUFFICES ASSUME Inv, [Next]_vars PROVE Inv'
    OBVIOUS
  <2>1. IInv' /\ FinalStep
    BY NextKeeps
  <2> QED
    BY <2>1, ContinueEarned, BeginEarned, WorldEarned DEF Next
<1>3. Inv => RequestsAreEarned
  BY DEF RowsEarned, Scaled, RequestsAreEarned
<1> QED
  BY <1>1, <1>2, <1>3, PTL DEF Spec

=============================================================================
