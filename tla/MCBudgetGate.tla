---------------------------- MODULE MCBudgetGate ----------------------------
(***************************************************************************)
(* Instances of BudgetGate for TLC: two workstreams A and B under the      *)
(* ceiling of the org, two calls of A and one of B.                        *)
(***************************************************************************)
EXTENDS BudgetGate, TLC

CONSTANTS c1, c2, c3, wsA, wsB, org

TwoCaps == {wsA, org}
ThreeCaps == {wsA, wsB, org}
TheOrg == {org}
TwoCalls == {c1, c2}
ThreeCalls == {c1, c2, c3}
OwnAndOrg == c1 :> {wsA, org} @@ c2 :> {wsA, org}
TwoTeams == OwnAndOrg @@ c3 :> {wsB, org}
ButC2 == Calls \ {c2}

Ones == [c \in Calls |-> 1]
Twos == [c \in Calls |-> 2]

\* B has no cap until an operator sets one while its calls may be running.
BUncapped == wsA :> 4 @@ wsB :> NoCap @@ org :> 4
CapForB == [r \in Caps |-> IF r = wsB THEN {2} ELSE {}]
Two == [r \in Caps |-> 2]
NoNewCaps == [r \in Caps |-> {}]

AllFaults == {"death", "emit fails", "window rolls"}
NoFaults == {}
OnlyDeath == {"death"}

=============================================================================
