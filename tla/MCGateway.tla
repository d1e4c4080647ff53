----------------------------- MODULE MCGateway -----------------------------
(***************************************************************************)
(* Instances of Gateway for TLC.                                           *)
(***************************************************************************)
EXTENDS Gateway, TLC

CONSTANTS w1, w2, pinned, roaming, alice, bob, home, away, nobody, unnamed

TwoWorkers == {w1, w2}
OneRoot == [w \in TwoWorkers |-> "shared"]
\* A token pinned to the fleet's workstream, and one pinned to nothing.
TwoTokens == {pinned, roaming}
Holders == pinned :> alice @@ roaming :> bob
AllOfThem == [t \in TwoTokens |-> AllScopes]
OnePinned == pinned :> {home} @@ roaming :> {}
ManyPinned == pinned :> {home, away} @@ roaming :> {}
TwoStreams == {home, away}
OnlyHome == {home}
OfScans == {"research"}
Never == {FALSE}
May(t, h, c, s, r) == [ticks |-> t, hours |-> h, crashes |-> c, stalls |-> s, requests |-> r]
TwoEpisodes == [types |-> <<"work", "work">>, may |-> May(0, 0, 0, 0, 0)]
OneEpisode == [types |-> <<"work">>, may |-> May(0, 0, 0, 1, 0)]
Lent == [types |-> <<"work">>, may |-> May(0, 0, 0, 0, 1)]
OneScan == [types |-> <<"research">>, may |-> May(0, 0, 0, 0, 2)]
TwoTicks == [types |-> <<"sourcing">>, may |-> May(2, 2, 1, 0, 0)]
OnLoan == {Lent, OneScan}
Shifts == {TwoEpisodes, OneEpisode, OneScan, TwoTicks}
Sourcing == {"sourcing"}
Money(left) == [capUsd |-> 100, leftUsd |-> left, capTokens |-> 0, leftTokens |-> 0]
AmpleOrCritical == {Uncapped, Money(4)}

\* _scale and _scale_research over every input: what their docstring promises.
Fractions == {Unknown, 0, 5, 6, 15, 16, 100}
Rates == {0, 10, 11, 49, 50, 100}
ASSUME ThrottleBeatsEscalation ==
  \A base \in ReviewModes, r \in Rates, f \in {x \in Fractions : Critical(x)} :
    Scale(base, r, f, "always", "on_risk") = "off"
ASSUME MoreErrorsNeverLessReview ==
  LET rank == [always |-> 2, on_risk |-> 1, off |-> 0] IN
  \A base \in {"on_risk", "always"}, r1, r2 \in Rates, f \in {x \in Fractions : ~Tight(x)} :
    r1 <= r2 => rank[Scale(base, r1, f, "always", "on_risk")]
                <= rank[Scale(base, r2, f, "always", "on_risk")]
ASSUME ScanNeverStops ==
  \A f \in Fractions : ResearchInterval(f) >= 1 /\ ResearchInterval(f) <= Max({1, ResearchMin, ResearchMax})
ASSUME ResearchIsThrottled ==
  \A r \in Rates, a \in 0..(HighActivity + 1), f \in Fractions :
    /\ Critical(f) => ResearchCadence("normal", r, a, f) = (IF AdaptiveOn THEN "off" ELSE "normal")
    /\ ResearchCadence("normal", r, a, f) = "eager" => ~Tight(f)
ASSUME TightestCapGoverns ==
  \A usd, tok \in {-10, 0, 50, 100} :
    BudgetFraction([capUsd |-> 100, leftUsd |-> usd, capTokens |-> 100, leftTokens |-> tok])
      = Clamp(0, 100, Min({usd, tok}))

=============================================================================
