------------------------------ MODULE MCRelay ------------------------------
(***************************************************************************)
(* Instances of Relay for TLC.                                             *)
(***************************************************************************)
EXTENDS Relay, TLC

CONSTANTS ana, bob, b1, b2, b3, t1, t2

TwoIdentities == {ana, bob}
ThreeBatches == {b1, b2, b3}
TwoBatches == {b1, b2}
OneTask == {t1}

Ref(x, F) == [to |-> x, fields |-> F]
Want(v) == [readable |-> TRUE, want |-> v]
Unreadable == [readable |-> FALSE, want |-> "absent"]
Fact(R) == [judgment |-> FALSE, refs |-> R]
Opinion == [judgment |-> TRUE, refs |-> {}]

\* ana says t1 was approved and adds an opinion, in the digest; she cites t1 with an
\* ill-formed status, and an artifact, in an alarm; bob, who may be t1's
\* approver, says t1 was merged.
Mixed ==
  b1 :> <<Fact({Ref(t1, {Want("approved")})}), Opinion>> @@
  b2 :> <<Fact({Ref(t1, {Unreadable}), Ref(t1, {}), Ref(Artifact, {})}), Opinion>> @@
  b3 :> <<Fact({Ref(t1, {Want("merged")})})>>
Authors == b1 :> ana @@ b2 :> ana @@ b3 :> bob
Channels == b1 :> "inform" @@ b2 :> "alarm" @@ b3 :> "inform"

\* Two claims about the number of claims, both true when they are made.
Counts == b1 :> <<Fact({Ref(Metric, {Want(0)})})>> @@ b2 :> <<Opinion>>
CountAuthors == b1 :> ana @@ b2 :> bob
CountChannels == b1 :> "inform" @@ b2 :> "inform"

=============================================================================
