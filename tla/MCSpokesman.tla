---------------------------- MODULE MCSpokesman ----------------------------
(***************************************************************************)
(* Instances of Spokesman for TLC.                                         *)
(***************************************************************************)
EXTENDS Spokesman, TLC

CONSTANTS pm, call, p1, m1, k1

OneRole == {pm}
OneCall == {call}
OnePoll == {p1}
OneText == {m1}
OneKeyword == {k1}

=============================================================================
