-------------------------- MODULE Spokesman_proofs --------------------------
(***************************************************************************)
(* Theorems about the two halves of the Spokesman.  Relay, for any         *)
(* batches, claims and identities and any number of restarts: no batch     *)
(* with a contradicted claim reaches the human, a revoked identity sends   *)
(* nothing new on its way, and strikes have a cause each.  Spokesman, for  *)
(* any polls, messages, rows and faults: no event behind the cursor is     *)
(* unaccounted for, and nobody speaks unapproved.                          *)
(***************************************************************************)
EXTENDS Relay, Spokesman, TLAPS, SequenceTheorems, FiniteSetTheorems,
        FunctionTheorems, WellFoundedInduction

-----------------------------------------------------------------------------
(* Lemmas about the channel's sequences                                    *)

LEMMA ToSetIsRange ==
  ASSUME NEW S, NEW s \in Seq(S), NEW x
  PROVE  x \in ToSet(s) <=> \E k \in 1..Len(s) : s[k] = x
BY DEF ToSet

LEMMA ToSetOfLonger ==
  ASSUME NEW S, NEW s \in Seq(S), NEW x, NEW t \in Seq(S),
         Len(t) = Len(s) + 1, \A k \in 1..Len(s) : t[k] = s[k], t[Len(s) + 1] = x
  PROVE  ToSet(t) = ToSet(s) \cup {x}
<1>1. \A y : y \in ToSet(t) <=> \E k \in 1..Len(t) : t[k] = y
  BY ToSetIsRange
<1>2. \A y : y \in ToSet(s) <=> \E k \in 1..Len(s) : s[k] = y
  BY ToSetIsRange
<1>3. 1..Len(t) = (1..Len(s)) \cup {Len(t)}
  BY LenProperties
<1> QED
  BY <1>1, <1>2, <1>3

LEMMA ToSetOfAppend ==
  ASSUME NEW S, NEW s \in Seq(S), NEW x \in S
  PROVE  Append(s, x) \in Seq(S) /\ ToSet(Append(s, x)) = ToSet(s) \cup {x}
<1>1. /\ Append(s, x) \in Seq(S)
      /\ Len(Append(s, x)) = Len(s) + 1
      /\ \A k \in 1..Len(s) : Append(s, x)[k] = s[k]
      /\ Append(s, x)[Len(s) + 1] = x
  BY AppendProperties
<1>2. ASSUME NEW t, t = Append(s, x) PROVE ToSet(t) = ToSet(s) \cup {x}
  <2>1. /\ t \in Seq(S) /\ Len(t) = Len(s) + 1
        /\ \A k \in 1..Len(s) : t[k] = s[k]
        /\ t[Len(s) + 1] = x
    BY <1>1, <1>2, Zenon
  <2> QED
    BY <2>1, ToSetOfLonger
<1> QED
  BY <1>1, <1>2, Zenon

LEMMA ToSetOfEmpty == ToSet(<<>>) = {}
BY DEF ToSet

LEMMA ToSetWithin ==
  ASSUME NEW S, NEW s \in Seq(S)
  PROVE  ToSet(s) \subseteq S
BY ToSetIsRange, ElementOfSeq

-----------------------------------------------------------------------------
(* Types                                                                   *)

\* TypeOK, and what it leaves out: the channel holds batches.
Typed ==
  /\ TypeOK
  /\ digest \in Seq(Batches) /\ inHand \in Seq(Batches)

LEMMA VerdictTyped ==
  ASSUME NEW refs, NEW down
  PROVE  VerdictWith(refs, down) \in Verdicts
BY DEF VerdictWith, Verdicts

LEMMA StepTyped ==
  ASSUME TypeOK, NEW b \in Batches
  PROVE  [at EXCEPT ![b] = @ + 1] \in [Batches -> Nat \ {0}]
<1>1. at \in [Batches -> Nat \ {0}] /\ at[b] \in Nat /\ at[b] # 0
  BY DEF TypeOK
<1>2. at[b] + 1 \in Nat \ {0}
  BY <1>1
<1> QED
  BY <1>1, <1>2, Zenon

LEMMA StrikeTyped ==
  ASSUME TypeOK, NEW I, Strike(I)
  PROVE  /\ trust' \in [Identities -> [state : {"trusted", "revoked"}, strikes : Nat]]
         /\ \A i \in Identities : trust[i].state = "revoked" => trust'[i].state = "revoked"
BY DEF TypeOK, Strike

LEMMA HandleTyped ==
  ASSUME Typed, NEW b \in Batches, Handle(b)
  PROVE  Typed'
<1> USE DEF Typed, TypeOK, Working, Verdicts, Goto, db, thread, channel
<1>1. ASSUME NEW reachable \in BOOLEAN, Submit(b, reachable) PROVE Typed'
  BY <1>1 DEF Submit
<1>2. CASE Record(b)
  <2>1. claim' \in [Slots -> {"none", "pending"} \cup Verdicts]
    BY <1>2 DEF Record
  <2>2. \/ at' = [at EXCEPT ![b] = @ + 1] /\ pc' = pc
        \/ at' = at /\ pc' = [pc EXCEPT ![b] = "verify"]
    BY <1>2 DEF Record
  <2>3. at' \in [Batches -> Nat \ {0}]
    BY <2>2, StepTyped
  <2> QED
    BY <1>2, <2>1, <2>2, <2>3 DEF Record
<1>3. ASSUME NEW down, Verify(b, down) PROVE Typed'
  <2>1. VerifyClaim(Current(b).refs, down) \in Verdicts
    BY VerdictTyped DEF VerifyClaim
  <2> QED
    BY <1>3, <2>1 DEF Verify
<1>4. CASE Rule(b)
  <2>1. claim' \in [Slots -> {"none", "pending"} \cup Verdicts]
    BY <1>4 DEF Rule
  <2>2. \/ /\ at' = [at EXCEPT ![b] = @ + 1] /\ pc' = [pc EXCEPT ![b] = "record"]
           /\ fabricated' = fabricated
        \/ /\ at' = at /\ pc' = [pc EXCEPT ![b] = "strike"]
           /\ fabricated' = [fabricated EXCEPT ![b] = TRUE]
    BY <1>4 DEF Rule
  <2>3. verdict' \in [Batches -> {"none"} \cup Verdicts]
    BY <1>4 DEF Rule
  <2>4. at' \in [Batches -> Nat \ {0}] /\ fabricated' \in [Batches -> BOOLEAN]
    <3>1. at' \in [Batches -> Nat \ {0}]
      <4>1. at' = at \/ at' = [at EXCEPT ![b] = @ + 1]
        BY <2>2
      <4> QED
        BY <4>1, StepTyped
    <3>2. fabricated' \in [Batches -> BOOLEAN]
      BY <2>2
    <3> QED
      BY <3>1, <3>2
  <2> QED
    BY <1>4, <2>1, <2>2, <2>3, <2>4 DEF Rule
<1>5. CASE StrikeOriginator(b)
  BY <1>5, StrikeTyped DEF StrikeOriginator
<1>6. CASE Cascade(b)
  BY <1>6, StrikeTyped DEF Cascade
<1>7. CASE Escalate(b)
  BY <1>7 DEF Escalate
<1>8. CASE Send(b)
  <2>1. \/ digest' = digest /\ human' \in {human, human \cup {b}}
        \/ digest' = Append(digest, b) /\ human' = human
    BY <1>8, Zenon DEF Send
  <2>2. pc' \in [Batches -> Working \cup {"new", "done", "refused", "failed", "dead"}]
    BY <1>8 DEF Send
  <2>3. Append(digest, b) \in Seq(Batches)
    BY ToSetOfAppend, Zenon
  <2>4. digest' \in Seq(Batches) /\ human' \subseteq Batches
    <3>1. CASE digest' = digest /\ human' \in {human, human \cup {b}}
      BY <3>1
    <3>2. CASE digest' = Append(digest, b) /\ human' = human
      BY <3>2, <2>3, Zenon
    <3> QED
      BY <2>1, <3>1, <3>2
  <2> QED
    BY <1>8, <2>2, <2>4 DEF Send
<1>9. CASE SendFails(b)
  BY <1>9 DEF SendFails
<1> QED
  BY <1>1, <1>2, <1>3, <1>4, <1>5, <1>6, <1>7, <1>8, <1>9 DEF Handle

LEMMA ChannelTyped ==
  ASSUME Typed, FlushTakes \/ FlushSends \/ FlushFails \/ Restart
  PROVE  Typed'
<1> USE RelayAssumption DEF Typed, TypeOK, Working, Verdicts, db, thread, channel
<1>1. CASE FlushTakes
  BY <1>1 DEF FlushTakes
<1>2. CASE FlushSends
  BY <1>2, ToSetWithin DEF FlushSends
<1>3. CASE FlushFails
  BY <1>3 DEF FlushFails
<1>4. CASE Restart
  <2>1. /\ pc' = [b \in Batches |-> IF pc[b] \in Working THEN "dead" ELSE pc[b]]
        /\ at' = [b \in Batches |-> IF pc[b] \in Working THEN 1 ELSE at[b]]
        /\ fabricated' = [b \in Batches |-> IF pc[b] \in Working THEN FALSE ELSE fabricated[b]]
        /\ verdict' = [b \in Batches |-> IF pc[b] \in Working THEN "none" ELSE verdict[b]]
    BY <1>4 DEF Restart
  <2>2. /\ pc' \in [Batches -> Working \cup {"new", "done", "refused", "failed", "dead"}]
    BY <2>1
  <2>4. at' \in [Batches -> Nat \ {0}]
    <3>1. 1 \in Nat \ {0}
      OBVIOUS
    <3> QED
      BY <2>1, <3>1, Zenon
  <2>6. fabricated' \in [Batches -> BOOLEAN]
    BY <2>1
  <2>5. verdict' \in [Batches -> {"none"} \cup Verdicts]
    BY <2>1
  <2>3. crashes' \in 0..MaxCrashes /\ digest' \in Seq(Batches) /\ inHand' \in Seq(Batches)
    BY <1>4, EmptySeq DEF Restart
  <2> QED
    BY <1>4, <2>2, <2>3, <2>4, <2>5, <2>6 DEF Restart
<1> QED
  BY <1>1, <1>2, <1>3, <1>4

LEMMA StudioTyped ==
  ASSUME Typed, NEW t \in Tasks, NEW who \in Identities \cup {Nobody},
         Deliver(t) \/ Merge(t) \/ Approve(t, who)
  PROVE  Typed'
<1> USE DEF Typed, TypeOK, Statuses, Move, thread, channel
<1>1. CASE Deliver(t)
  BY <1>1 DEF Deliver
<1>2. CASE Merge(t)
  BY <1>2 DEF Merge
<1>3. CASE Approve(t, who)
  BY <1>3 DEF Approve
<1> QED
  BY <1>1, <1>2, <1>3

LEMMA NextTyped ==
  ASSUME Typed, [Next]_vars
  PROVE  Typed'
<1>1. ASSUME NEW b \in Batches, Handle(b) PROVE Typed'
  BY <1>1, HandleTyped
<1>2. CASE FlushTakes \/ FlushSends \/ FlushFails \/ Restart
  BY <1>2, ChannelTyped
<1>3. ASSUME NEW t \in Tasks, Deliver(t) \/ Merge(t) PROVE Typed'
  BY <1>3, StudioTyped
<1>4. ASSUME NEW t \in Tasks, NEW who \in Identities \cup {Nobody}, Approve(t, who)
      PROVE  Typed'
  BY <1>4, StudioTyped
<1>5. CASE UNCHANGED vars
  BY <1>5 DEF Typed, TypeOK, vars, db, thread, channel
<1> QED
  BY <1>1, <1>2, <1>3, <1>4, <1>5 DEF Next

LEMMA InitTyped ==
  ASSUME Init
  PROVE  Typed
BY RelayAssumption DEF Init, Typed, TypeOK, Statuses, Fresh

\* The ledger, the claims and the threads keep the shape their columns give them.
THEOREM RelayTypes == Spec => []TypeOK
<1>1. Typed => TypeOK
  BY DEF Typed
<1> QED
  BY <1>1, InitTyped, NextTyped, PTL DEF Spec

-----------------------------------------------------------------------------
(* A contradicted claim withholds its batch.  Why it is inductive: a claim   *)
(* is judged only while its request's thread is at work, a thread that ruled *)
(* one contradicted says so, and a batch sets out only as its thread ends.   *)

RejectedIn(b) == \E c \in Slots : c[1] = b /\ claim[c] = "rejected"

Ruled ==
  \A b \in Batches :
    /\ pc[b] = "new" => ~RejectedIn(b)
    /\ pc[b] \in {"record", "verify", "rule"} /\ ~fabricated[b] => ~RejectedIn(b)
    /\ pc[b] \in {"strike", "cascade"} => fabricated[b]

Clean == \A b \in OnItsWay : pc[b] = "done" /\ ~RejectedIn(b)

\* The claim in hand is a claim of its batch.
LEMMA HereIsOwn ==
  ASSUME NEW b
  PROVE  Here(b)[1] = b
BY DEF Here

\* A step that marks one claim as not rejected adds no rejected claim.
LEMMA MarkedOther ==
  ASSUME Typed, NEW b \in Batches, NEW v \in {"none", "pending"} \cup Verdicts,
         claim' = [claim EXCEPT ![Here(b)] = v]
  PROVE  /\ \A x \in Batches \ {b} : RejectedIn(x)' <=> RejectedIn(x)
         /\ v # "rejected" /\ ~RejectedIn(b) => ~RejectedIn(b)'
<1>1. \A c \in Slots : claim'[c] = IF c = Here(b) THEN v ELSE claim[c]
  BY DEF Typed, TypeOK
<1> QED
  BY <1>1, HereIsOwn DEF RejectedIn

\* What is on its way changes with the channel alone.
LEMMA ChannelStays ==
  ASSUME UNCHANGED <<digest, inHand, human>>
  PROVE  OnItsWay' = OnItsWay
BY DEF OnItsWay

LEMMA HandleRules ==
  ASSUME Typed, Ruled, Clean, NEW b \in Batches, Handle(b)
  PROVE  Ruled' /\ Clean'
<1> USE DEF Goto, db, thread, channel
<1>0. OnItsWay \subseteq Batches
  BY ToSetWithin DEF Typed, TypeOK, OnItsWay
<1>1. ASSUME NEW reachable \in BOOLEAN, Submit(b, reachable) PROVE Ruled' /\ Clean'
  <2>1. OnItsWay' = OnItsWay /\ claim' = claim /\ fabricated' = fabricated
    BY <1>1, ChannelStays DEF Submit
  <2>2. pc[b] = "new" /\ \A x \in Batches : pc'[x] = IF x = b THEN pc'[b] ELSE pc[x]
    BY <1>1 DEF Submit, Typed, TypeOK
  <2>3. pc'[b] \in {"record", "refused"}
    BY <1>1 DEF Submit, Typed, TypeOK
  <2> QED
    BY <1>0, <2>1, <2>2, <2>3 DEF Ruled, Clean, RejectedIn
<1>2. CASE Record(b)
  <2>1. /\ OnItsWay' = OnItsWay /\ fabricated' = fabricated
        /\ claim' = [claim EXCEPT ![Here(b)] = "pending"]
    BY <1>2, ChannelStays DEF Record
  <2>2. pc[b] = "record" /\ \A x \in Batches : pc'[x] = IF x = b THEN pc'[b] ELSE pc[x]
    BY <1>2 DEF Record, Typed, TypeOK
  <2>3. pc'[b] \in {"record", "verify"}
    BY <1>2 DEF Record, Typed, TypeOK
  <2>4. /\ \A x \in Batches \ {b} : RejectedIn(x)' <=> RejectedIn(x)
        /\ ~RejectedIn(b) => ~RejectedIn(b)'
    BY <2>1, MarkedOther
  <2> QED
    BY <1>0, <2>1, <2>2, <2>3, <2>4 DEF Ruled, Clean
<1>3. ASSUME NEW down, Verify(b, down) PROVE Ruled' /\ Clean'
  <2>1. OnItsWay' = OnItsWay /\ claim' = claim /\ fabricated' = fabricated
    BY <1>3, ChannelStays DEF Verify
  <2>2. /\ pc[b] = "verify" /\ pc'[b] = "rule"
        /\ \A x \in Batches \ {b} : pc'[x] = pc[x]
    BY <1>3 DEF Verify, Typed, TypeOK
  <2> QED
    BY <1>0, <2>1, <2>2 DEF Ruled, Clean, RejectedIn
<1>4. CASE Rule(b)
  <2>1. /\ OnItsWay' = OnItsWay /\ claim' = [claim EXCEPT ![Here(b)] = verdict[b]]
        /\ verdict[b] \in {"none"} \cup Verdicts
    BY <1>4, ChannelStays DEF Rule, Typed, TypeOK
  <2>2. pc[b] = "rule" /\ \A x \in Batches \ {b} : pc'[x] = pc[x] /\ fabricated'[x] = fabricated[x]
    BY <1>4 DEF Rule, Typed, TypeOK
  <2>3. \/ verdict[b] # "rejected" /\ pc'[b] = "record" /\ fabricated'[b] = fabricated[b]
        \/ pc'[b] = "strike" /\ fabricated'[b]
    BY <1>4 DEF Rule, Typed, TypeOK
  <2>4. /\ \A x \in Batches \ {b} : RejectedIn(x)' <=> RejectedIn(x)
        /\ verdict[b] # "rejected" /\ ~RejectedIn(b) => ~RejectedIn(b)'
    <3>1. PICK v \in {"none", "pending"} \cup Verdicts : v = verdict[b]
      BY <2>1
    <3>2. claim' = [claim EXCEPT ![Here(b)] = v]
      BY <2>1, <3>1
    <3> QED
      BY <3>1, <3>2, MarkedOther
  <2> QED
    BY <1>0, <2>1, <2>2, <2>3, <2>4 DEF Ruled, Clean
<1>5. CASE StrikeOriginator(b) \/ Cascade(b)
  <2>1. OnItsWay' = OnItsWay /\ claim' = claim /\ fabricated' = fabricated
    BY <1>5, ChannelStays DEF StrikeOriginator, Cascade
  <2>2. /\ pc[b] \in {"strike", "cascade"} /\ pc'[b] \in {"cascade", "record"}
        /\ \A x \in Batches \ {b} : pc'[x] = pc[x]
    BY <1>5 DEF StrikeOriginator, Cascade, Typed, TypeOK
  <2> QED
    BY <1>0, <2>1, <2>2 DEF Ruled, Clean, RejectedIn
<1>6. CASE Escalate(b) \/ SendFails(b)
  <2>1. OnItsWay' = OnItsWay /\ claim' = claim /\ fabricated' = fabricated
    BY <1>6, ChannelStays DEF Escalate, SendFails
  <2>2. /\ pc[b] = "record" /\ pc'[b] \in {"done", "failed"}
        /\ \A x \in Batches \ {b} : pc'[x] = pc[x]
    BY <1>6 DEF Escalate, SendFails, Typed, TypeOK
  <2> QED
    BY <1>0, <2>1, <2>2 DEF Ruled, Clean, RejectedIn
<1>7. CASE Send(b)
  <2>1. claim' = claim /\ fabricated' = fabricated /\ inHand' = inHand
    BY <1>7 DEF Send
  <2>2. /\ pc[b] = "record" /\ ~fabricated[b] /\ pc'[b] = "done"
        /\ \A x \in Batches \ {b} : pc'[x] = pc[x]
    BY <1>7 DEF Send, Withhold, Typed, TypeOK
  <2>3. \/ digest' = digest /\ human' \in {human, human \cup {b}}
        \/ digest' = Append(digest, b) /\ human' = human
    BY <1>7, Zenon DEF Send
  <2>4. ToSet(digest') \subseteq ToSet(digest) \cup {b}
    BY <2>3, ToSetOfAppend, Zenon DEF Typed
  <2>5. OnItsWay' \subseteq OnItsWay \cup {b}
    BY <2>1, <2>3, <2>4 DEF OnItsWay
  <2>6. ~RejectedIn(b)
    BY <2>2 DEF Ruled
  <2> QED
    BY <1>0, <2>1, <2>2, <2>5, <2>6 DEF Ruled, Clean, RejectedIn
<1> QED
  BY <1>1, <1>2, <1>3, <1>4, <1>5, <1>6, <1>7 DEF Handle

LEMMA NextRules ==
  ASSUME Typed, Ruled, Clean, [Next]_vars
  PROVE  Ruled' /\ Clean'
<1>0. OnItsWay \subseteq Batches
  BY ToSetWithin DEF Typed, TypeOK, OnItsWay
<1>1. ASSUME NEW b \in Batches, Handle(b) PROVE Ruled' /\ Clean'
  BY <1>1, HandleRules
<1>2. CASE FlushTakes \/ FlushSends \/ FlushFails
  <2>1. UNCHANGED <<claim, pc, fabricated>>
    BY <1>2 DEF FlushTakes, FlushSends, FlushFails, db, thread
  <2>2. OnItsWay' \subseteq OnItsWay
    BY <1>2, ToSetOfEmpty DEF FlushTakes, FlushSends, FlushFails, OnItsWay
  <2> QED
    BY <2>1, <2>2 DEF Ruled, Clean, RejectedIn
<1>3. CASE Restart
  <2>1. /\ claim' = claim
        /\ pc' = [b \in Batches |-> IF pc[b] \in Working THEN "dead" ELSE pc[b]]
    BY <1>3 DEF Restart, db
  <2>2. OnItsWay' \subseteq OnItsWay
    BY <1>3, ToSetOfEmpty DEF Restart, OnItsWay
  <2>3. \A b \in Batches : pc'[b] \notin Working /\ (pc'[b] # "dead" => pc'[b] = pc[b])
    BY <2>1 DEF Working
  <2>4. \A b \in Batches : pc[b] \in {"done", "new"} => pc'[b] = pc[b]
    BY <2>1 DEF Working
  <2> QED
    BY <1>0, <2>1, <2>2, <2>3, <2>4 DEF Ruled, Clean, RejectedIn, Working
<1>4. CASE \E t \in Tasks : \/ Deliver(t) \/ Merge(t)
                            \/ \E who \in Identities \cup {Nobody} : Approve(t, who)
  <2>1. UNCHANGED <<claim, pc, fabricated, digest, inHand, human>>
    BY <1>4 DEF Deliver, Merge, Approve, Move, thread, channel
  <2> QED
    BY <2>1, ChannelStays DEF Ruled, Clean, RejectedIn
<1>5. CASE UNCHANGED vars
  BY <1>5, ChannelStays DEF vars, db, thread, channel, Ruled, Clean, RejectedIn
<1> QED
  BY <1>1, <1>2, <1>3, <1>4, <1>5 DEF Next

LEMMA InitRules ==
  ASSUME Init
  PROVE  Ruled /\ Clean
<1>1. OnItsWay = {}
  BY ToSetOfEmpty DEF Init, OnItsWay
<1> QED
  BY <1>1 DEF Init, Ruled, Clean, RejectedIn

\* One contradicted claim keeps its whole batch from the human for good, whatever the
\* other requests, the flushes and the restarts do meanwhile (relay_claims).
THEOREM FabricationIsWithheld == Spec => []FabricationWithheld
<1> DEFINE IInv == Typed /\ Ruled /\ Clean
<1>1. Init => IInv
  BY InitTyped, InitRules
<1>2. IInv /\ [Next]_vars => IInv'
  BY NextTyped, NextRules
<1>3. IInv => FabricationWithheld
  BY DEF Clean, RejectedIn, FabricationWithheld
<1> QED
  BY <1>1, <1>2, <1>3, PTL DEF Spec

-----------------------------------------------------------------------------
(* A revoked identity says nothing new.                                      *)

NoNewVoiceStep ==
  \A i \in Identities : trust[i].state = "revoked" =>
    Cleared(i)' \subseteq Cleared(i) /\ trust'[i].state = "revoked"

\* A step of the thread of b lets b alone set out, and only if it was cleared before.
LEMMA ClearedStays ==
  ASSUME Typed, NEW b \in Batches,
         \A x \in Batches \ {b} : pc'[x] = pc[x],
         ToSet(digest') \subseteq ToSet(digest) \cup {b}, inHand' = inHand,
         \/ trust[From[b]].state # "revoked"
         \/ pc[b] \in Working
         \/ pc'[b] \notin Working /\ digest' = digest
  PROVE  \A i \in Identities : trust[i].state = "revoked" => Cleared(i)' \subseteq Cleared(i)
BY DEF Cleared

LEMMA HandleSilences ==
  ASSUME Typed, NEW b \in Batches, Handle(b)
  PROVE  NoNewVoiceStep
<1> USE DEF Goto, db, thread, channel
<1>1. ASSUME NEW reachable \in BOOLEAN, Submit(b, reachable) PROVE NoNewVoiceStep
  <2>1. UNCHANGED <<trust, digest, inHand>>
    BY <1>1 DEF Submit
  <2>2. \A x \in Batches \ {b} : pc'[x] = pc[x]
    BY <1>1 DEF Submit, Typed, TypeOK
  <2>3. trust[From[b]].state # "revoked" \/ pc'[b] \notin Working
    BY <1>1 DEF Submit, IsRelayAllowed, Working, Typed, TypeOK
  <2> QED
    BY <2>1, <2>2, <2>3, ClearedStays DEF NoNewVoiceStep
<1>2. CASE Record(b) \/ (\E down : Verify(b, down)) \/ Rule(b) \/ Escalate(b) \/ SendFails(b)
  <2>1. UNCHANGED <<trust, digest, inHand>> /\ pc[b] \in Working
    BY <1>2 DEF Record, Verify, Rule, Escalate, SendFails, Working
  <2>2. \A x \in Batches \ {b} : pc'[x] = pc[x]
    BY <1>2 DEF Record, Verify, Rule, Escalate, SendFails, Typed, TypeOK
  <2> QED
    BY <2>1, <2>2, ClearedStays DEF NoNewVoiceStep
<1>3. CASE StrikeOriginator(b) \/ Cascade(b)
  <2>1. UNCHANGED <<digest, inHand>> /\ pc[b] \in Working
    BY <1>3 DEF StrikeOriginator, Cascade, Working
  <2>2. \A x \in Batches \ {b} : pc'[x] = pc[x]
    BY <1>3 DEF StrikeOriginator, Cascade, Typed, TypeOK
  <2>3. \A i \in Identities : trust[i].state = "revoked" => trust'[i].state = "revoked"
    BY <1>3, StrikeTyped DEF StrikeOriginator, Cascade, Typed
  <2> QED
    BY <2>1, <2>2, <2>3, ClearedStays DEF NoNewVoiceStep
<1>4. CASE Send(b)
  <2>1. UNCHANGED <<trust, inHand>> /\ pc[b] \in Working
    BY <1>4 DEF Send, Working
  <2>2. \A x \in Batches \ {b} : pc'[x] = pc[x]
    BY <1>4 DEF Send, Typed, TypeOK
  <2>3. digest' = digest \/ digest' = Append(digest, b)
    BY <1>4, Zenon DEF Send
  <2>4. ToSet(digest') \subseteq ToSet(digest) \cup {b}
    BY <2>3, ToSetOfAppend, Zenon DEF Typed
  <2> QED
    BY <2>1, <2>2, <2>4, ClearedStays DEF NoNewVoiceStep
<1> QED
  BY <1>1, <1>2, <1>3, <1>4 DEF Handle

LEMMA NextSilences ==
  ASSUME Typed, [Next]_vars
  PROVE  NoNewVoiceStep
<1>1. ASSUME NEW b \in Batches, Handle(b) PROVE NoNewVoiceStep
  BY <1>1, HandleSilences
<1>2. CASE FlushTakes \/ FlushSends \/ FlushFails
  <2>1. UNCHANGED <<trust, pc>>
    BY <1>2 DEF FlushTakes, FlushSends, FlushFails, db, thread
  <2>2. ToSet(digest') \cup ToSet(inHand') \subseteq ToSet(digest) \cup ToSet(inHand)
    BY <1>2, ToSetOfEmpty DEF FlushTakes, FlushSends, FlushFails
  <2> QED
    BY <2>1, <2>2 DEF NoNewVoiceStep, Cleared
<1>3. CASE Restart
  <2>1. /\ trust' = trust
        /\ pc' = [b \in Batches |-> IF pc[b] \in Working THEN "dead" ELSE pc[b]]
    BY <1>3 DEF Restart, db
  <2>2. ToSet(digest') \cup ToSet(inHand') = {}
    BY <1>3, ToSetOfEmpty DEF Restart
  <2> QED
    BY <2>1, <2>2 DEF NoNewVoiceStep, Cleared, Working
<1>4. CASE \E t \in Tasks : \/ Deliver(t) \/ Merge(t)
                            \/ \E who \in Identities \cup {Nobody} : Approve(t, who)
  <2>1. UNCHANGED <<trust, pc, digest, inHand>>
    BY <1>4 DEF Deliver, Merge, Approve, Move, thread, channel
  <2> QED
    BY <2>1 DEF NoNewVoiceStep, Cleared
<1>5. CASE UNCHANGED vars
  BY <1>5 DEF vars, db, thread, channel, NoNewVoiceStep, Cleared
<1> QED
  BY <1>1, <1>2, <1>3, <1>4, <1>5 DEF Next

\* From the commit that revokes an identity on, no request of it passes the permission
\* check and no text of it enters the digest (is_relay_allowed, record_strike).
THEOREM RevokedIsSilent == Spec => NoNewVoice
<1>1. Typed /\ [Next]_vars => [NoNewVoiceStep]_vars
  BY NextSilences
<1>2. [][NoNewVoiceStep]_vars => NoNewVoice
  BY PTL DEF NoNewVoice, NoNewVoiceStep
<1> QED
  BY <1>1, <1>2, InitTyped, NextTyped, PTL DEF Spec

-----------------------------------------------------------------------------
(* Nobody is struck twice for a claim, or without cause.                    *)

\* Finitely many claims.
LEMMA SlotsFinite == IsFiniteSet(Slots)
<1> DEFINE Of(x) == {x} \X DOMAIN Says[x]
           S == {Of(x) : x \in Batches}
           f == [x \in Batches |-> Of(x)]
<1>1. ASSUME NEW b \in Batches PROVE IsFiniteSet(Of(b))
  <2>1. IsFiniteSet({b})
    BY FS_Singleton
  <2>2. 1 \in Int /\ Len(Says[b]) \in Int /\ DOMAIN Says[b] = 1..Len(Says[b])
    BY RelayAssumption
  <2>3. IsFiniteSet(DOMAIN Says[b])
    BY <2>2, FS_Interval
  <2>. QED BY <2>1, <2>3, FS_Product
<1>2. f \in Surjection(Batches, S)
  BY Fun_IsSurj
<1>3. IsFiniteSet(Batches)
  BY RelayAssumption
<1>4. IsFiniteSet(S)
  <2> HIDE DEF f, S
  <2>. QED BY <1>2, <1>3, FS_Surjection
<1>5. \A T \in S : IsFiniteSet(T)
  <2> HIDE DEF Of
  <2>. QED BY <1>1
<1>6. IsFiniteSet(UNION S)
  <2> HIDE DEF S
  <2>. QED BY <1>4, <1>5, FS_UNION
<1>. QED BY <1>6 DEF Slots

LEMMA SlotsAre == \A c : c \in Slots <=> \E b \in Batches : \E k \in DOMAIN Says[b] : c = <<b, k>>
BY DEF Slots

\* How far the thread of b has come.  It judges its claims in order, and a claim it calls
\* contradicted was.
JudgedOf(b) ==
  /\ pc[b] \in {"new", "record"} =>
       \A c \in Slots : c[1] = b /\ c[2] >= at[b] => claim[c] = "none"
  /\ pc[b] \in {"verify", "rule", "strike", "cascade"} =>
       /\ Here(b) \in Slots
       /\ \A c \in Slots : c[1] = b /\ c[2] > at[b] => claim[c] = "none"
  /\ pc[b] \in {"verify", "rule"} => claim[Here(b)] = "pending"
  /\ pc[b] = "rule" => /\ verdict[b] \in Verdicts
                       /\ verdict[b] = "rejected" => Disagreed(Here(b))
  /\ pc[b] \in {"strike", "cascade"} => claim[Here(b)] = "rejected" /\ Disagreed(Here(b))

Recorded == been \in [Tasks -> SUBSET Statuses] /\ \A t \in Tasks : status[t] \in been[t]
Judged == Recorded /\ \A b \in Batches : JudgedOf(b)

\* The claim for which identity i has still to be struck ...
Pending(i, b) == pc[b] = "strike" \/ (pc[b] = "cascade" /\ i # From[b])
\* ... and those for which it was, or would have been had the Spokesman not died.
Charged(i) == {c \in Implicating(i) : ~\E b \in Batches : c = Here(b) /\ Pending(i, b)}

Paid == \A i \in Identities : trust[i].strikes <= Cardinality(Charged(i))

LEMMA ChargedFinite ==
  ASSUME NEW i
  PROVE  /\ IsFiniteSet(Charged(i)) /\ IsFiniteSet(Implicating(i))
         /\ Cardinality(Charged(i)) \in Nat /\ Cardinality(Implicating(i)) \in Nat
         /\ Cardinality(Charged(i)) <= Cardinality(Implicating(i))
<1>1. Charged(i) \in SUBSET Implicating(i) /\ Implicating(i) \in SUBSET Slots
  BY DEF Charged, Implicating
<1>2. IsFiniteSet(Implicating(i))
  BY <1>1, SlotsFinite, FS_Subset
<1>. QED BY <1>1, <1>2, FS_Subset, FS_CardinalityType

\* More is charged: no strike, or one for a claim that is newly charged.
LEMMA ChargedGrows ==
  ASSUME Typed, Paid, NEW i \in Identities, Charged(i) \subseteq Charged(i)', trust'[i].strikes \in Nat,
         \/ trust'[i].strikes = trust[i].strikes
         \/ /\ trust'[i].strikes = trust[i].strikes + 1
            /\ \E c \in Charged(i)' : c \notin Charged(i)
  PROVE  trust'[i].strikes <= Cardinality(Charged(i)')
<1> DEFINE A == Charged(i)
           B == Charged(i)'
<1>1. IsFiniteSet(A) /\ Cardinality(A) \in Nat /\ trust[i].strikes <= Cardinality(A)
  BY ChargedFinite DEF Paid
<1>2. B \subseteq Slots
  BY DEF Charged, Implicating
<1>3. IsFiniteSet(B)
  BY <1>2, SlotsFinite, FS_Subset
<1>4. Cardinality(B) \in Nat /\ A \in SUBSET B /\ trust[i].strikes \in Nat
  BY <1>3, FS_CardinalityType DEF Typed, TypeOK
<1>5. Cardinality(A) <= Cardinality(B)
  <2> HIDE DEF A, B
  <2>. QED BY <1>3, <1>4, FS_Subset
<1>6. (\E c \in B : c \notin A) => Cardinality(A) # Cardinality(B)
  <2> HIDE DEF A, B
  <2>. QED BY <1>3, <1>4, FS_Subset
<1> HIDE DEF A, B
<1>7. CASE trust'[i].strikes = trust[i].strikes
  BY <1>1, <1>4, <1>5, <1>7 DEF B
<1>8. CASE trust'[i].strikes = trust[i].strikes + 1 /\ \E c \in B : c \notin A
  BY <1>1, <1>4, <1>5, <1>6, <1>8 DEF B
<1>. QED BY <1>7, <1>8 DEF A, B

\* What no step undoes.
Standing ==
  /\ \A t \in Tasks : been[t] \subseteq been'[t] /\ approvers[t] \subseteq approvers'[t]
  /\ \A c \in Slots : claim[c] = "rejected" => claim'[c] = "rejected"

LEMMA DisagreedStays ==
  ASSUME Standing, NEW c \in Slots, Disagreed(c) PROVE Disagreed(c)'
<1>1. \A r \in Says[c[1]][c[2]].refs : r.to \in Tasks \cup {Metric, Artifact}
  BY SlotsAre, RelayAssumption
<1>. QED BY <1>1 DEF Standing, Disagreed

LEMMA ImplicatingStays ==
  ASSUME Standing, NEW i PROVE Implicating(i) \subseteq Implicating(i)'
<1> SUFFICES ASSUME NEW c \in Implicating(i) PROVE c \in Implicating(i)'
  OBVIOUS
<1>1. c \in Slots /\ claim[c] = "rejected" /\ Disagreed(c)
  BY DEF Implicating, Disagreed
<1>2. claim'[c] = "rejected" /\ Disagreed(c)'
  BY <1>1, DisagreedStays DEF Standing
<1>3. \/ From[c[1]] = i
      \/ \E r \in Says[c[1]][c[2]].refs : r.to \in Tasks /\ i \in approvers'[r.to]
  BY DEF Implicating, Standing
<1>. QED BY <1>1, <1>2, <1>3 DEF Implicating, Disagreed

\* A step of the thread of b alone.
StepOf(b) ==
  /\ \A x \in Batches \ {b} : pc'[x] = pc[x] /\ at'[x] = at[x] /\ verdict'[x] = verdict[x]
  /\ \A c \in Slots : c[1] # b => claim'[c] = claim[c]

LEMMA OthersJudged ==
  ASSUME Judged, Standing, NEW b \in Batches, StepOf(b), JudgedOf(b)', Recorded'
  PROVE  Judged'
<1>1. ASSUME NEW x \in Batches \ {b} PROVE JudgedOf(x)'
  <2>1. /\ pc'[x] = pc[x] /\ at'[x] = at[x] /\ verdict'[x] = verdict[x] /\ Here(x)' = Here(x)
        /\ \A c \in Slots : c[1] = x => claim'[c] = claim[c]
    BY DEF StepOf, Here
  <2>2. Here(x) \in Slots /\ Disagreed(Here(x)) => Disagreed(Here(x))'
    <3>1. PICK c : c = Here(x)
      OBVIOUS
    <3>2. c \in Slots /\ Disagreed(c) => Disagreed(c)'
      BY DisagreedStays
    <3>3. Disagreed(Here(x))' <=> Disagreed(c)'
      BY <2>1, <3>1 DEF Disagreed
    <3>. QED BY <3>1, <3>2, <3>3
  <2>3. Here(x)[1] = x
    BY DEF Here
  <2>4. JudgedOf(x)
    BY DEF Judged
  <2>. QED BY <2>1, <2>2, <2>3, <2>4 DEF JudgedOf
<1>. QED BY <1>1 DEF Judged

\* Only the claim in hand is marked, and one called contradicted is not marked again.
LEMMA Marks ==
  ASSUME Typed, NEW b \in Batches, NEW v, claim' = [claim EXCEPT ![Here(b)] = v],
         claim[Here(b)] # "rejected", UNCHANGED <<been, approvers>>
  PROVE  /\ Standing /\ \A c \in Slots : c # Here(b) => claim'[c] = claim[c]
         /\ Here(b) \in Slots => claim'[Here(b)] = v
BY DEF Typed, TypeOK, Standing

LEMMA NothingMarked ==
  ASSUME UNCHANGED <<been, approvers, claim>> PROVE Standing
BY DEF Standing

\* The thread of b steps without touching the rows it cites.
LEMMA HandleJudges ==
  ASSUME Typed, Judged, NEW b \in Batches, Handle(b)
  PROVE  Judged' /\ Standing
<1>0. JudgedOf(b) /\ Recorded' /\ at[b] \in Nat /\ Here(b) = <<b, at[b]>> /\ UNCHANGED <<status, been>>
  BY DEF Judged, Typed, TypeOK, Here, Handle, Submit, Record, Verify, Rule, StrikeOriginator,
         Cascade, Escalate, Send, SendFails, db, Recorded
<1>1. ASSUME NEW reachable \in BOOLEAN, Submit(b, reachable) PROVE Judged' /\ Standing
  <2>1. StepOf(b) /\ Standing /\ UNCHANGED <<at, claim>> /\ pc[b] = "new"
    BY <1>1, NothingMarked DEF Submit, Goto, StepOf, Typed, TypeOK, db
  <2>2. pc'[b] \in {"record", "refused"}
    BY <1>1 DEF Submit, Goto, Typed, TypeOK
  <2>3. JudgedOf(b)'
    BY <1>0, <2>1, <2>2 DEF JudgedOf
  <2>. QED BY <1>0, <2>1, <2>3, OthersJudged
<1>2. CASE Record(b)
  <2>1. /\ claim' = [claim EXCEPT ![Here(b)] = "pending"] /\ UNCHANGED <<been, approvers, verdict>>
        /\ pc[b] = "record" /\ More(b)
    BY <1>2 DEF Record
  <2>2. Here(b) \in Slots
    BY <1>0, <2>1, SlotsAre DEF More
  <2>3. claim[Here(b)] = "none"
    BY <1>0, <2>1, <2>2 DEF JudgedOf
  <2>4. /\ Standing /\ \A c \in Slots : c # Here(b) => claim'[c] = claim[c]
        /\ claim'[Here(b)] = "pending"
    BY <2>1, <2>2, <2>3, Marks
  <2>5. \/ pc' = pc /\ at' = [at EXCEPT ![b] = @ + 1]
        \/ pc' = [pc EXCEPT ![b] = "verify"] /\ at' = at
    BY <1>2 DEF Record, Goto
  <2>6. /\ pc \in [Batches -> Working \cup {"new", "done", "refused", "failed", "dead"}]
        /\ at \in [Batches -> Nat \ {0}]
    BY DEF Typed, TypeOK
  <2>7. StepOf(b)
    BY <1>0, <2>1, <2>4, <2>5, <2>6 DEF StepOf
  <2>8. \A c \in Slots : c[1] = b /\ c[2] > at[b] => claim'[c] = "none" /\ c[2] \in Nat
    <3>1. \A c \in Slots : c[2] \in Nat
      BY SlotsAre, RelayAssumption
    <3>. QED BY <1>0, <2>1, <2>4, <3>1 DEF JudgedOf
  <2>9. JudgedOf(b)'
    <3>1. CASE pc' = pc /\ at' = [at EXCEPT ![b] = @ + 1]
      <4>1. pc'[b] = "record" /\ at'[b] = at[b] + 1
        BY <2>1, <2>6, <3>1
      <4>2. \A c \in Slots : c[1] = b /\ c[2] >= at'[b] => claim'[c] = "none"
        <5>1. \A c \in Slots : c[2] \in Nat
          BY SlotsAre, RelayAssumption
        <5>. QED BY <1>0, <2>8, <4>1, <5>1
      <4>. QED BY <4>1, <4>2 DEF JudgedOf
    <3>2. CASE pc' = [pc EXCEPT ![b] = "verify"] /\ at' = at
      <4>1. pc'[b] = "verify" /\ at'[b] = at[b] /\ Here(b)' = Here(b)
        BY <2>6, <3>2 DEF Here
      <4>. QED BY <2>2, <2>4, <2>8, <4>1 DEF JudgedOf
    <3>. QED BY <2>5, <3>1, <3>2
  <2>. QED BY <1>0, <2>4, <2>7, <2>9, OthersJudged
<1>3. ASSUME pc[b] = "verify", NEW down \in SUBSET Current(b).refs, Verify(b, down)
      PROVE  Judged' /\ Standing
  <2>1. /\ verdict' = [verdict EXCEPT ![b] = VerifyClaim(Current(b).refs, down)]
        /\ pc' = [pc EXCEPT ![b] = "rule"] /\ UNCHANGED <<at, claim, approvers>>
    BY <1>3 DEF Verify, Goto, db
  <2>2. Standing /\ StepOf(b)
    BY <1>0, <2>1, NothingMarked DEF StepOf, Typed, TypeOK
  <2>3. /\ pc'[b] = "rule" /\ verdict'[b] = VerdictWith(Current(b).refs, down)
        /\ Here(b)' = Here(b)
    BY <2>1 DEF Typed, TypeOK, VerifyClaim, Here
  <2>4. Here(b) \in Slots
    BY <1>0, <1>3 DEF JudgedOf
  <2>5. ASSUME VerdictWith(Current(b).refs, down) = "rejected" PROVE Disagreed(Here(b))'
    <3>1. PICK r \in Current(b).refs : Contradicted(r)
      BY <2>5 DEF VerdictWith
    <3>2. PICK f \in r.fields : f.readable /\ f.want # Actual(r.to)
      BY <3>1 DEF Contradicted
    <3>3. r.to # Artifact
      BY <3>1 DEF Contradicted, Exists
    <3>4. r.to \in Tasks \cup {Metric, Artifact}
      BY <1>0, <2>4, SlotsAre, RelayAssumption DEF Current
    <3>5. r.to = Metric \/ been[r.to] \ {f.want} # {}
      BY <3>2, <3>3, <3>4 DEF Actual, Judged, Recorded
    <3>6. Here(b)[1] = b /\ Here(b)[2] = at[b]
      BY <1>0
    <3>. QED BY <1>0, <2>3, <3>2, <3>3, <3>5, <3>6 DEF Disagreed, Current
  <2>6. VerdictWith(Current(b).refs, down) \in Verdicts
    BY VerdictTyped
  <2>7. JudgedOf(b)'
    BY <1>0, <1>3, <2>1, <2>3, <2>4, <2>5, <2>6 DEF JudgedOf
  <2>. QED BY <1>0, <2>2, <2>7, OthersJudged
<1>4. CASE Rule(b)
  <2>1. /\ claim' = [claim EXCEPT ![Here(b)] = verdict[b]] /\ UNCHANGED <<been, approvers>>
        /\ verdict' = [verdict EXCEPT ![b] = "none"] /\ pc[b] = "rule"
    BY <1>4 DEF Rule
  <2>2. Here(b) \in Slots /\ claim[Here(b)] = "pending"
    BY <1>0, <2>1 DEF JudgedOf
  <2>3. /\ Standing /\ \A c \in Slots : c # Here(b) => claim'[c] = claim[c]
        /\ claim'[Here(b)] = verdict[b]
    BY <2>1, <2>2, Marks
  <2>4. \/ pc' = [pc EXCEPT ![b] = "record"] /\ at' = [at EXCEPT ![b] = @ + 1]
        \/ /\ pc' = [pc EXCEPT ![b] = "strike"] /\ at' = at
           /\ verdict[b] # "verified" /\ verdict[b] # "unverifiable"
    BY <1>4 DEF Rule, Goto
  <2>6. /\ pc \in [Batches -> Working \cup {"new", "done", "refused", "failed", "dead"}]
        /\ at \in [Batches -> Nat \ {0}] /\ verdict \in [Batches -> {"none"} \cup Verdicts]
    BY DEF Typed, TypeOK
  <2>7. StepOf(b)
    BY <1>0, <2>1, <2>3, <2>4, <2>6 DEF StepOf
  <2>8. \A c \in Slots : c[1] = b /\ c[2] > at[b] => claim'[c] = "none" /\ c[2] \in Nat
    <3>1. \A c \in Slots : c[2] \in Nat
      BY SlotsAre, RelayAssumption
    <3>. QED BY <1>0, <2>1, <2>3, <3>1 DEF JudgedOf
  <2>9. JudgedOf(b)'
    <3>1. CASE pc' = [pc EXCEPT ![b] = "record"] /\ at' = [at EXCEPT ![b] = @ + 1]
      <4>1. pc'[b] = "record" /\ at'[b] = at[b] + 1
        BY <2>6, <3>1
      <4>2. \A c \in Slots : c[1] = b /\ c[2] >= at'[b] => claim'[c] = "none"
        <5>1. \A c \in Slots : c[2] \in Nat
          BY SlotsAre, RelayAssumption
        <5>. QED BY <1>0, <2>8, <4>1, <5>1
      <4>. QED BY <4>1, <4>2 DEF JudgedOf
    <3>2. CASE /\ pc' = [pc EXCEPT ![b] = "strike"] /\ at' = at
               /\ verdict[b] # "verified" /\ verdict[b] # "unverifiable"
      <4>1. pc'[b] = "strike" /\ at'[b] = at[b] /\ Here(b)' = Here(b)
        BY <2>6, <3>2 DEF Here
      <4>2. verdict[b] = "rejected" /\ Disagreed(Here(b))
        BY <1>0, <2>1, <3>2 DEF JudgedOf, Verdicts
      <4>3. Disagreed(Here(b))'
        BY <1>0, <4>1, <4>2 DEF Disagreed
      <4>. QED BY <2>2, <2>3, <2>8, <4>1, <4>2, <4>3 DEF JudgedOf
    <3>. QED BY <2>4, <3>1, <3>2
  <2>. QED BY <1>0, <2>3, <2>7, <2>9, OthersJudged
<1>5. CASE StrikeOriginator(b)
  <2>1. /\ pc[b] = "strike" /\ pc' = [pc EXCEPT ![b] = "cascade"]
        /\ UNCHANGED <<at, claim, approvers, verdict>>
    BY <1>5 DEF StrikeOriginator, Goto
  <2>2. Standing /\ StepOf(b) /\ pc'[b] = "cascade" /\ Here(b)' = Here(b)
    BY <1>0, <2>1, NothingMarked DEF StepOf, Typed, TypeOK, Here
  <2>3. Disagreed(Here(b)) => Disagreed(Here(b))'
    BY <1>0, <2>2 DEF Disagreed
  <2>4. JudgedOf(b)'
    BY <1>0, <2>1, <2>2, <2>3 DEF JudgedOf
  <2>. QED BY <1>0, <2>2, <2>4, OthersJudged
<1>6. CASE Cascade(b)
  <2>1. /\ pc[b] = "cascade" /\ pc' = [pc EXCEPT ![b] = "record"]
        /\ at' = [at EXCEPT ![b] = @ + 1] /\ UNCHANGED <<claim, approvers, verdict>>
    BY <1>6 DEF Cascade, Goto
  <2>2. Standing /\ StepOf(b) /\ pc'[b] = "record" /\ at'[b] = at[b] + 1
    BY <1>0, <2>1, NothingMarked DEF StepOf, Typed, TypeOK
  <2>3. \A c \in Slots : c[1] = b /\ c[2] >= at'[b] => claim'[c] = "none"
    <3>1. \A c \in Slots : c[2] \in Nat
      BY SlotsAre, RelayAssumption
    <3>. QED BY <1>0, <2>1, <2>2, <3>1 DEF JudgedOf
  <2>4. JudgedOf(b)'
    BY <2>2, <2>3 DEF JudgedOf
  <2>. QED BY <1>0, <2>2, <2>4, OthersJudged
<1>7. CASE Escalate(b) \/ Send(b) \/ SendFails(b)
  <2>1. /\ pc' = [pc EXCEPT ![b] = "done"] \/ pc' = [pc EXCEPT ![b] = "failed"]
        /\ UNCHANGED <<at, claim, approvers, verdict>>
    BY <1>7 DEF Escalate, Send, SendFails, Goto, db
  <2>2. Standing /\ StepOf(b) /\ pc'[b] \in {"done", "failed"}
    BY <1>0, <2>1, NothingMarked DEF StepOf, Typed, TypeOK
  <2>4. JudgedOf(b)'
    BY <2>2 DEF JudgedOf
  <2>. QED BY <1>0, <2>2, <2>4, OthersJudged
<1>. QED BY <1>1, <1>2, <1>3, <1>4, <1>5, <1>6, <1>7 DEF Handle

\* Everybody else.
World ==
  \/ FlushTakes \/ FlushSends \/ FlushFails \/ Restart
  \/ \E t \in Tasks : Deliver(t) \/ Merge(t)
  \/ \E t \in Tasks : \E who \in Identities \cup {Nobody} : Approve(t, who)
  \/ UNCHANGED vars

Moved(t, to) ==
  /\ status' = [status EXCEPT ![t] = to] /\ been' = [been EXCEPT ![t] = @ \cup {to}]
  /\ UNCHANGED <<trust, claim, thread>>
  /\ \A x \in Tasks : approvers[x] \subseteq approvers'[x]

LEMMA WorldMoves ==
  ASSUME Typed, World
  PROVE  \/ /\ UNCHANGED <<status, been, approvers, trust, claim>>
            /\ UNCHANGED thread \/ Restart
         \/ \E t \in Tasks : \E to \in Statuses : Moved(t, to)
<1>1. ASSUME NEW t \in Tasks, Deliver(t) PROVE Moved(t, "ready_for_review")
  BY <1>1 DEF Deliver, Move, Moved
<1>2. ASSUME NEW t \in Tasks, Merge(t) PROVE Moved(t, "merged")
  BY <1>2 DEF Merge, Move, Moved
<1>3. ASSUME NEW t \in Tasks, NEW who, Approve(t, who) PROVE Moved(t, "approved")
  <2>1. approvers' = [approvers EXCEPT ![t] = @ \cup {who}]
    BY <1>3 DEF Approve
  <2>2. \A x \in Tasks : approvers[x] \subseteq approvers'[x]
    BY <2>1 DEF Typed, TypeOK
  <2>. QED BY <1>3, <2>2 DEF Approve, Move, Moved
<1>4. CASE FlushTakes \/ FlushSends \/ FlushFails \/ UNCHANGED vars
  BY <1>4 DEF FlushTakes, FlushSends, FlushFails, vars, db
<1>5. CASE Restart
  BY <1>5 DEF Restart, db
<1>. QED BY <1>1, <1>2, <1>3, <1>4, <1>5 DEF World, Statuses

LEMMA WorldJudges ==
  ASSUME Typed, Judged, World
  PROVE  Judged' /\ Standing /\ UNCHANGED <<claim, trust>>
<1>1. Standing /\ Recorded' /\ UNCHANGED <<claim, trust>>
  <2>1. CASE UNCHANGED <<status, been, approvers, trust, claim>>
    BY <2>1 DEF Standing, Judged, Recorded
  <2>2. ASSUME NEW t \in Tasks, NEW to \in Statuses, Moved(t, to)
        PROVE  Standing /\ Recorded' /\ UNCHANGED <<claim, trust>>
    <3>1. status \in [Tasks -> Statuses] /\ been \in [Tasks -> SUBSET Statuses]
      BY DEF Typed, TypeOK, Judged, Recorded
    <3>. QED BY <2>2, <3>1 DEF Moved, Standing, Judged, Recorded
  <2>. QED BY <2>1, <2>2, WorldMoves
<1>2. ASSUME NEW b \in Batches PROVE JudgedOf(b)'
  <2>1. CASE pc'[b] = pc[b] /\ at'[b] = at[b] /\ verdict'[b] = verdict[b]
    <3>1. PICK c : c = Here(b)
      OBVIOUS
    <3>2. c \in Slots /\ Disagreed(c) => Disagreed(c)'
      BY <1>1, DisagreedStays
    <3>3. Here(b)' = c /\ (Disagreed(Here(b))' <=> Disagreed(c)')
      BY <2>1, <3>1 DEF Here, Disagreed
    <3>4. JudgedOf(b)
      BY DEF Judged
    <3>. QED BY <1>1, <2>1, <3>1, <3>2, <3>3, <3>4 DEF JudgedOf
  <2>2. CASE pc'[b] = "dead"
    BY <2>2 DEF JudgedOf
  <2>3. (pc'[b] = pc[b] /\ at'[b] = at[b] /\ verdict'[b] = verdict[b]) \/ pc'[b] = "dead"
    <3>1. CASE UNCHANGED thread
      BY <3>1 DEF thread
    <3>2. CASE Restart
      BY <3>2 DEF Restart
    <3>. QED BY <3>1, <3>2, WorldMoves DEF Moved
  <2>. QED BY <2>1, <2>2, <2>3
<1>. QED BY <1>1, <1>2 DEF Judged

\* What was charged stays charged, unless the thread of b takes it up.
LEMMA ChargedStays ==
  ASSUME Standing, NEW b \in Batches, StepOf(b), NEW i,
         Pending(i, b)' => Here(b)' \notin Charged(i)
  PROVE  Charged(i) \subseteq Charged(i)'
<1> SUFFICES ASSUME NEW c \in Charged(i) PROVE c \in Charged(i)'
  OBVIOUS
<1>1. c \in Implicating(i)'
  BY ImplicatingStays DEF Charged
<1>2. ASSUME NEW x \in Batches, c = Here(x)', Pending(i, x)' PROVE FALSE
  <2>1. CASE x = b
    BY <1>2, <2>1
  <2>2. CASE x # b
    <3>1. Here(x)' = Here(x) /\ pc'[x] = pc[x]
      BY <2>2 DEF StepOf, Here
    <3>. QED BY <1>2, <3>1 DEF Pending, Charged
  <2>. QED BY <2>1, <2>2
<1>. QED BY <1>1, <1>2 DEF Charged

\* The claim in hand, once it implicates i and nothing is pending for i.
LEMMA NewlyCharged ==
  ASSUME NEW b \in Batches, NEW c, c = Here(b), NEW i,
         Pending(i, b), c \in Implicating(i)',
         \A x \in Batches : c = Here(x)' => ~Pending(i, x)'
  PROVE  \E d \in Charged(i)' : d \notin Charged(i)
BY DEF Charged

LEMMA StrikeOne ==
  ASSUME Typed, NEW I, Strike(I), NEW i \in Identities
  PROVE  /\ trust'[i].strikes \in Nat
         /\ i \in I => trust'[i].strikes = trust[i].strikes + 1
         /\ i \notin I => trust'[i].strikes = trust[i].strikes
BY DEF Typed, TypeOK, Strike

LEMMA HandlePays ==
  ASSUME Typed, Judged, Paid, NEW b \in Batches, Handle(b)
  PROVE  Paid'
<1>0. Judged' /\ Standing
  BY HandleJudges
<1>1. JudgedOf(b)
  BY DEF Judged
<1>a. /\ at \in [Batches -> Nat \ {0}] /\ verdict \in [Batches -> {"none"} \cup Verdicts]
      /\ pc \in [Batches -> Working \cup {"new", "done", "refused", "failed", "dead"}]
      /\ DOMAIN claim = Slots
  BY DEF Typed, TypeOK
<1>2. StepOf(b)
  <2>1. \/ claim' = claim
        \/ \E v : claim' = [claim EXCEPT ![Here(b)] = v]
    BY DEF Handle, Submit, Record, Verify, Rule, StrikeOriginator, Cascade, Escalate, Send,
           SendFails, db
  <2>2. \A c \in Slots : c[1] # b => claim'[c] = claim[c]
    BY <1>a, <2>1 DEF Here
  <2>3. /\ \/ pc' = pc
           \/ \E l : pc' = [pc EXCEPT ![b] = l]
        /\ \/ at' = at
           \/ \E k : at' = [at EXCEPT ![b] = k]
        /\ \/ verdict' = verdict
           \/ \E v : verdict' = [verdict EXCEPT ![b] = v]
    BY DEF Handle, Submit, Record, Verify, Rule, StrikeOriginator, Cascade, Escalate, Send,
           SendFails, Goto
  <2>. QED BY <1>a, <2>2, <2>3 DEF StepOf
<1> SUFFICES ASSUME NEW i \in Identities PROVE trust'[i].strikes <= Cardinality(Charged(i)')
  BY DEF Paid, Charged, Implicating
<1>3. trust[i].strikes \in Nat
  BY DEF Typed, TypeOK
<1>4. CASE StrikeOriginator(b)
  <2>1. /\ pc[b] = "strike" /\ pc'[b] = "cascade" /\ Here(b)' = Here(b) /\ Strike({From[b]})
    BY <1>4, <1>a DEF StrikeOriginator, Goto, Here
  <2>2. Pending(i, b) /\ Here(b) \notin Charged(i)
    BY <2>1 DEF Pending, Charged
  <2>3. Charged(i) \subseteq Charged(i)'
    BY <1>0, <1>2, <2>1, <2>2, ChargedStays
  <2>4. CASE i # From[b]
    <3>1. trust'[i].strikes = trust[i].strikes
      BY <2>1, <2>4, StrikeOne
    <3>. QED BY <1>3, <2>3, <3>1, ChargedGrows
  <2>5. CASE i = From[b]
    <3>1. trust'[i].strikes = trust[i].strikes + 1 /\ trust'[i].strikes \in Nat
      BY <2>1, <2>5, StrikeOne
    <3>2. PICK c : c = Here(b)
      OBVIOUS
    <3>3. JudgedOf(b)'
      BY <1>0 DEF Judged
    <3>4. claim'[c] = "rejected" /\ Disagreed(c)' /\ c \in Slots /\ c[1] = b
      <4>1. Here(b)' \in Slots /\ claim'[Here(b)'] = "rejected" /\ Disagreed(Here(b))'
        BY <2>1, <3>3 DEF JudgedOf
      <4>2. Disagreed(Here(b))' <=> Disagreed(c)'
        BY <2>1, <3>2 DEF Disagreed
      <4>. QED BY <2>1, <3>2, <4>1, <4>2 DEF Here
    <3>5. c \in Implicating(i)'
      BY <2>5, <3>4 DEF Implicating, Disagreed
    <3>6. \A x \in Batches : c = Here(x)' => ~Pending(i, x)'
      BY <2>1, <2>5, <3>4 DEF Here, Pending
    <3>7. \E d \in Charged(i)' : d \notin Charged(i)
      BY <2>2, <3>2, <3>5, <3>6, NewlyCharged
    <3>. QED BY <2>3, <3>1, <3>7, ChargedGrows
  <2>. QED BY <2>4, <2>5
<1>5. CASE Cascade(b)
  <2>1. /\ pc[b] = "cascade" /\ pc'[b] = "record" /\ Strike(CascadeTo(b, Current(b).refs))
        /\ UNCHANGED <<claim, approvers, been>>
    BY <1>5, <1>a DEF Cascade, Goto
  <2>2. ~Pending(i, b)'
    BY <2>1 DEF Pending
  <2>3. Charged(i) \subseteq Charged(i)'
    BY <1>0, <1>2, <2>2, ChargedStays
  <2>4. CASE i \notin CascadeTo(b, Current(b).refs)
    <3>1. trust'[i].strikes = trust[i].strikes
      BY <2>1, <2>4, StrikeOne
    <3>. QED BY <1>3, <2>3, <3>1, ChargedGrows
  <2>5. CASE i \in CascadeTo(b, Current(b).refs)
    <3>1. trust'[i].strikes = trust[i].strikes + 1 /\ trust'[i].strikes \in Nat
      BY <2>1, <2>5, StrikeOne
    <3>2. PICK c : c = Here(b)
      OBVIOUS
    <3>3. c \in Slots /\ claim[c] = "rejected" /\ Disagreed(c)
      <4>1. Here(b) \in Slots /\ claim[Here(b)] = "rejected" /\ Disagreed(Here(b))
        BY <1>1, <2>1 DEF JudgedOf
      <4>. QED BY <3>2, <4>1
    <3>4. c[1] = b /\ c[2] = at[b]
      BY <3>2 DEF Here
    <3>5. i # From[b] /\ \E r \in Current(b).refs : r.to \in Tasks /\ i \in approvers[r.to]
      BY <2>5 DEF CascadeTo, ApproversOf
    <3>6. c \in Implicating(i)
      BY <3>3, <3>4, <3>5 DEF Implicating, Disagreed, Current
    <3>7. c \in Implicating(i)'
      BY <1>0, <3>6, ImplicatingStays
    <3>8. Pending(i, b)
      BY <2>1, <3>5 DEF Pending
    <3>9. \A x \in Batches : c = Here(x)' => ~Pending(i, x)'
      BY <2>2, <3>4 DEF Here
    <3>10. \E d \in Charged(i)' : d \notin Charged(i)
      BY <3>2, <3>7, <3>8, <3>9, NewlyCharged
    <3>. QED BY <2>3, <3>1, <3>10, ChargedGrows
  <2>. QED BY <2>4, <2>5
<1>6. CASE Rule(b)
  <2>1. pc[b] = "rule" /\ trust' = trust
    BY <1>6 DEF Rule
  <2>2. claim[Here(b)] = "pending"
    BY <1>1, <2>1 DEF JudgedOf
  <2>3. Here(b) \notin Charged(i)
    BY <2>2 DEF Charged, Implicating
  <2>4. at' = at \/ pc'[b] = "record"
    BY <1>6, <1>a DEF Rule, Goto
  <2>5. Pending(i, b)' => Here(b)' \notin Charged(i)
    BY <2>3, <2>4 DEF Pending, Here
  <2>6. Charged(i) \subseteq Charged(i)'
    BY <1>0, <1>2, <2>5, ChargedStays
  <2>. QED BY <1>3, <2>1, <2>6, ChargedGrows
<1>7. CASE \/ \E reachable \in BOOLEAN : Submit(b, reachable)
           \/ Record(b)
           \/ pc[b] = "verify" /\ (\E down \in SUBSET Current(b).refs : Verify(b, down))
           \/ Escalate(b) \/ Send(b) \/ SendFails(b)
  <2>1. trust' = trust /\ pc'[b] \in {"refused", "record", "verify", "rule", "done", "failed"}
    BY <1>7, <1>a DEF Submit, Record, Verify, Escalate, Send, SendFails, Goto, db
  <2>2. ~Pending(i, b)'
    BY <2>1 DEF Pending
  <2>3. Charged(i) \subseteq Charged(i)'
    BY <1>0, <1>2, <2>2, ChargedStays
  <2>. QED BY <1>3, <2>1, <2>3, ChargedGrows
<1>. QED BY <1>4, <1>5, <1>6, <1>7 DEF Handle

LEMMA WorldPays ==
  ASSUME Typed, Judged, Paid, World
  PROVE  Paid'
<1>0. Standing /\ UNCHANGED trust
  BY WorldJudges
<1>1. ASSUME NEW x \in Batches, NEW i, Pending(i, x)' PROVE Pending(i, x) /\ Here(x)' = Here(x)
  <2>1. CASE UNCHANGED thread
    BY <1>1, <2>1 DEF thread, Pending, Here
  <2>2. CASE Restart
    BY <1>1, <2>2 DEF Restart, Pending, Here
  <2>. QED BY <2>1, <2>2, WorldMoves DEF Moved
<1> SUFFICES ASSUME NEW i \in Identities PROVE trust'[i].strikes <= Cardinality(Charged(i)')
  BY DEF Paid, Charged, Implicating
<1>2. Charged(i) \subseteq Charged(i)'
  <2> SUFFICES ASSUME NEW c \in Charged(i) PROVE c \in Charged(i)'
    OBVIOUS
  <2>1. c \in Implicating(i)'
    BY <1>0, ImplicatingStays DEF Charged
  <2>2. ~\E x \in Batches : c = Here(x)' /\ Pending(i, x)'
    BY <1>1 DEF Charged
  <2>. QED BY <2>1, <2>2 DEF Charged
<1>3. trust[i].strikes \in Nat
  BY DEF Typed, TypeOK
<1>. QED BY <1>0, <1>2, <1>3, ChargedGrows

LEMMA InitPays == Init => Judged /\ Paid
<1> SUFFICES ASSUME Init PROVE Judged /\ Paid
  OBVIOUS
<1>1. Judged
  BY DEF Init, Judged, JudgedOf, Recorded, Statuses
<1>2. \A i \in Identities : trust[i].strikes = 0
  BY DEF Init, Fresh
<1>3. \A i : Cardinality(Charged(i)) \in Nat
  BY ChargedFinite
<1>. QED BY <1>1, <1>2, <1>3 DEF Paid

\* An identity is struck at most once for each contradicted claim that implicates it, for
\* any claims, any evidence that is missing or ill-formed and any restarts (record_strike,
\* cascade_strike_to_approvers).  A strike that a crash left out is never made up for, so
\* the count may be lower.
THEOREM StrikesHaveCause == Spec => []StruckForCause
<1> DEFINE IInv == Typed /\ Judged /\ Paid
<1>1. Init => IInv
  BY InitTyped, InitPays
<1>2. IInv /\ [Next]_vars => IInv'
  <2> SUFFICES ASSUME IInv, [Next]_vars PROVE IInv'
    OBVIOUS
  <2>1. Typed'
    BY NextTyped
  <2>2. ASSUME NEW b \in Batches, Handle(b) PROVE Judged' /\ Paid'
    BY <2>2, HandleJudges, HandlePays
  <2>3. ASSUME World PROVE Judged' /\ Paid'
    BY <2>3, WorldJudges, WorldPays
  <2>4. World \/ \E b \in Batches : Handle(b)
    BY DEF Next, World
  <2>. QED BY <2>1, <2>2, <2>3, <2>4
<1>3. IInv => StruckForCause
  <2> SUFFICES ASSUME IInv, NEW i \in Identities
               PROVE  trust[i].strikes <= Cardinality(Implicating(i))
    BY DEF StruckForCause
  <2>1. trust[i].strikes \in Nat /\ trust[i].strikes <= Cardinality(Charged(i))
    BY DEF Typed, TypeOK, Paid
  <2>. QED BY <2>1, ChargedFinite
<1>. QED BY <1>1, <1>2, <1>3, PTL DEF Spec

-----------------------------------------------------------------------------
\* The greatest of some numbers up to b.
LEMMA HasGreatest ==
  ASSUME NEW S \in SUBSET Nat, S # {}, NEW b \in Nat, \A x \in S : x <= b
  PROVE  \E k \in S : \A x \in S : x <= k
<1> DEFINE T == {n \in Nat : \A x \in S : x <= n}
<1>1. T \subseteq Nat /\ T # {}
  OBVIOUS
<1>2. PICK m \in T : \A y \in T : ~(<<y, m>> \in OpToRel(<, Nat))
  <2> HIDE DEF T
  <2>. QED BY <1>1, NatLessThanWellFounded, WFMin
<1>3. \A y \in T : ~(y < m)
  BY <1>1, <1>2 DEF OpToRel
<1>4. m \in S
  <2> SUFFICES ASSUME m \notin S PROVE FALSE
    OBVIOUS
  <2>1. \A x \in S : x <= m - 1
    OBVIOUS
  <2>2. m - 1 \in Nat
    <3>1. PICK x \in S : TRUE
      OBVIOUS
    <3>. QED BY <2>1, <3>1
  <2>3. m - 1 \in T
    BY <2>1, <2>2
  <2>. QED BY <1>3, <2>3
<1>. QED BY <1>4

-----------------------------------------------------------------------------
(* Every event behind the cursor is accounted for                          *)

Things == [seq : Nat, of : Roles \cup Calls \cup {Alarm, Noise}]
Passes == [at : {"idle", "routing"}, todo : SUBSET Things, from : Nat, upto : Nat]

\* Numbers are given out in order; no cursor is past the last one.
Numbered ==
  /\ drawn \in Nat
  /\ open \in SUBSET Things /\ log \in SUBSET Things
  /\ \A e \in open \cup log : e.seq <= drawn
  /\ cursor \in Nat /\ cursor <= drawn
  /\ poll \in [Polls -> Passes]
  /\ \A p \in Polls : poll[p].upto <= drawn

\* What a pass has read and not yet routed is all that is missing up to its upto.
Routed ==
  \A p \in Polls : poll[p].at = "routing" =>
    \A e \in log : (e.of # Noise /\ e.seq <= poll[p].upto /\ e.seq \notin late)
                     => e.seq \in told \cup waiting \cup lost \/ e \in poll[p].todo

AccountInv == Numbered /\ Accounted /\ Routed

LEMMA LastSeqIs ==
  ASSUME Numbered, NEW E \in SUBSET log
  PROVE  LastSeq(E, cursor) \in Nat /\ LastSeq(E, cursor) <= drawn
<1>1. CASE E = {}
  BY <1>1 DEF LastSeq, Numbered
<1>2. CASE E # {}
  <2> DEFINE S == {e.seq : e \in E}
  <2>1. S \in SUBSET Nat /\ S # {} /\ \A x \in S : x <= drawn
    BY <1>2 DEF Numbered, Things
  <2>2. \E k \in S : \A x \in S : x <= k
    <3> HIDE DEF S
    <3>. QED BY <2>1, HasGreatest DEF Numbered
  <2>3. \E k \in S : \A e \in E : e.seq <= k
    BY <2>2
  <2>4. LastSeq(E, cursor) = CHOOSE k \in S : \A e \in E : e.seq <= k
    BY <1>2 DEF LastSeq
  <2>5. LastSeq(E, cursor) \in S
    <3> HIDE DEF S
    <3>. QED BY <2>3, <2>4
  <2>. QED BY <2>1, <2>5
<1>. QED BY <1>1, <1>2

LEMMA AccountInit == BridgeInit => AccountInv
BY DEF BridgeInit, Log!LogInit, NoPass, AccountInv, Numbered, Passes, Things, Accounted, Routed

\* A step that leaves the events and the bridge alone.
Elsewhere == UNCHANGED <<drawn, open, log, cursor, waiting, poll, told, late, lost>>

LEMMA ElsewhereKeeps == AccountInv /\ Elsewhere => AccountInv'
BY DEF Elsewhere, AccountInv, Numbered, Accounted, Routed

\* A transaction begins and draws a number.
LEMMA DrawKeeps ==
  ASSUME AccountInv, NEW s \in Roles \cup Calls \cup {Alarm, Noise}, Log!AppendEvent(s),
         UNCHANGED <<cursor, waiting, poll, told, late, lost>>
  PROVE  AccountInv'
<1>1. drawn' = drawn + 1 /\ open' = open \cup {[seq |-> drawn + 1, of |-> s]} /\ log' = log
  BY DEF Log!AppendEvent, Log!Draw
<1>2. [seq |-> drawn + 1, of |-> s] \in Things
  BY DEF AccountInv, Numbered, Things
<1>3. Numbered'
  <2>1. \A f \in Things : f.seq \in Nat
    BY DEF Things
  <2>2. \A p \in Polls : poll[p].upto \in Nat
    BY DEF AccountInv, Numbered, Passes
  <2>. QED BY <1>1, <1>2, <2>1, <2>2 DEF AccountInv, Numbered
<1>. QED BY <1>1, <1>3 DEF AccountInv, Accounted, Routed

\* An event becomes visible: one that a pass has read past is late.
LEMMA VisibleKeeps ==
  ASSUME AccountInv, NEW e \in Things, log' = log \cup {e}, drawn' \in Nat, drawn <= drawn',
         e.seq <= drawn', open' \in SUBSET open, late \subseteq late',
         e.seq \in late' \/ ~Passed(e.seq),
         UNCHANGED <<cursor, waiting, poll, told, lost>>
  PROVE  AccountInv'
<1>1. Numbered'
  <2>1. \A f \in Things : f.seq \in Nat
    BY DEF Things
  <2>2. \A p \in Polls : poll[p].upto \in Nat
    BY DEF AccountInv, Numbered, Passes
  <2>. QED BY <2>1, <2>2 DEF AccountInv, Numbered
<1>2. Accounted'
  BY DEF AccountInv, Accounted, Passed
<1>3. Routed'
  BY DEF AccountInv, Routed, Passed
<1>. QED BY <1>1, <1>2, <1>3 DEF AccountInv

LEMMA CommitsKeep ==
  ASSUME AccountInv, NEW e \in open, Commits(e) PROVE AccountInv'
<1>1. /\ log' = log \cup {e} /\ drawn' = drawn /\ open' \in SUBSET open
      /\ late \subseteq late' /\ (e.seq \in late' \/ ~Passed(e.seq))
      /\ UNCHANGED <<cursor, waiting, poll, told, lost>>
  BY DEF Commits, Log!Commit, bridge
<1>2. e \in Things /\ e.seq <= drawn /\ drawn \in Nat
  BY DEF AccountInv, Numbered
<1>. QED BY <1>1, <1>2, VisibleKeeps

LEMMA ProposeKeeps ==
  ASSUME AccountInv, NEW m, NEW r \in Roles, Propose(m, r) PROVE AccountInv'
<1>1. CASE UNCHANGED events
  BY <1>1, ElsewhereKeeps DEF Propose, Elsewhere, events, bridge, history
<1>2. CASE Log!Draw /\ log' = log \cup {[seq |-> drawn + 1, of |-> r]} /\ UNCHANGED open
  <2> DEFINE e == [seq |-> drawn + 1, of |-> r]
  <2>1. e \in Things /\ e.seq = drawn + 1 /\ drawn' = drawn + 1 /\ drawn \in Nat
    BY <1>2 DEF Log!Draw, AccountInv, Numbered, Things
  <2>2. UNCHANGED <<cursor, waiting, poll, told, late, lost>>
    BY DEF Propose, bridge, history
  <2>3. ~Passed(e.seq)
    <3>1. \A p \in Polls : poll[p].upto \in Nat
      BY DEF AccountInv, Numbered, Passes
    <3>. QED BY <2>1, <3>1 DEF Passed, AccountInv, Numbered
  <2> HIDE DEF e
  <2>. QED BY <1>2, <2>1, <2>2, <2>3, VisibleKeeps DEF e
<1>. QED BY <1>1, <1>2 DEF Propose, store, events

LEMMA PollReadsKeeps ==
  ASSUME AccountInv, NEW p \in Polls, PollReads(p) PROVE AccountInv'
<1> DEFINE new == Log!WindowPlain(cursor)
           q == [at |-> "routing", todo |-> {e \in new : Notifiable(e)},
                 from |-> cursor, upto |-> LastSeq(new, cursor)]
<1>1. poll' = [poll EXCEPT ![p] = q]
  BY DEF PollReads
<1>2. UNCHANGED <<drawn, open, log, cursor, waiting, told, late, lost>>
  BY DEF PollReads, events, history
<1>3. new \in SUBSET log /\ \A e \in log : e \in new <=> e.seq > cursor
  BY DEF Log!WindowPlain
<1>4. q.upto \in Nat /\ q.upto <= drawn /\ q \in Passes
  <2>1. LastSeq(new, cursor) \in Nat /\ LastSeq(new, cursor) <= drawn
    <3> HIDE DEF new
    <3>. QED BY <1>3, LastSeqIs DEF AccountInv
  <2>2. {e \in new : Notifiable(e)} \in SUBSET Things /\ cursor \in Nat
    BY <1>3 DEF AccountInv, Numbered
  <2> HIDE DEF new
  <2>. QED BY <2>1, <2>2 DEF Passes
<1>5. \A e \in log : e.of # Noise /\ e.seq > cursor => e \in q.todo
  BY <1>3 DEF Notifiable
<1>6. \A e \in log : e.seq \in Nat /\ cursor \in Nat
  BY DEF AccountInv, Numbered, Things
<1>7. q.at = "routing" /\ poll \in [Polls -> Passes]
  BY DEF AccountInv, Numbered
<1> HIDE DEF q, new
<1>8. Numbered'
  BY <1>1, <1>2, <1>4, <1>7 DEF AccountInv, Numbered
<1>9. Routed'
  <2> SUFFICES ASSUME NEW r \in Polls, poll'[r].at = "routing", NEW e \in log,
                      e.of # Noise, e.seq <= poll'[r].upto, e.seq \notin late
               PROVE  e.seq \in told \cup waiting \cup lost \/ e \in poll'[r].todo
    BY <1>2 DEF Routed
  <2>1. CASE r = p
    <3>1. poll'[r] = q
      BY <1>1, <1>7, <2>1
    <3>2. CASE e.seq > cursor
      BY <1>5, <3>1, <3>2
    <3>3. CASE ~(e.seq > cursor)
      <4>1. e.seq <= cursor
        BY <1>6, <3>3
      <4>. QED BY <4>1 DEF AccountInv, Accounted
    <3>. QED BY <3>2, <3>3
  <2>2. CASE r # p
    BY <1>1, <1>7, <2>2 DEF AccountInv, Routed
  <2>. QED BY <2>1, <2>2
<1>. QED BY <1>2, <1>8, <1>9 DEF AccountInv, Accounted

LEMMA RouteKeeps ==
  ASSUME AccountInv, NEW p \in Polls, NEW e \in log, Route(p, e) PROVE AccountInv'
<1>1. /\ poll' = [poll EXCEPT ![p].todo = @ \ {e}]
      /\ e.seq \in told' \cup waiting' /\ told \subseteq told' /\ waiting \subseteq waiting'
      /\ UNCHANGED <<drawn, open, log, cursor, late, lost>>
  BY DEF Route, events
<1>2. poll \in [Polls -> Passes]
  BY DEF AccountInv, Numbered
<1>3. /\ poll' \in [Polls -> Passes]
      /\ \A r \in Polls : /\ poll'[r].upto = poll[r].upto /\ poll'[r].at = poll[r].at
                          /\ poll[r].todo \ {e} \subseteq poll'[r].todo
  BY <1>1, <1>2 DEF Passes
<1>4. Numbered'
  BY <1>1, <1>3 DEF AccountInv, Numbered
<1>5. Accounted'
  BY <1>1 DEF AccountInv, Accounted
<1>6. Routed'
  BY <1>1, <1>3 DEF AccountInv, Routed
<1>. QED BY <1>4, <1>5, <1>6 DEF AccountInv

LEMMA PassEnds ==
  ASSUME AccountInv, NEW p \in Polls, poll' = [poll EXCEPT ![p] = NoPass],
         UNCHANGED <<drawn, open, log, waiting, told, late, lost>>,
         cursor' \in Nat, cursor' <= drawn, Accounted'
  PROVE  AccountInv'
<1>1. poll \in [Polls -> Passes] /\ NoPass \in Passes /\ NoPass.upto = 0 /\ NoPass.at = "idle"
  BY DEF AccountInv, Numbered, Passes, NoPass
<1>2. Numbered'
  BY <1>1 DEF AccountInv, Numbered
<1>3. Routed'
  BY <1>1 DEF AccountInv, Routed
<1>. QED BY <1>2, <1>3 DEF AccountInv

LEMMA SaveKeeps ==
  ASSUME AccountInv, NEW p \in Polls, Save(p) PROVE AccountInv'
<1>1. /\ poll[p].at = "routing" /\ poll[p].todo = {} /\ cursor' = poll[p].upto
      /\ poll' = [poll EXCEPT ![p] = NoPass]
      /\ UNCHANGED <<drawn, open, log, waiting, told, late, lost>>
  BY DEF Save, events, history
<1>2. cursor' \in Nat /\ cursor' <= drawn
  BY <1>1 DEF AccountInv, Numbered, Passes
<1>3. Accounted'
  BY <1>1 DEF AccountInv, Routed, Accounted
<1>. QED BY <1>1, <1>2, <1>3, PassEnds

LEMMA RouteFailsKeeps ==
  ASSUME AccountInv, NEW p \in Polls, NEW e, RouteFails(p, e) PROVE AccountInv'
<1>1. /\ poll' = [poll EXCEPT ![p] = NoPass]
      /\ UNCHANGED <<drawn, open, log, cursor, waiting, told, late, lost>>
  BY DEF RouteFails, events, history
<1>2. cursor' \in Nat /\ cursor' <= drawn /\ Accounted'
  BY <1>1 DEF AccountInv, Numbered, Accounted
<1>. QED BY <1>1, <1>2, PassEnds

\* The digest is flushed, lost in a flush, or dies with the process.
LEMMA DigestKeeps ==
  ASSUME AccountInv, Flush \/ DigestFails \/ BridgeRestart PROVE AccountInv'
<1>1. /\ told \cup waiting \cup lost \subseteq told' \cup waiting' \cup lost'
      /\ UNCHANGED <<drawn, open, log, cursor, late>>
      /\ poll' = poll \/ poll' = [p \in Polls |-> NoPass]
  BY DEF Flush, DigestFails, BridgeRestart, events
<1>2. NoPass \in Passes /\ NoPass.upto = 0 /\ NoPass.at = "idle"
  BY DEF Passes, NoPass
<1>3. Numbered'
  BY <1>1, <1>2 DEF AccountInv, Numbered
<1>4. Accounted'
  BY <1>1 DEF AccountInv, Accounted
<1>5. Routed'
  <2>1. CASE poll' = poll
    BY <1>1, <2>1 DEF AccountInv, Routed
  <2>2. CASE poll' = [p \in Polls |-> NoPass]
    BY <1>2, <2>2 DEF Routed
  <2>. QED BY <1>1, <2>1, <2>2
<1>. QED BY <1>3, <1>4, <1>5 DEF AccountInv

\* What a message handler does to rows and handoffs.
Handles(m) ==
  \/ \E verb \in {"approve", "approved", "deny"}, i \in DOMAIN row : Command(m, verb, i)
  \/ Activate(m) \/ ActivateFails(m) \/ Chat(m) \/ EndHandoff(m) \/ PickSole(m) \/ Reply(m)
  \/ \E h \in HIds : InsertHandoff(m, h)
  \/ \E i \in DOMAIN row : PickListed(m, i)
  \/ \E v \in {"approved", "denied"} : ResolveByTool(m, v)

LEMMA OthersAreElsewhere ==
  ASSUME \/ \E i \in DOMAIN row : Consume(i)
         \/ \E m \in Messages : Handles(m)
         \/ \E r \in Roles : Relay(r)
         \/ \E h \in HIds : Expire(h)
         \/ UNCHANGED bridgeVars
  PROVE  Elsewhere
<1>1. CASE \E m \in Messages : Handles(m)
  BY <1>1 DEF Handles, Command, Activate, ActivateFails, Chat, EndHandoff, PickSole, Reply,
              InsertHandoff, PickListed, ResolveByTool, Elsewhere, events, bridge, history
<1>. QED BY <1>1 DEF Consume, Relay, Expire, bridgeVars, Elsewhere, events, bridge, history

LEMMA AccountStep == AccountInv /\ [BridgeNext]_bridgeVars => AccountInv'
<1> SUFFICES ASSUME AccountInv, [BridgeNext]_bridgeVars PROVE AccountInv'
  OBVIOUS
<1>1. CASE (\E a \in Calls : AskBegins(a)) \/ (\E s \in {Alarm, Noise} : Emit(s))
  BY <1>1, DrawKeeps DEF AskBegins, Emit, bridge, history
<1>2. CASE \E e \in open : AskCommits(e) \/ EmitCommits(e)
  BY <1>2, CommitsKeep DEF AskCommits, EmitCommits
<1>3. CASE \E p \in Polls : Pass(p) \/ \E e \in log : RouteFails(p, e)
  BY <1>3, PollReadsKeeps, SaveKeeps, RouteKeeps, RouteFailsKeeps DEF Pass
<1>4. CASE Flush \/ DigestFails \/ BridgeRestart
  BY <1>4, DigestKeeps
<1>5. CASE \E m \in Messages, r \in Roles : Propose(m, r)
  BY <1>5, ProposeKeeps
<1>6. CASE \/ \E i \in DOMAIN row : Consume(i)
           \/ \E m \in Messages : Handles(m)
           \/ \E r \in Roles : Relay(r)
           \/ \E h \in HIds : Expire(h)
           \/ UNCHANGED bridgeVars
  BY <1>6, OthersAreElsewhere, ElsewhereKeeps
<1>. QED BY <1>1, <1>2, <1>3, <1>4, <1>5, <1>6 DEF BridgeNext, Handles

\* Whatever polls overlap, sends fail and restarts strike, an alarm or request behind the
\* saved cursor reached the human, waits in the digest, or was taken by a fault; only what
\* committed after a pass had read past it is excepted (run_notifier_pass).
THEOREM PassedIsAccounted == BridgeSpec => []Accounted
<1>1. AccountInv => Accounted
  BY DEF AccountInv
<1>. QED BY <1>1, AccountInit, AccountStep, PTL DEF BridgeSpec

-----------------------------------------------------------------------------
(* Nothing tagged is relayed without an approval                           *)

\* Rows are inserted in order.
RowInv ==
  /\ row \in [Rows!Ids -> [act : Roles \cup Calls \cup {NoAct}, status : Rows!RowStatuses]]
  /\ next \in Nat \ {0}
  /\ \A i \in Rows!Ids : i >= next => row[i].status = "absent"

\* Of a table R of rows.
Inserted(i, R) == i \in Rows!Ids /\ R[i].status # "absent"
Granted(i, R) == Inserted(i, R) /\ R[i].status = "approved"

\* A row keeps its action, and the grant of a handoff is never used up.
RowsKept ==
  \A i \in Rows!Ids : row[i].status # "absent" =>
    /\ row'[i].status # "absent" /\ row'[i].act = row[i].act
    /\ row[i].status = "approved" /\ row[i].act \in Roles => row'[i].status = "approved"

LEMMA InsertKeeps ==
  ASSUME RowInv, NEW a \in Roles \cup Calls, Rows!InsertPending(a)
  PROVE  /\ RowInv' /\ RowsKept /\ next \in Rows!Ids
         /\ row'[next].act = a /\ row'[next].status = "pending"
<1> DEFINE r == [act |-> a, status |-> "pending"]
<1>1. row' = [row EXCEPT ![next] = r] /\ next' = next + 1 /\ next \in Rows!Ids
  BY DEF Rows!InsertPending
<1>2. r \in [act : Roles \cup Calls \cup {NoAct}, status : Rows!RowStatuses] /\ r.act = a
      /\ r.status = "pending"
  BY DEF Rows!RowStatuses, Rows!Open
<1>3. row[next].status = "absent" /\ next \in Nat
  BY <1>1 DEF RowInv
<1> HIDE DEF r
<1>4. RowsKept
  BY <1>1, <1>3 DEF RowsKept, RowInv
<1>5. RowInv'
  <2>1. \A i \in Rows!Ids : i \in Nat
    BY DEF Rows!Ids
  <2>. QED BY <1>1, <1>2, <1>3, <2>1 DEF RowInv
<1>. QED BY <1>1, <1>2, <1>4, <1>5 DEF RowInv

LEMMA ResolveKeeps ==
  ASSUME RowInv, NEW i \in Rows!Ids, NEW v \in {"approved", "denied"}, Rows!ResolveAs(i, v)
  PROVE  RowInv' /\ RowsKept /\ row'[i].status = v /\ row'[i].act = row[i].act
<1>1. row' = [row EXCEPT ![i].status = v] /\ next' = next /\ row[i].status = "pending"
  BY DEF Rows!ResolveAs, Rows!Undecided
<1>2. v \in Rows!RowStatuses /\ v # "absent"
  BY DEF Rows!RowStatuses, Rows!Open
<1>. QED BY <1>1, <1>2 DEF RowInv, RowsKept

LEMMA ConsumeKeeps ==
  ASSUME RowInv, NEW i \in Rows!Ids, row[i].act \in Calls, Rows!Consume(i)
  PROVE  RowInv' /\ RowsKept
<1>1. row' = [row EXCEPT ![i].status = "consumed"] /\ next' = next /\ row[i].status = "approved"
  BY DEF Rows!Consume, Rows!Consumable
<1>2. "consumed" \in Rows!RowStatuses /\ row[i].act \notin Roles
  BY SpokesmanAssumption DEF Rows!RowStatuses, Rows!Open
<1>. QED BY <1>1, <1>2 DEF RowInv, RowsKept

\* What a handler holds in its hand.
Hands == [at : Ats, on : Nat, left : Int]
Holds(t, R) ==
  /\ t.at \in {"sole", "listed", "insert", "activate"} => Inserted(t.on, R)
  /\ t.at = "insert" => R[t.on].act \in Roles
  /\ t.at = "activate" /\ R[t.on].act \in Roles => Granted(t.on, R)
HandsInv == handler \in [Messages -> Hands] /\ \A m \in Messages : Holds(handler[m], row)

\* What stands behind a handoff.
Handoffs == [role : Roles \cup {NoAct}, approval : Nat, status : HandoffStatuses,
             fresh : BOOLEAN, since : Nat]
Backed(f, R) ==
  /\ f.status # "absent" => /\ Inserted(f.approval, R)
                            /\ f.role \in Roles /\ f.role = R[f.approval].act
  /\ f.status = "active" => Granted(f.approval, R)
HandoffInv == handoff \in [HIds -> Handoffs] /\ \A h \in HIds : Backed(handoff[h], row)

SpeechInv ==
  RowInv /\ HandsInv /\ HandoffInv /\ SpeechWasApproved /\ spoke \subseteq Roles

LEMMA SpeechInit == BridgeInit => SpeechInv
<1> SUFFICES ASSUME BridgeInit PROVE SpeechInv
  OBVIOUS
<1>1. RowInv
  BY DEF BridgeInit, Rows!StoreInit, RowInv, Rows!RowStatuses, Rows!Open
<1>2. HandsInv
  BY DEF BridgeInit, HandsInv, Hands, Holds, NoThread, Ats
<1>3. HandoffInv
  BY DEF BridgeInit, HandoffInv, Handoffs, Backed, HandoffStatuses
<1>. QED BY <1>1, <1>2, <1>3 DEF SpeechInv, SpeechWasApproved, BridgeInit

\* Everything that refers to rows survives what keeps the rows.
LEMMA KeptHolds ==
  ASSUME RowsKept, NEW t, Holds(t, row) PROVE Holds(t, row')
BY DEF RowsKept, Holds, Inserted, Granted

LEMMA KeptBacks ==
  ASSUME RowsKept, NEW f, Backed(f, row) PROVE Backed(f, row')
BY DEF RowsKept, Backed, Inserted, Granted

LEMMA KeptSpeech ==
  ASSUME RowInv, RowInv', RowsKept, SpeechWasApproved, spoke \subseteq Roles
  PROVE  \A r \in spoke : \E i \in DOMAIN row' : row'[i].act = r /\ row'[i].status = "approved"
<1> SUFFICES ASSUME NEW r \in spoke
             PROVE  \E i \in DOMAIN row' : row'[i].act = r /\ row'[i].status = "approved"
  OBVIOUS
<1>1. PICK i \in Rows!Ids : row[i].act = r /\ row[i].status = "approved"
  BY DEF SpeechWasApproved, RowInv
<1>2. row'[i].act = r /\ row'[i].status = "approved" /\ i \in DOMAIN row'
  BY <1>1 DEF RowsKept, RowInv
<1>. QED BY <1>2

\* Nothing but the rows, and those kept.
LEMMA RowsMove ==
  ASSUME SpeechInv, RowInv', RowsKept, UNCHANGED <<handler, handoff, spoke>>
  PROVE  SpeechInv'
<1>1. HandsInv'
  BY KeptHolds DEF SpeechInv, HandsInv
<1>2. HandoffInv'
  BY KeptBacks DEF SpeechInv, HandoffInv
<1>. QED BY <1>1, <1>2, KeptSpeech DEF SpeechInv, SpeechWasApproved

\* One handler goes on, and perhaps a row is inserted or resolved.
LEMMA HandlerMoves ==
  ASSUME SpeechInv, RowInv', RowsKept, NEW m \in Messages, NEW t \in Hands, Become(m, t),
         Holds(t, row'), UNCHANGED <<handoff, spoke>>
  PROVE  SpeechInv'
<1>1. /\ handler' \in [Messages -> Hands] /\ handler'[m] = t
      /\ \A n \in Messages : n # m => handler'[n] = handler[n]
  BY DEF SpeechInv, HandsInv, Become
<1>2. HandsInv'
  BY <1>1, KeptHolds DEF SpeechInv, HandsInv
<1>3. HandoffInv'
  BY KeptBacks DEF SpeechInv, HandoffInv
<1>. QED BY <1>2, <1>3, KeptSpeech DEF SpeechInv, SpeechWasApproved

\* Handoffs change, and perhaps a handler goes on; the rows stay.
LEMMA HandoffsMove ==
  ASSUME SpeechInv, UNCHANGED <<row, next, spoke>>, HandsInv', HandoffInv'
  PROVE  SpeechInv'
BY DEF SpeechInv, RowInv, SpeechWasApproved

LEMMA NoRowMoves == UNCHANGED row => RowsKept
BY DEF RowsKept

LEMMA HandsMove ==
  ASSUME SpeechInv, NEW m \in Messages, NEW t \in Hands, Become(m, t), Holds(t, row), row' = row
  PROVE  HandsInv'
BY DEF SpeechInv, HandsInv, Become

LEMMA SinceIsCounted ==
  ASSUME NEW S \in SUBSET HIds PROVE Cardinality(S) \in Nat
<1>1. IsFiniteSet(HIds)
  <2>1. 1 \in Int /\ MaxHandoffs \in Int
    BY SpokesmanAssumption
  <2>. QED BY <2>1, FS_Interval DEF HIds
<1>2. IsFiniteSet(S)
  BY <1>1, FS_Subset
<1>. QED BY <1>2, FS_CardinalityType

LEMMA CommandSpeech ==
  ASSUME SpeechInv, NEW m \in Messages, NEW verb \in {"approve", "approved", "deny"},
         NEW i \in DOMAIN row, Command(m, verb, i)
  PROVE  SpeechInv'
<1>1. i \in Rows!Ids /\ i \in Nat
  BY DEF SpeechInv, RowInv, Rows!Ids
<1>2. Done \in Hands /\ \A R : Holds(Done, R)
  BY DEF Done, Hands, Ats, Holds
<1>3. UNCHANGED <<handoff, spoke>>
  BY DEF Command, history
<1>4. CASE Rows!Undecided(i)
  <2>1. PICK v \in {"approved", "denied"} : /\ Rows!ResolveAs(i, v)
                                            /\ v = IF verb = "deny" THEN "denied" ELSE "approved"
    BY <1>4 DEF Command
  <2>2. /\ RowInv' /\ RowsKept /\ row'[i].status = v
    BY <1>1, <2>1, ResolveKeeps DEF SpeechInv
  <2>3. CASE verb = "approve"
    <3>1. Become(m, Activating(i)) /\ v = "approved"
      BY <1>4, <2>1, <2>3 DEF Command
    <3>2. Activating(i) \in Hands /\ Holds(Activating(i), row')
      BY <1>1, <2>2, <3>1 DEF Activating, Hands, Ats, Holds, Inserted, Granted
    <3>. QED BY <1>3, <2>2, <3>1, <3>2, HandlerMoves
  <2>4. CASE verb # "approve"
    BY <1>2, <1>3, <1>4, <2>2, <2>4, HandlerMoves DEF Command
  <2>. QED BY <2>3, <2>4
<1>5. CASE ~Rows!Undecided(i)
  <2>1. Become(m, Done) /\ UNCHANGED <<row, next>>
    BY <1>5 DEF Command, store
  <2>2. RowInv' /\ RowsKept
    BY <2>1, NoRowMoves DEF SpeechInv, RowInv
  <2>. QED BY <1>2, <1>3, <2>1, <2>2, HandlerMoves
<1>. QED BY <1>4, <1>5

LEMMA HandTypes ==
  ASSUME SpeechInv, NEW m \in Messages
  PROVE  /\ handler[m] \in Hands /\ Holds(handler[m], row)
         /\ Done \in Hands /\ Holds(Done, row) /\ Holds(Done, row')
         /\ \A S \in Ats \X Nat \X Int : [at |-> S[1], on |-> S[2], left |-> S[3]] \in Hands
BY DEF SpeechInv, HandsInv, Done, Hands, Ats, Holds

\* Where a handler can go without a row in its hand.
LEMMA FreeHands ==
  ASSUME NEW t \in Hands, t.at \in {"idle", "done", "chat"}, NEW R PROVE Holds(t, R)
BY DEF Holds

LEMMA AfterIsFree ==
  ASSUME SpeechInv, NEW m \in Messages
  PROVE  /\ AfterActivation(m) \in Hands /\ AfterActivation(m).at \in {"chat", "done"}
         /\ Spent(m) \in Hands /\ Spent(m).at = handler[m].at
<1>1. PICK t : t = handler[m]
  OBVIOUS
<1>2. t \in Hands
  BY <1>1, HandTypes
<1>3. [t EXCEPT !.left = @ - 1] \in Hands /\ [t EXCEPT !.left = @ - 1].at = t.at
  BY <1>2 DEF Hands
<1>4. \A p \in {"chat", "done"} : /\ [t EXCEPT !.at = p, !.on = 0] \in Hands
                                  /\ [t EXCEPT !.at = p, !.on = 0].at = p
  BY <1>2 DEF Hands, Ats
<1>. QED BY <1>1, <1>3, <1>4 DEF AfterActivation, Spent

LEMMA QuietRows == ASSUME SpeechInv, UNCHANGED store PROVE RowInv' /\ RowsKept
BY NoRowMoves DEF SpeechInv, RowInv, store

LEMMA ActivateSpeech ==
  ASSUME SpeechInv, NEW m \in Messages, Activate(m) PROVE SpeechInv'
<1> DEFINE n == Cardinality({g \in HIds : handoff[g].since > 0}) + 1
           on == handler[m].on
<1>1. /\ handler[m].at = "activate" /\ Become(m, AfterActivation(m))
      /\ UNCHANGED <<row, next, spoke>>
      /\ handoff' = [h \in HIds |->
           IF handoff[h].approval = on /\ handoff[h].status = "proposed"
           THEN [handoff[h] EXCEPT !.status = "active", !.since = n] ELSE handoff[h]]
  BY DEF Activate, store, history
<1>2. n \in Nat
  <2>1. Cardinality({g \in HIds : handoff[g].since > 0}) \in Nat
    BY SinceIsCounted
  <2>. QED BY <2>1
<1>3. HandsInv'
  <2>1. Holds(AfterActivation(m), row)
    BY AfterIsFree, FreeHands
  <2>. QED BY <1>1, <2>1, AfterIsFree, HandsMove
<1>4. row[on].act \in Roles => Granted(on, row)
  BY <1>1, HandTypes DEF Holds
<1> HIDE DEF n, on
<1>5. ASSUME NEW h \in HIds PROVE handoff'[h] \in Handoffs /\ Backed(handoff'[h], row)
  <2>1. handoff[h] \in Handoffs /\ Backed(handoff[h], row)
    BY DEF SpeechInv, HandoffInv
  <2>2. CASE handoff[h].approval = on /\ handoff[h].status = "proposed"
    <3>1. PICK f : f = handoff[h]
      OBVIOUS
    <3>2. handoff'[h] = [f EXCEPT !.status = "active", !.since = n]
      BY <1>1, <2>2, <3>1
    <3>3. /\ handoff'[h] \in Handoffs /\ handoff'[h].approval = f.approval
          /\ handoff'[h].role = f.role /\ handoff'[h].status = "active"
      BY <1>2, <2>1, <3>1, <3>2 DEF Handoffs, HandoffStatuses
    <3>. QED BY <1>4, <2>1, <2>2, <3>1, <3>3 DEF Backed
  <2>3. CASE ~(handoff[h].approval = on /\ handoff[h].status = "proposed")
    BY <1>1, <2>1, <2>3
  <2>. QED BY <2>2, <2>3
<1>6. HandoffInv'
  BY <1>1, <1>5 DEF HandoffInv
<1>. QED BY <1>1, <1>3, <1>6, HandoffsMove

LEMMA ProposeSpeech ==
  ASSUME SpeechInv, NEW m \in Messages, NEW r \in Roles, Propose(m, r) PROVE SpeechInv'
<1>0. UNCHANGED <<handoff, spoke>> /\ Spent(m) \in Hands
  BY AfterIsFree DEF Propose, history
<1>1. ASSUME Rows!InsertPending(r), Become(m, [Spent(m) EXCEPT !.at = "insert", !.on = next])
      PROVE  SpeechInv'
  <2>1. /\ RowInv' /\ RowsKept /\ next \in Rows!Ids /\ next \in Nat
        /\ row'[next].act = r /\ row'[next].status = "pending"
    BY <1>1, InsertKeeps DEF SpeechInv, RowInv
  <2>2. PICK t : t = [Spent(m) EXCEPT !.at = "insert", !.on = next]
    OBVIOUS
  <2>3. t \in Hands /\ t.at = "insert" /\ t.on = next
    BY <1>0, <2>1, <2>2 DEF Hands, Ats
  <2>4. Holds(t, row')
    BY <2>1, <2>3 DEF Holds, Inserted
  <2>. QED BY <1>0, <1>1, <2>1, <2>2, <2>3, <2>4, HandlerMoves
<1>2. ASSUME NEW i \in DOMAIN row, UNCHANGED store, Rows!OldestOpen(r, i),
             Become(m, [Spent(m) EXCEPT !.at = "insert", !.on = i])
      PROVE  SpeechInv'
  <2>1. i \in Rows!Ids /\ i \in Nat /\ row[i].act = r /\ row[i].status # "absent"
    BY <1>2 DEF Rows!OldestOpen, Rows!RowsOf, Rows!Reusable, Rows!Ids
  <2>2. PICK t : t = [Spent(m) EXCEPT !.at = "insert", !.on = i]
    OBVIOUS
  <2>3. t \in Hands /\ t.at = "insert" /\ t.on = i
    BY <1>0, <2>1, <2>2 DEF Hands, Ats
  <2>4. Holds(t, row)
    BY <2>1, <2>3 DEF Holds, Inserted
  <2>5. RowInv' /\ RowsKept /\ row' = row
    BY <1>2, QuietRows DEF store
  <2>. QED BY <1>0, <1>2, <2>2, <2>3, <2>4, <2>5, HandlerMoves
<1>. QED BY <1>1, <1>2 DEF Propose

LEMMA InsertHandoffSpeech ==
  ASSUME SpeechInv, NEW m \in Messages, NEW h \in HIds, InsertHandoff(m, h) PROVE SpeechInv'
<1> DEFINE on == handler[m].on
           t == [handler[m] EXCEPT !.at = "chat", !.on = 0]
<1>1. /\ handler[m].at = "insert" /\ Become(m, t) /\ UNCHANGED <<row, next, spoke>>
      /\ handoff' = [handoff EXCEPT ![h].role = row[on].act, ![h].status = "proposed",
                                    ![h].approval = on]
  BY DEF InsertHandoff, store, history
<1>2. t \in Hands /\ t.at = "chat"
  BY HandTypes DEF Hands, Ats
<1>3. Inserted(on, row) /\ row[on].act \in Roles /\ on \in Nat
  BY <1>1, HandTypes DEF Holds, Hands
<1> HIDE DEF on, t
<1>4. HandsInv'
  BY <1>1, <1>2, FreeHands, HandsMove
<1>5. handoff \in [HIds -> Handoffs]
  BY DEF SpeechInv, HandoffInv
<1>6. /\ handoff' \in [HIds -> Handoffs] /\ handoff'[h].approval = on
      /\ handoff'[h].role = row[on].act /\ handoff'[h].status = "proposed"
      /\ \A g \in HIds : g # h => handoff'[g] = handoff[g]
  BY <1>1, <1>3, <1>5 DEF Handoffs, HandoffStatuses
<1>7. HandoffInv'
  BY <1>1, <1>3, <1>6 DEF SpeechInv, HandoffInv, Backed
<1>. QED BY <1>1, <1>4, <1>7, HandoffsMove

\* Handoffs end or grow stale.
LEMMA EndedBacks ==
  ASSUME SpeechInv, UNCHANGED row, DOMAIN handoff' = HIds,
         \A h \in HIds : \/ handoff'[h] = handoff[h]
                         \/ handoff'[h] = [handoff[h] EXCEPT !.status = "ended"]
                              /\ handoff[h].status = "active"
                         \/ handoff'[h] = [handoff[h] EXCEPT !.fresh = FALSE],
         handoff' = [h \in HIds |-> handoff'[h]]
  PROVE  HandoffInv'
<1>1. ASSUME NEW h \in HIds PROVE handoff'[h] \in Handoffs /\ Backed(handoff'[h], row)
  <2>1. PICK f : f = handoff[h]
    OBVIOUS
  <2>2. f \in Handoffs /\ Backed(f, row)
    BY <2>1 DEF SpeechInv, HandoffInv
  <2>3. CASE handoff'[h] = f
    BY <2>2, <2>3
  <2>4. CASE handoff'[h] = [f EXCEPT !.status = "ended"] /\ f.status = "active"
    <3>1. /\ handoff'[h] \in Handoffs /\ handoff'[h].status = "ended"
          /\ handoff'[h].approval = f.approval /\ handoff'[h].role = f.role
      BY <2>2, <2>4 DEF Handoffs, HandoffStatuses
    <3>. QED BY <2>2, <2>4, <3>1 DEF Backed
  <2>5. CASE handoff'[h] = [f EXCEPT !.fresh = FALSE]
    <3>1. /\ handoff'[h] \in Handoffs /\ handoff'[h].status = f.status
          /\ handoff'[h].approval = f.approval /\ handoff'[h].role = f.role
      BY <2>2, <2>5 DEF Handoffs
    <3>. QED BY <2>2, <2>5, <3>1 DEF Backed
  <2>. QED BY <2>1, <2>3, <2>4, <2>5
<1>. QED BY <1>1 DEF HandoffInv

LEMMA EndHandoffSpeech ==
  ASSUME SpeechInv, NEW m \in Messages, EndHandoff(m) PROVE SpeechInv'
<1>1. /\ handler[m].at = "chat" /\ Become(m, Spent(m)) /\ UNCHANGED <<row, next, spoke>>
      /\ handoff' = [h \in HIds |-> IF handoff[h].status = "active"
                                    THEN [handoff[h] EXCEPT !.status = "ended"] ELSE handoff[h]]
  BY DEF EndHandoff, Tool, store, history
<1>2. HandsInv'
  BY <1>1, AfterIsFree, FreeHands, HandsMove
<1>3. HandoffInv'
  BY <1>1, EndedBacks
<1>. QED BY <1>1, <1>2, <1>3, HandoffsMove

LEMMA ExpireSpeech ==
  ASSUME SpeechInv, NEW h \in HIds, Expire(h) PROVE SpeechInv'
<1>1. /\ handoff' = [handoff EXCEPT ![h].fresh = FALSE]
      /\ UNCHANGED <<row, next, handler, spoke>>
  BY DEF Expire, store, history
<1>2. handoff \in [HIds -> Handoffs]
  BY DEF SpeechInv, HandoffInv
<1>3. HandoffInv'
  BY <1>1, <1>2, EndedBacks
<1>4. HandsInv'
  BY <1>1 DEF SpeechInv, HandsInv
<1>. QED BY <1>1, <1>3, <1>4, HandoffsMove

LEMMA PickSpeech ==
  ASSUME SpeechInv, NEW m \in Messages, PickSole(m) \/ \E i \in DOMAIN row : PickListed(m, i)
  PROVE  SpeechInv'
<1>1. ASSUME NEW i \in Rows!Ids, row[i].status # "absent", NEW p \in {"sole", "listed"},
             Become(m, [Spent(m) EXCEPT !.at = p, !.on = i]), UNCHANGED <<store, handoff, spoke>>
      PROVE  SpeechInv'
  <2>1. PICK t : t = [Spent(m) EXCEPT !.at = p, !.on = i]
    OBVIOUS
  <2>a. Spent(m) \in Hands /\ i \in Nat
    BY AfterIsFree DEF Rows!Ids
  <2>2. t \in Hands /\ t.at = p /\ t.on = i
    BY <2>1, <2>a DEF Hands, Ats
  <2>3. Holds(t, row)
    BY <1>1, <2>2 DEF Holds, Inserted
  <2>4. RowInv' /\ RowsKept /\ row' = row
    BY <1>1, QuietRows DEF store
  <2>. QED BY <1>1, <2>1, <2>2, <2>3, <2>4, HandlerMoves
<1>2. UNCHANGED <<store, handoff, spoke>>
  BY DEF PickSole, PickListed, history
<1>3. CASE \E i \in DOMAIN row : PickListed(m, i)
  BY <1>1, <1>2, <1>3 DEF PickListed, SpeechInv, RowInv
<1>4. CASE PickSole(m)
  <2>1. CASE Cardinality(PendingReal) = 1
    <3>1. PendingReal # {}
      BY <2>1, FS_EmptySet
    <3>2. PICK i : i = CHOOSE j \in PendingReal : TRUE
      OBVIOUS
    <3>3. i \in PendingReal
      BY <3>1, <3>2
    <3>4. i \in Rows!Ids /\ row[i].status # "absent"
      BY <3>3 DEF PendingReal, SpeechInv, RowInv
    <3>5. Become(m, [Spent(m) EXCEPT !.at = "sole", !.on = i])
      BY <1>4, <2>1, <3>2 DEF PickSole
    <3>. QED BY <1>1, <1>2, <3>4, <3>5
  <2>2. CASE Become(m, Spent(m)) /\ handler[m].at = "chat"
    <3>1. RowInv' /\ RowsKept /\ row' = row
      BY <1>2, QuietRows DEF store
    <3>. QED BY <1>2, <2>2, <3>1, AfterIsFree, FreeHands, HandlerMoves
  <2>. QED BY <1>4, <2>1, <2>2 DEF PickSole, Tool
<1>. QED BY <1>3, <1>4

LEMMA ResolveSpeech ==
  ASSUME SpeechInv, NEW m \in Messages, NEW v \in {"approved", "denied"}, ResolveByTool(m, v)
  PROVE  SpeechInv'
<1> DEFINE on == handler[m].on
           back == [handler[m] EXCEPT !.at = "chat", !.on = 0]
           go == [handler[m] EXCEPT !.at = "activate"]
<1>1. handler[m].at \in {"sole", "listed"} /\ UNCHANGED <<handoff, spoke>>
  BY DEF ResolveByTool, history
<1>2. on \in Rows!Ids /\ row[on].status # "absent"
  BY <1>1, HandTypes DEF Holds, Inserted
<1>3. back \in Hands /\ back.at = "chat" /\ go \in Hands /\ go.at = "activate" /\ go.on = on
  BY HandTypes DEF Hands, Ats
<1>4. \/ /\ Rows!ResolveAs(on, v)
         /\ Become(m, IF v = "approved" THEN go ELSE back)
      \/ Become(m, back) /\ UNCHANGED store
  BY DEF ResolveByTool, ActivatesOn
<1> HIDE DEF on, back, go
<1>5. CASE Become(m, back) /\ UNCHANGED store
  BY <1>1, <1>3, <1>5, QuietRows, FreeHands, HandlerMoves
<1>6. CASE Rows!ResolveAs(on, v) /\ Become(m, IF v = "approved" THEN go ELSE back)
  <2>1. RowInv' /\ RowsKept /\ row'[on].status = v
    BY <1>2, <1>6, ResolveKeeps DEF SpeechInv
  <2>2. CASE v = "approved"
    <3>1. Holds(go, row')
      BY <1>2, <1>3, <2>1, <2>2 DEF Holds, Inserted, Granted
    <3>. QED BY <1>1, <1>3, <1>6, <2>1, <2>2, <3>1, HandlerMoves
  <2>3. CASE v # "approved"
    BY <1>1, <1>3, <1>6, <2>1, <2>3, FreeHands, HandlerMoves
  <2>. QED BY <2>2, <2>3
<1>. QED BY <1>4, <1>5, <1>6

LEMMA TalkSpeech ==
  ASSUME SpeechInv, NEW m \in Messages, ActivateFails(m) \/ Chat(m) \/ Reply(m) PROVE SpeechInv'
<1>1. UNCHANGED <<store, handoff, spoke>>
  BY DEF ActivateFails, Chat, Reply, history
<1>2. \E t \in Hands : t.at \in {"chat", "done"} /\ Become(m, t)
  <2>1. [at |-> "chat", on |-> 0, left |-> Rounds] \in Hands
    BY SpokesmanAssumption DEF Hands, Ats
  <2>2. Done \in Hands /\ Done.at = "done"
    BY HandTypes DEF Done
  <2>. QED BY <2>1, <2>2, AfterIsFree DEF ActivateFails, Chat, Reply
<1>. QED BY <1>1, <1>2, QuietRows, FreeHands, HandlerMoves

LEMMA RelaySpeech ==
  ASSUME SpeechInv, NEW r \in Roles, Relay(r) PROVE SpeechInv'
<1>1. PICK h \in HIds : handoff[h].status = "active" /\ handoff[h].role = r
  BY DEF Relay, Speaks, IsActive
<1>2. PICK i \in Rows!Ids : row[i].act = r /\ row[i].status = "approved"
  BY <1>1 DEF SpeechInv, HandoffInv, Backed, Granted, Inserted
<1>3. spoke' = spoke \cup {r} /\ UNCHANGED <<row, next, handler, handoff>>
  BY DEF Relay, store
<1>4. SpeechWasApproved'
  BY <1>2, <1>3 DEF SpeechInv, SpeechWasApproved, RowInv
<1>. QED BY <1>3, <1>4 DEF SpeechInv, RowInv, HandsInv, HandoffInv

LEMMA RestartSpeech ==
  ASSUME SpeechInv, BridgeRestart PROVE SpeechInv'
<1>1. /\ handler' = [m \in Messages |-> IF handler[m].at = "done" THEN handler[m] ELSE NoThread]
      /\ UNCHANGED <<row, next, handoff, spoke>>
  BY DEF BridgeRestart, store
<1>2. NoThread \in Hands /\ Holds(NoThread, row)
  BY DEF NoThread, Hands, Ats, Holds
<1>3. HandsInv'
  BY <1>1, <1>2 DEF SpeechInv, HandsInv
<1>4. HandoffInv'
  BY <1>1 DEF SpeechInv, HandoffInv
<1>. QED BY <1>1, <1>3, <1>4, HandoffsMove

LEMMA SpeechStep == SpeechInv /\ [BridgeNext]_bridgeVars => SpeechInv'
<1> SUFFICES ASSUME SpeechInv, [BridgeNext]_bridgeVars PROVE SpeechInv'
  OBVIOUS
<1>1. CASE UNCHANGED <<store, handler, handoff, spoke>>
  BY <1>1, QuietRows, RowsMove
<1>2. CASE \E e \in open : AskCommits(e) \/ EmitCommits(e)
  <2>1. CASE \E e \in open : EmitCommits(e)
    BY <1>1, <2>1 DEF EmitCommits, Commits
  <2>2. CASE \E e \in open : AskCommits(e)
    <3>1. PICK e \in open : e.of \in Calls /\ Rows!InsertPending(e.of)
                              /\ UNCHANGED <<handler, handoff, spoke>>
      BY <2>2 DEF AskCommits, Commits
    <3>. QED BY <3>1, InsertKeeps, RowsMove DEF SpeechInv
  <2>. QED BY <1>2, <2>1, <2>2
<1>3. CASE \E i \in DOMAIN row : Consume(i)
  <2>1. PICK i \in Rows!Ids : row[i].act \in Calls /\ Rows!Consume(i)
                                /\ UNCHANGED <<handler, handoff, spoke>>
    BY <1>3 DEF Consume, history, SpeechInv, RowInv
  <2>. QED BY <2>1, ConsumeKeeps, RowsMove DEF SpeechInv
<1>4. CASE \E m \in Messages, r \in Roles : Propose(m, r)
  BY <1>4, ProposeSpeech
<1>8. CASE \E m \in Messages : Handles(m)
  BY <1>8, CommandSpeech, ActivateSpeech, InsertHandoffSpeech, EndHandoffSpeech,
     PickSpeech, ResolveSpeech, TalkSpeech DEF Handles
<1>5. CASE BridgeRestart \/ (\E r \in Roles : Relay(r)) \/ (\E h \in HIds : Expire(h))
  BY <1>5, RestartSpeech, RelaySpeech, ExpireSpeech
<1>6. CASE (\E a \in Calls : AskBegins(a)) \/ (\E s \in {Alarm, Noise} : Emit(s))
  BY <1>1, <1>6 DEF AskBegins, Emit, history
<1>7. CASE \E p \in Polls : Pass(p) \/ \E e \in log : RouteFails(p, e)
  BY <1>1, <1>7 DEF Pass, PollReads, Save, Route, RouteFails, history
<1>9. CASE Flush \/ DigestFails \/ UNCHANGED bridgeVars
  BY <1>1, <1>9 DEF Flush, DigestFails, bridgeVars, history
<1>10. \/ (\E a \in Calls : AskBegins(a)) \/ (\E s \in {Alarm, Noise} : Emit(s))
       \/ \E e \in open : AskCommits(e) \/ EmitCommits(e)
       \/ \E i \in DOMAIN row : Consume(i)
       \/ \E p \in Polls : Pass(p) \/ \E e \in log : RouteFails(p, e)
       \/ Flush \/ DigestFails \/ UNCHANGED bridgeVars
       \/ \E m \in Messages, r \in Roles : Propose(m, r)
       \/ \E m \in Messages : Handles(m)
       \/ BridgeRestart \/ (\E r \in Roles : Relay(r)) \/ (\E h \in HIds : Expire(h))
  BY DEF BridgeNext, Handles
<1>. QED BY <1>2, <1>3, <1>4, <1>5, <1>6, <1>7, <1>8, <1>9, <1>10

\* Tagged messages of a role are relayed only on an approved request for that role, for
\* any number of messages, proposals, verdicts and restarts (handoff.py).  The approval is
\* a command of the human or the resolve_approval tool's (converse.py).
THEOREM RelayedIsApproved == BridgeSpec => []SpeechWasApproved
<1>1. SpeechInv => SpeechWasApproved
  BY DEF SpeechInv
<1>. QED BY <1>1, SpeechInit, SpeechStep, PTL DEF BridgeSpec

=============================================================================
