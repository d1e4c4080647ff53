------------------------------- MODULE Relay -------------------------------
(***************************************************************************)
(* The verify-or-refuse gate between the studio and the human              *)
(* (spokesman/grounding_gate.py) over the trust ledger and the claims      *)
(* table (runtime/trust.py) and the Notifier's digest                      *)
(* (spokesman/classify.py).                                                *)
(*                                                                         *)
(* Every POST /notify is a batch of claims from one identity, handled by   *)
(* a thread of its own: the permission check, then claim by claim the      *)
(* provenance row, the resolution of the evidence, the verdict, and for a  *)
(* contradicted claim the strike and its cascade; then one send.  Each of  *)
(* these is a transaction of its own, so two batches, the studio that      *)
(* moves the tasks they cite, a flush of the digest and a restart of the   *)
(* Spokesman interleave with it.                                           *)
(*                                                                         *)
(* Evidence is a reference to a row: its existence, whether `expected` can *)
(* be read as an assertion about it, and whether it agrees are all that    *)
(* the verdicts tell apart.                                                *)
(***************************************************************************)
EXTENDS Integers, Sequences, FiniteSets, SequencesExt

CONSTANTS
  Identities,   \* originating identities and reviewers
  Nobody,       \* the agent_id of an automatic approval
  Batches,      \* requests to /notify
  From,         \* From[b]: the originating identity
  Says,         \* Says[b]: its claims, [judgment, refs]
  Kind,         \* Kind[b]: "alarm" goes out now, "inform" waits for the digest
  Tasks,        \* task rows claims may cite
  Metric,       \* the whitelisted metric comms_claims_total
  Artifact,     \* an artifact pointer: there is no store to resolve it against
  MaxCrashes    \* bound: restarts of the Spokesman

ASSUME RelayAssumption ==
  /\ Nobody \notin Identities /\ Metric \notin Tasks /\ Artifact \notin Tasks
  /\ IsFiniteSet(Batches) /\ From \in [Batches -> Identities] /\ MaxCrashes \in Nat
  /\ \A b \in Batches : Len(Says[b]) \in Nat /\ DOMAIN Says[b] = 1..Len(Says[b])
  /\ \A b \in Batches : \A k \in DOMAIN Says[b] : \A r \in Says[b][k].refs :
       r.to \in Tasks \cup {Metric, Artifact}

VARIABLES
  \* database
  status,     \* status[t]: lifecycle status of a task row, "absent" before its INSERT
  approvers,  \* approvers[t]: agent_ids of its ready_for_review -> approved hops
  trust,      \* identity_trust: state and strikes of each identity
  claim,      \* comms_claims: verification status of the k-th claim of b
  \* the thread of each request
  pc, at, sendable, fabricated, verdict,
  \* the Notifier and its channel
  digest,     \* batches whose text waits in Notifier._pending
  inHand,     \* batches a flush has taken and not yet sent
  human,      \* batches whose text reached the human
  alarmed,    \* batches whose fabrication was escalated
  crashes,
  \* history
  been,       \* been[t]: every status the row has had
  wasTrue     \* claims that agreed with the source of truth when submitted

db == <<status, approvers, trust, claim>>
thread == <<pc, at, sendable, fabricated, verdict>>
channel == <<digest, inHand, human, alarmed>>
vars == <<db, thread, channel, crashes, been, wasTrue>>

Statuses == {"absent", "ready_for_review", "approved", "merged"}
Working == {"record", "verify", "rule", "strike", "cascade"}
Verdicts == {"verified", "unverifiable", "rejected"}
Slots == UNION {{b} \X DOMAIN Says[b] : b \in Batches}
Here(b) == <<b, at[b]>>
Current(b) == Says[b][at[b]]

-----------------------------------------------------------------------------
(* verify_claim.  A reference is [to, fields]; a field of `expected` is      *)
(* [readable, want].                                                         *)

Actual(r) == IF r = Metric THEN Cardinality({c \in Slots : claim[c] # "none"})
             ELSE status[r]

Exists(r) == r # Artifact /\ (r = Metric \/ status[r] # "absent")

\* A contradiction needs a well-formed assertion; it wins over an ill-formed one.
Contradicted(ref) ==
  Exists(ref.to) /\ \E f \in ref.fields : f.readable /\ f.want # Actual(ref.to)
Malformed(ref) ==
  Exists(ref.to) /\ ~Contradicted(ref) /\ \E f \in ref.fields : ~f.readable
Resolved(ref) == Exists(ref.to) /\ ~Malformed(ref)

\* resolve_ref fails closed: the references in `down` met an error.
VerdictWith(refs, down) ==
  CASE \E r \in refs \ down : Contradicted(r) -> "rejected"
    [] refs # {} /\ \A r \in refs : r \notin down /\ Resolved(r) -> "verified"
    [] OTHER -> "unverifiable"

VerifyClaim(refs, down) == VerdictWith(refs, down)

\* cascade_strike_to_approvers: who approved a task the claim cites, less the originator.
ApproversOf(refs) ==
  UNION {approvers[r.to] : r \in {x \in refs : x.to \in Tasks}} \ {Nobody}
CascadeToAll(b, refs) == ApproversOf(refs)
CascadeTo(b, refs) == ApproversOf(refs) \ {From[b]}

-----------------------------------------------------------------------------
(* The trust ledger: get_trust, is_relay_allowed, record_strike.             *)

Fresh == [state |-> "trusted", strikes |-> 0]

AlwaysAllowed(i) == TRUE
IsRelayAllowed(i) == trust[i].state = "trusted"

\* A fabrication strike revokes for good.
Strike(I) ==
  trust' = [i \in Identities |-> IF i \in I
              THEN [state |-> "revoked", strikes |-> trust[i].strikes + 1]
              ELSE trust[i]]

-----------------------------------------------------------------------------
Init ==
  /\ status = [t \in Tasks |-> "absent"]
  /\ approvers = [t \in Tasks |-> {}]
  /\ trust = [i \in Identities |-> Fresh]
  /\ claim = [c \in Slots |-> "none"]
  /\ pc = [b \in Batches |-> "new"]
  /\ at = [b \in Batches |-> 1]
  /\ sendable = [b \in Batches |-> <<>>]
  /\ fabricated = [b \in Batches |-> FALSE]
  /\ verdict = [b \in Batches |-> "none"]
  /\ digest = <<>> /\ inHand = <<>> /\ human = {} /\ alarmed = {}
  /\ crashes = 0
  /\ been = [t \in Tasks |-> {"absent"}]
  /\ wasTrue = {}

Goto(b, l) == pc' = [pc EXCEPT ![b] = l]

\* The request arrives; relay_claims asks the ledger first.  A ledger that cannot be
\* reached and an identity that may not relay both end it.
Submit(b, reachable) ==
  /\ pc[b] = "new"
  /\ Goto(b, IF reachable /\ IsRelayAllowed(From[b]) THEN "record" ELSE "refused")
  /\ wasTrue' = wasTrue \cup
       {c \in Slots : /\ c[1] = b
                      /\ ~Says[b][c[2]].judgment
                      /\ VerdictWith(Says[b][c[2]].refs, {}) = "verified"}
  /\ UNCHANGED <<db, at, sendable, fabricated, verdict, channel, crashes, been>>

More(b) == at[b] \in DOMAIN Says[b]

\* record_claim_from: provenance first.  A judgment passes, labelled; a factual
\* claim goes on to be verified.
Record(b) ==
  /\ pc[b] = "record" /\ More(b)
  /\ claim' = [claim EXCEPT ![Here(b)] = "pending"]
  /\ IF Current(b).judgment
     THEN /\ sendable' = [sendable EXCEPT ![b] = Append(@, [k |-> at[b], label |-> "judgment"])]
          /\ at' = [at EXCEPT ![b] = @ + 1]
          /\ UNCHANGED pc
     ELSE Goto(b, "verify") /\ UNCHANGED <<sendable, at>>
  /\ UNCHANGED <<status, approvers, trust, fabricated, verdict, channel, crashes, been, wasTrue>>

\* The evidence is read now; the verdict is acted on later.
Verify(b, down) ==
  /\ pc[b] = "verify"
  /\ down \subseteq Current(b).refs
  /\ verdict' = [verdict EXCEPT ![b] = VerifyClaim(Current(b).refs, down)]
  /\ Goto(b, "rule")
  /\ UNCHANGED <<db, at, sendable, fabricated, channel, crashes, been, wasTrue>>

\* set_claim_verification; an unverifiable claim is withheld, its proof requested.
Rule(b) ==
  /\ pc[b] = "rule"
  /\ claim' = [claim EXCEPT ![Here(b)] = verdict[b]]
  /\ verdict' = [verdict EXCEPT ![b] = "none"]
  /\ CASE verdict[b] = "verified" ->
            /\ sendable' = [sendable EXCEPT ![b] = Append(@, [k |-> at[b], label |-> "fact"])]
            /\ at' = [at EXCEPT ![b] = @ + 1]
            /\ Goto(b, "record") /\ UNCHANGED fabricated
       [] verdict[b] = "unverifiable" ->
            /\ at' = [at EXCEPT ![b] = @ + 1]
            /\ Goto(b, "record") /\ UNCHANGED <<sendable, fabricated>>
       [] OTHER ->
            /\ fabricated' = [fabricated EXCEPT ![b] = TRUE]
            /\ Goto(b, "strike") /\ UNCHANGED <<sendable, at>>
  /\ UNCHANGED <<status, approvers, trust, channel, crashes, been, wasTrue>>

\* record_strike on the originator.
StrikeOriginator(b) ==
  /\ pc[b] = "strike"
  /\ Strike({From[b]})
  /\ Goto(b, "cascade")
  /\ UNCHANGED <<status, approvers, claim, at, sendable, fabricated, verdict, channel,
                 crashes, been, wasTrue>>

\* The cascade reads the approval hops recorded by now.
Cascade(b) ==
  /\ pc[b] = "cascade"
  /\ Strike(CascadeTo(b, Current(b).refs))
  /\ at' = [at EXCEPT ![b] = @ + 1]
  /\ Goto(b, "record")
  /\ UNCHANGED <<status, approvers, claim, sendable, fabricated, verdict, channel, crashes,
                 been, wasTrue>>

\* The send decision: one fabrication withholds the whole batch and raises the alarm.
WithholdIfLast(b) == fabricated[b] /\ claim[<<b, Len(Says[b])>>] = "rejected"
Withhold(b) == fabricated[b]

EscalateAndSend(b) ==
  /\ pc[b] = "record" /\ ~More(b) /\ Withhold(b)
  /\ alarmed' = alarmed \cup {b}
  /\ digest' = IF sendable[b] = <<>> THEN digest ELSE Append(digest, b)
  /\ Goto(b, "done")
  /\ UNCHANGED <<db, at, sendable, fabricated, verdict, inHand, human, crashes, been, wasTrue>>

Escalate(b) ==
  /\ pc[b] = "record" /\ ~More(b) /\ Withhold(b)
  /\ alarmed' = alarmed \cup {b}
  /\ Goto(b, "done")
  /\ UNCHANGED <<db, at, sendable, fabricated, verdict, digest, inHand, human, crashes, been,
                 wasTrue>>

Send(b) ==
  /\ pc[b] = "record" /\ ~More(b) /\ ~Withhold(b)
  /\ Goto(b, "done")
  /\ CASE sendable[b] = <<>> -> UNCHANGED <<digest, human>>
       [] Kind[b] = "alarm" -> human' = human \cup {b} /\ UNCHANGED digest
       [] OTHER -> digest' = Append(digest, b) /\ UNCHANGED human
  /\ UNCHANGED <<db, at, sendable, fabricated, verdict, inHand, alarmed, crashes, been, wasTrue>>

\* The channel refuses an immediate send: the request fails.
SendFails(b) ==
  /\ pc[b] = "record" /\ ~More(b)
  /\ Withhold(b) \/ (Kind[b] = "alarm" /\ sendable[b] # <<>>)
  /\ Goto(b, "failed")
  /\ UNCHANGED <<db, at, sendable, fabricated, verdict, channel, crashes, been, wasTrue>>

-----------------------------------------------------------------------------
(* Notifier.flush clears the digest under its lock and sends it after.       *)

FlushTakes ==
  /\ digest # <<>> /\ inHand = <<>>
  /\ inHand' = digest /\ digest' = <<>>
  /\ UNCHANGED <<db, thread, human, alarmed, crashes, been, wasTrue>>

FlushSends ==
  /\ inHand # <<>>
  /\ human' = human \cup ToSet(inHand) /\ inHand' = <<>>
  /\ UNCHANGED <<db, thread, digest, alarmed, crashes, been, wasTrue>>

FlushFails ==
  /\ inHand # <<>>
  /\ inHand' = <<>>
  /\ UNCHANGED <<db, thread, digest, human, alarmed, crashes, been, wasTrue>>

\* The Spokesman restarts: its threads and its digest were memory.
Restart ==
  /\ crashes < MaxCrashes
  /\ crashes' = crashes + 1
  /\ LET Dies(b) == pc[b] \in Working
         After(f, x) == [b \in Batches |-> IF Dies(b) THEN x ELSE f[b]]
     IN /\ pc' = After(pc, "dead")
        /\ at' = After(at, 1)
        /\ sendable' = After(sendable, <<>>)
        /\ fabricated' = After(fabricated, FALSE)
        /\ verdict' = After(verdict, "none")
  /\ digest' = <<>> /\ inHand' = <<>>
  /\ UNCHANGED <<db, human, alarmed, been, wasTrue>>

-----------------------------------------------------------------------------
(* The studio moves the rows that claims cite.                               *)

Move(t, from, to) ==
  /\ status[t] = from
  /\ status' = [status EXCEPT ![t] = to]
  /\ been' = [been EXCEPT ![t] = @ \cup {to}]
  /\ UNCHANGED <<trust, claim, thread, channel, crashes, wasTrue>>

Deliver(t) == Move(t, "absent", "ready_for_review") /\ UNCHANGED approvers
Approve(t, who) ==
  /\ Move(t, "ready_for_review", "approved")
  /\ approvers' = [approvers EXCEPT ![t] = @ \cup {who}]
Merge(t) == Move(t, "approved", "merged") /\ UNCHANGED approvers

Handle(b) ==
  \/ \E reachable \in BOOLEAN : Submit(b, reachable)
  \/ Record(b)
  \/ pc[b] = "verify" /\ \E down \in SUBSET Current(b).refs : Verify(b, down)
  \/ Rule(b) \/ StrikeOriginator(b) \/ Cascade(b)
  \/ Escalate(b) \/ Send(b) \/ SendFails(b)

Next ==
  \/ \E b \in Batches : Handle(b)
  \/ FlushTakes \/ FlushSends \/ FlushFails \/ Restart
  \/ \E t \in Tasks : \/ Deliver(t) \/ Merge(t)
                      \/ \E who \in Identities \cup {Nobody} : Approve(t, who)

Spec == Init /\ [][Next]_vars

\* A request's thread runs until it ends.
FairSpec == Spec /\ \A b \in Batches : WF_vars(Handle(b))

-----------------------------------------------------------------------------
(* Properties                                                                *)

TypeOK ==
  /\ status \in [Tasks -> Statuses]
  /\ approvers \in [Tasks -> SUBSET (Identities \cup {Nobody})]
  /\ trust \in [Identities -> [state : {"trusted", "revoked"}, strikes : Nat]]
  /\ claim \in [Slots -> {"none", "pending"} \cup Verdicts]
  /\ pc \in [Batches -> Working \cup {"new", "done", "refused", "failed", "dead"}]
  /\ at \in [Batches -> Nat \ {0}]
  /\ fabricated \in [Batches -> BOOLEAN]
  /\ verdict \in [Batches -> {"none"} \cup Verdicts]
  /\ human \subseteq Batches /\ alarmed \subseteq Batches
  /\ crashes \in 0..MaxCrashes

\* What a batch's text says, wherever it is on its way to the human.
OnItsWay == ToSet(digest) \cup ToSet(inHand) \cup human

\* Every fact on its way to the human rests on evidence all of which could be read as an
\* assertion and agreed with the row at some time; every judgment is labelled one
\* (relay_claims' doctrine: nothing unverified is dressed up as fact).
FactsHeld ==
  \A b \in OnItsWay : \A s \in ToSet(sendable[b]) :
    LET said == Says[b][s.k] IN
    IF s.label = "judgment" THEN said.judgment
    ELSE /\ ~said.judgment /\ said.refs # {}
         /\ \A r \in said.refs :
              /\ r.to # Artifact
              /\ \A f \in r.fields :
                   /\ f.readable
                   /\ IF r.to = Metric
                      THEN f.want <= Cardinality({c \in Slots : claim[c] # "none"})
                      ELSE f.want \in been[r.to]

\* One contradicted claim withholds its whole batch, whatever the other claims were and
\* wherever in the batch it stood (relay_claims, "Send decision").
FabricationWithheld ==
  \A c \in Slots : claim[c] = "rejected" => c[1] \notin OnItsWay

\* A well-formed assertion of claim c disagreed with a status the row has had (or with
\* the count, which every claim moves).
Disagreed(c) ==
  \E r \in {x \in Says[c[1]][c[2]].refs : x.to # Artifact} : \E f \in r.fields :
    f.readable /\ (r.to = Metric \/ been[r.to] \ {f.want} # {})

\* The claims that implicate identity i: contradicted, and said by i or citing a task i
\* approved.
Implicating(i) ==
  {c \in Slots :
     /\ claim[c] = "rejected" /\ Disagreed(c)
     /\ \/ From[c[1]] = i
        \/ \E r \in Says[c[1]][c[2]].refs : r.to \in Tasks /\ i \in approvers[r.to]}

\* An identity is struck at most once for a claim, and only for a contradicted one it
\* made or whose task it approved: evidence that is missing, unreadable or ill-formed
\* costs nobody the right to speak (cascade_strike_to_approvers excludes the originator;
\* the module docstring's "ill-formed expected is NOT fabrication").
StruckForCause == \A i \in Identities : trust[i].strikes <= Cardinality(Implicating(i))

\* Text of identity i that may still reach the human: past the permission check, waiting
\* in the digest, or in a flush's hand.
Cleared(i) ==
  {b \in Batches : /\ From[b] = i
                   /\ \/ pc[b] \in Working
                      \/ b \in ToSet(digest) \cup ToSet(inHand)}

\* Once an identity is revoked nothing of it sets out for the human any more, and it is
\* never trusted again: what was already past the check is all that can still arrive
\* (is_relay_allowed, record_strike).
NoNewVoice ==
  [][\A i \in Identities : trust[i].state = "revoked" =>
        Cleared(i)' \subseteq Cleared(i) /\ trust'[i].state = "revoked"]_vars

\* A fabrication is escalated to the human, unless the send fails or the Spokesman
\* dies first (relay_claims, the alarm after the loop).
FabricationEscalated ==
  \A b \in Batches : fabricated[b] ~> (b \in alarmed \/ pc[b] \in {"failed", "dead"})

\* Not so: an identity that only ever said what was true when it said it keeps its voice.
HonestKeepsVoice ==
  \A i \in Identities : trust[i].state = "revoked" =>
    \/ \E c \in Slots \ wasTrue : claim[c] = "rejected" /\ From[c[1]] = i
    \/ \E t \in Tasks : i \in approvers[t]

=============================================================================
