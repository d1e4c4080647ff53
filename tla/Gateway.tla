------------------------------ MODULE Gateway ------------------------------
(***************************************************************************)
(* The remote task gateway (gateway/app.py over gateway/auth.py) next to   *)
(* the fleet on the host: remotes enqueue, claim and complete tasks of the *)
(* board the workers of Fleet live on.                                     *)
(*                                                                         *)
(* Every request is a thread of the gateway.  Its credential is judged     *)
(* against a configuration that never changes, so the judgement is part of *)
(* the handler's first transaction; complete looks at the holder in one    *)
(* transaction and finalizes in another.  What a remote does between two   *)
(* requests, or with an answer it never gets, is its own business: it may  *)
(* send any request at any time.  A request the rate limiter refuses, a    *)
(* listing and a heartbeat change nothing modelled here (Fleet re-kicks a  *)
(* task nobody on the host works on at any time).                          *)
(***************************************************************************)
EXTENDS Fleet

CONSTANTS
  Tokens,         \* configured credentials
  Identity,       \* Identity[t]: who holds t; claimed_by of what it claims
  Scopes,         \* Scopes[t]: what t may do
  Pins,           \* Pins[t]: the workstreams t is pinned to; {} for any
  Workstreams, Home,
                  \* workstreams, and the one of the tasks of Fleet
  NoWorkstream,
  Nobody,         \* no remote: unclaimed, or claimed by a worker of the host
  RemoteTypes,    \* the types of tasks remotes enqueue
  Slots           \* bound: completions in progress

Identities == {Identity[t] : t \in Tokens}
AllScopes == {"read", "enqueue", "claim", "complete"}
Pools == {"any", "host", "offhost"}     \* models.Assignee, or none

ASSUME GatewayAssumption ==
  /\ Scopes \in [Tokens -> SUBSET AllScopes]
  /\ Pins \in [Tokens -> SUBSET Workstreams]
  /\ Home \in Workstreams /\ NoWorkstream \notin Workstreams
  /\ Nobody \notin Identities
  /\ RemoteTypes \subseteq Types

VARIABLES
  row,       \* row[i]: the columns of task i that Fleet leaves out
  inHand,    \* inHand[s]: the completion of slot s that found its task held
  revoked,   \* identities the trust ledger fences
  had        \* history: had[i]: the remotes that were ever handed task i

gateVars == <<row, inHand, revoked, had>>
gatewayVars == <<vars, gateVars>>

Row(ws, pool) == [workstream |-> ws, assignee |-> pool,
                  claimedBy |-> Nobody, completedBy |-> Nobody]
Free == [task |-> 0, outcome |-> "none", by |-> Nobody]

GatewayTypeOK ==
  /\ TypeOK
  /\ Len(row) = Len(jobs) /\ Len(had) = Len(jobs)
  /\ \A i \in Ids :
       /\ row[i] \in [workstream : Workstreams, assignee : Pools,
                      claimedBy : Identities \cup {Nobody},
                      completedBy : Identities \cup {Nobody}]
       /\ had[i] \subseteq Identities
  /\ \A s \in Slots : inHand[s].task \in Ids \cup {0}
  /\ revoked \subseteq Identities

GatewayInit ==
  /\ Init
  /\ row = [i \in Ids |-> Row(Home, "any")]
  /\ had = [i \in Ids |-> {}]
  /\ inHand = [s \in Slots |-> Free]
  /\ revoked = {}

-----------------------------------------------------------------------------
(* auth.py *)

\* default_workstream, and what authorize resolves a request's workstream to.
DefaultWorkstream(t) ==
  IF Cardinality(Pins[t]) = 1 THEN CHOOSE ws \in Pins[t] : TRUE ELSE NoWorkstream
Resolve(t, ws) == IF ws # NoWorkstream THEN ws ELSE DefaultWorkstream(t)
AllowsWorkstream(t, ws) == Pins[t] = {} \/ ws \in Pins[t]
Authorize(t, scope, ws) == scope \in Scopes[t] /\ AllowsWorkstream(t, Resolve(t, ws))

-----------------------------------------------------------------------------
(* app.py *)

\* POST /v1/tasks: the workstream must be known.  Prerequisites are TaskQueue's subject.
Post(t, ws, type, pool) ==
  /\ Authorize(t, "enqueue", ws) /\ Resolve(t, ws) # NoWorkstream
  /\ Spend("requests")
  /\ Enqueue(Job(type, 0, "none"))
  /\ row' = Append(row, Row(Resolve(t, ws), pool))
  /\ had' = Append(had, {})
  /\ UNCHANGED <<ended, disk, pass, headroom, clock, again, inHand, revoked>>

\* ClaimRequest never leaves the assignee open, which would be every pool, the host's too.
FromPool(i) == row[i].assignee \in {"any", "offhost"}
Grabbable(i, ws) ==
  /\ jobs[i].status = "up_for_grabs" /\ FromPool(i)
  /\ ws # NoWorkstream => row[i].workstream = ws
\* POST /v1/tasks/claim: claim_task for the identity; the grab is refused to a revoked one.
\* Which of the grabbable tasks is the queue's choice.
Claim(t, ws, i) ==
  /\ Authorize(t, "claim", ws) /\ Grabbable(i, Resolve(t, ws))
  /\ Identity[t] \notin revoked /\ Spend("requests")
  /\ jobs' = [jobs EXCEPT ![i].status = "in_progress"]
  /\ row' = [row EXCEPT ![i].claimedBy = Identity[t]]
  /\ had' = [had EXCEPT ![i] = @ \cup {Identity[t]}]
  /\ UNCHANGED <<trail, ended, disk, pass, headroom, clock, again, inHand, revoked>>

\* _held_task: the task is within the token's pins and claimed by its identity.
VisibleTask(t, i) == AllowsWorkstream(t, row[i].workstream)
HeldTask(t, i) ==
  AllowsWorkstream(t, row[i].workstream) /\ row[i].claimedBy = Identity[t]
\* POST /v1/tasks/{id}/complete: the look at the holder,
BeginComplete(s, t, i, outcome) ==
  /\ inHand[s] = Free
  /\ Authorize(t, "complete", NoWorkstream) /\ HeldTask(t, i)
  /\ inHand' = [inHand EXCEPT ![s] = [task |-> i, outcome |-> outcome, by |-> Identity[t]]]
  /\ UNCHANGED <<vars, row, revoked, had>>
\* and complete_task, which asks for a task in progress only.
EndComplete(s) ==
  /\ inHand[s] # Free
  /\ LET c == inHand[s] IN
     IF jobs[c.task].status = "in_progress"
     THEN /\ SetStatus(c.task, c.outcome)
          /\ row' = [row EXCEPT ![c.task].completedBy = c.by]
     ELSE UNCHANGED <<jobs, ended, row>>
  /\ inHand' = [inHand EXCEPT ![s] = Free]
  /\ UNCHANGED <<trail, disk, pass, envVars, revoked, had>>
\* The store is gone, or the gateway is restarted, in between.
RequestDies(s) ==
  /\ inHand[s] # Free /\ inHand' = [inHand EXCEPT ![s] = Free]
  /\ UNCHANGED <<vars, row, revoked, had>>

\* A strike of the relay gate (Relay).
Revoke(id) ==
  /\ id \notin revoked /\ revoked' = revoked \cup {id} /\ Spend("requests")
  /\ UNCHANGED <<jobs, trail, ended, disk, pass, headroom, clock, again, row, inHand, had>>

-----------------------------------------------------------------------------
(* The fleet's steps, with the columns they write: no remote holds what a     *)
(* worker grabs or the supervisor puts back, nor a task of the host's making. *)
Inserted == Len(jobs') > Len(jobs)
HostGrab(w, i) ==
  /\ Take(w, i)
  /\ row' = [row EXCEPT ![i].claimedBy = Nobody]
  /\ UNCHANGED had
HostStep(w) ==
  /\ WorkStep(w) \/ RoleStep(w) \/ PassDies(w)
  /\ row' = IF Inserted THEN Append(row, Row(Home, "any")) ELSE row
  /\ had' = IF Inserted THEN Append(had, {}) ELSE had
HostRekick(i) ==
  /\ Rekick(i)
  /\ row' = IF jobs'[i].status = "up_for_grabs" THEN [row EXCEPT ![i].claimedBy = Nobody] ELSE row
  /\ UNCHANGED had
HostTime ==
  /\ Schedule \/ HourPasses
  /\ row' = IF Inserted THEN Append(row, Row(Home, "any")) ELSE row
  /\ had' = IF Inserted THEN Append(had, {}) ELSE had
HostNext ==
  /\ \/ \E w \in Workers : HostStep(w) \/ (\E i \in Ids : HostGrab(w, i))
     \/ \E i \in Ids : HostRekick(i)
     \/ HostTime
  /\ UNCHANGED <<inHand, revoked>>

RemoteNext ==
  \/ \E t \in Tokens, ws \in Workstreams \cup {NoWorkstream} :
       \/ \E type \in RemoteTypes, pool \in Pools : Post(t, ws, type, pool)
       \/ \E i \in Ids : Claim(t, ws, i)
  \/ \E s \in Slots, t \in Tokens, i \in Ids, outcome \in Terminal : BeginComplete(s, t, i, outcome)
  \/ \E s \in Slots : EndComplete(s) \/ RequestDies(s)
  \/ \E id \in Identities : Revoke(id)

GatewayNext == HostNext \/ RemoteNext

GatewaySpec == GatewayInit /\ [][GatewayNext]_gatewayVars
\* The fairness of the host is Fleet's.  Remotes promise nothing but that none beats for ever
\* on a task it does not complete.
GatewayFairSpec == GatewaySpec /\ Fairness

-----------------------------------------------------------------------------
(* Properties *)

\* Whoever a finished task is credited to was handed it, in a workstream of its pins and
\* not out of the host's pool: however old the look at the holder is, no remote is
\* credited with a task it never held (_held_task, ClaimRequest._offhost_only).
CreditWasClaimed ==
  \A i \in Ids : row[i].completedBy # Nobody => row[i].completedBy \in had[i]

\* Remotes stay out of the host's pool and of the workstreams they are not pinned to.
RemotesKeepOut ==
  \A i \in Ids : \A id \in had[i] :
    /\ row[i].assignee # "host"
    /\ \E t \in Tokens : Identity[t] = id /\ AllowsWorkstream(t, row[i].workstream)

-----------------------------------------------------------------------------
(* Not so *)

\* "a remote cannot finish another worker's work" (ADR-0028, gate 6): the holder may have
\* changed since the look at it.
OnlyHolderFinishes ==
  [][\A i \in Ids : row'[i].completedBy # row[i].completedBy
        => row[i].claimedBy = row'[i].completedBy]_gatewayVars

\* "A token pinned to 2+ workstreams (supported by ADR-0028) must still work"
\* (test_a_multi_pinned_token_is_not_locked_out): what it could claim it may complete.
HolderIsHeard ==
  \A i \in Ids, t \in Tokens :
    /\ row[i].claimedBy = Identity[t] /\ jobs[i].status = "in_progress"
    /\ "complete" \in Scopes[t] /\ AllowsWorkstream(t, row[i].workstream)
    => Authorize(t, "complete", NoWorkstream)

=============================================================================
