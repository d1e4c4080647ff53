----------------------------- MODULE Spokesman -----------------------------
(***************************************************************************)
(* The Spokesman between the runtime and the human: the notifier pass that *)
(* turns new events into alarms and digest items behind a persisted cursor *)
(* (spokesman/app.py run_notifier_pass over runtime_bridge.py), the human's *)
(* answers (handle_inbound_command, the resolve_approval tool of           *)
(* converse.py) and the approval-gated handoffs (handoff.py).              *)
(*                                                                         *)
(* The event log is EventLog's: a request of a worker draws its number     *)
(* before its transaction commits.  The poll reads without a lookback.     *)
(* Every handler runs in a thread of its own and is a sequence of          *)
(* transactions; a restart kills the threads and the in-memory digest.     *)
(***************************************************************************)
EXTENDS Integers, FiniteSets

CONSTANTS
  Roles,        \* roles a handoff may name: each is one approval fingerprint
  Calls,        \* fingerprints of tool calls of tasks
  NoAct,        \* the fingerprint of a row that has not been inserted
  Alarm,        \* a review.alarm event
  Noise,        \* an event that notifies nobody
  Polls,        \* threads that may serve POST /poll
  Texts,        \* inbound messages of free text
  Keywords,     \* inbound messages that start with a keyword
  MaxRows,      \* bound: approval rows
  MaxHandoffs,  \* bound: handoff rows
  MaxSeq,       \* bound: events
  InFlight,     \* bound: numbers drawn while a transaction is open
  Rounds,       \* bound: tool calls of one conversation (4 rounds of 5 in the code)
  MaxFaults     \* bound: failed sends, failed steps and restarts

ASSUME SpokesmanAssumption ==
  /\ Alarm \notin Roles \cup Calls /\ Noise \notin Roles \cup Calls \cup {Alarm}
  /\ Roles \cap Calls = {} /\ MaxHandoffs \in Nat /\ Rounds \in Nat /\ MaxFaults \in Nat

VARIABLES
  row, next,          \* approvals
  drawn, open, log,   \* events
  handoff,            \* spokesman_handoffs
  cursor,             \* notify-cursor.txt
  waiting,            \* events waiting in Notifier._pending
  poll,               \* the pass of each /poll thread
  handler,            \* the handler of each message
  faults,
  \* history
  told,               \* events the human received
  late,               \* events that committed after a pass had read past them
  lost,               \* events a fault took out of the digest
  spoke,              \* roles whose tagged messages were relayed
  granted             \* approvals a command of the human approved

Rows == INSTANCE Approvals WITH Acts <- Roles \cup Calls
Log == INSTANCE EventLog WITH Subjects <- Roles \cup Calls \cup {Alarm, Noise},
                              Lookback <- InFlight, Limit <- MaxSeq

store == <<row, next>>
events == <<drawn, open, log>>
bridge == <<cursor, waiting, poll>>
history == <<told, late, lost, spoke, granted>>
bridgeVars == <<store, events, handoff, bridge, handler, faults, history>>

HIds == 1..MaxHandoffs
HandoffStatuses == {"absent", "proposed", "active", "ended"}
Seqs == 1..MaxSeq
Messages == Texts \cup Keywords
NoPass == [at |-> "idle", todo |-> {}, from |-> 0, upto |-> 0]
NoThread == [at |-> "idle", on |-> 0, left |-> 0]

BridgeInit ==
  /\ Rows!StoreInit /\ Log!LogInit
  /\ handoff = [h \in HIds |-> [role |-> NoAct, approval |-> 0, status |-> "absent",
                                fresh |-> TRUE, since |-> 0]]
  /\ cursor = 0 /\ waiting = {}
  /\ poll = [p \in Polls |-> NoPass]
  /\ handler = [m \in Messages |-> NoThread]
  /\ faults = 0
  /\ told = {} /\ late = {} /\ lost = {} /\ spoke = {} /\ granted = {}

Fault == faults < MaxFaults /\ faults' = faults + 1

-----------------------------------------------------------------------------
(* The runtime: what the events are about.                                   *)

\* request_approval of a tool call: the row and its event are one transaction.
AskBegins(a) ==
  /\ ~\E e \in open : e.of = a
  /\ Rows!RowsOf(a, Rows!Reusable) = {}
  /\ Log!AppendEvent(a)
  /\ UNCHANGED <<store, handoff, bridge, handler, faults, history>>

Passed(n) == n <= cursor \/ \E p \in Polls : n <= poll[p].upto
Commits(e) ==
  /\ Log!Commit(e)
  /\ late' = IF Passed(e.seq) THEN late \cup {e.seq} ELSE late
  /\ UNCHANGED <<handoff, bridge, handler, faults, told, lost, spoke, granted>>

AskCommits(e) == e.of \in Calls /\ Rows!InsertPending(e.of) /\ Commits(e)

\* Another event of the runtime.
Emit(s) ==
  /\ Log!AppendEvent(s)
  /\ UNCHANGED <<store, handoff, bridge, handler, faults, history>>
EmitCommits(e) == e.of \in {Alarm, Noise} /\ Commits(e) /\ UNCHANGED store

\* The retried call finds its grant.
Consume(i) ==
  /\ row[i].act \in Calls /\ Rows!Consume(i)
  /\ UNCHANGED <<events, handoff, bridge, handler, faults, history>>

-----------------------------------------------------------------------------
(* run_notifier_pass.                                                        *)

NotifiableCalls(e) == e.of \in Calls \cup {Alarm}
Notifiable(e) == e.of # Noise
LastSeq(E, n) == IF E = {} THEN n ELSE CHOOSE k \in {e.seq : e \in E} : \A e \in E : e.seq <= k

\* poll_notifications: everything past the cursor that can be seen now.
PollReads(p) ==
  /\ poll[p].at = "idle"
  /\ LET new == Log!WindowPlain(cursor) IN
     poll' = [poll EXCEPT ![p] = [at |-> "routing", todo |-> {e \in new : Notifiable(e)},
                                  from |-> cursor, upto |-> LastSeq(new, cursor)]]
  /\ UNCHANGED <<store, events, handoff, cursor, waiting, handler, faults, history>>

Due(p, e) == e \in poll[p].todo /\ \A f \in poll[p].todo : e.seq <= f.seq
\* Notifier.notify: an alarm is sent at once, the rest joins the digest.
Route(p, e) ==
  /\ poll[p].at = "routing" /\ Due(p, e)
  /\ poll' = [poll EXCEPT ![p].todo = @ \ {e}]
  /\ IF e.of = Alarm THEN told' = told \cup {e.seq} /\ UNCHANGED waiting
     ELSE waiting' = waiting \cup {e.seq} /\ UNCHANGED told
  /\ UNCHANGED <<store, events, handoff, cursor, handler, faults, late, lost, spoke, granted>>

\* A send that fails ends the pass; the cursor stays where it was.
RouteFails(p, e) ==
  /\ poll[p].at = "routing" /\ Due(p, e) /\ e.of = Alarm /\ Fault
  /\ poll' = [poll EXCEPT ![p] = NoPass]
  /\ UNCHANGED <<store, events, handoff, cursor, waiting, handler, history>>

\* save_cursor, after the sends.
SaveEarly(p) ==
  /\ poll[p].at = "routing"
  /\ poll[p].upto # poll[p].from
  /\ cursor' = poll[p].upto
  /\ poll' = [poll EXCEPT ![p] = IF poll[p].todo = {} THEN NoPass
                                 ELSE [@ EXCEPT !.from = poll[p].upto]]
  /\ UNCHANGED <<store, events, handoff, waiting, handler, faults, history>>

Save(p) ==
  /\ poll[p].at = "routing" /\ poll[p].todo = {}
  /\ cursor' = poll[p].upto
  /\ poll' = [poll EXCEPT ![p] = NoPass]
  /\ UNCHANGED <<store, events, handoff, waiting, handler, faults, history>>

\* POST /digest/flush clears the digest, then sends it.
Flush ==
  /\ waiting # {}
  /\ told' = told \cup waiting /\ waiting' = {}
  /\ UNCHANGED <<store, events, handoff, cursor, poll, handler, faults, late, lost, spoke, granted>>

DigestFails ==
  /\ waiting # {} /\ Fault
  /\ lost' = lost \cup waiting /\ waiting' = {}
  /\ UNCHANGED <<store, events, handoff, cursor, poll, handler, told, late, spoke, granted>>

-----------------------------------------------------------------------------
(* The human's words.                                                        *)

\* Approvals the human was told of.
Known(i) == \E e \in log : e.seq \in told /\ e.of = row[i].act /\ row[i].status # "absent"

Become(m, t) == handler' = [handler EXCEPT ![m] = t]
Activating(i) == [at |-> "activate", on |-> i, left |-> 0]
Done == [at |-> "done", on |-> 0, left |-> 0]
AfterActivation(m) ==
  [handler[m] EXCEPT !.at = IF handler[m].left > 0 THEN "chat" ELSE "done", !.on = 0]

\* "approve <id>", "approved <id>", "deny <id>": resolve, and for the first of these
\* words the handoff behind the approval, in a transaction of its own.
Command(m, verb, i) ==
  /\ m \in Keywords /\ handler[m].at = "idle" /\ Known(i)
  /\ IF Rows!Undecided(i)
     THEN /\ Rows!ResolveAs(i, IF verb = "deny" THEN "denied" ELSE "approved")
          /\ Become(m, IF verb = "approve" THEN Activating(i) ELSE Done)
          /\ granted' = IF verb = "deny" THEN granted ELSE granted \cup {i}
     ELSE Become(m, Done) /\ UNCHANGED <<store, granted>>
  /\ UNCHANGED <<events, handoff, bridge, faults, told, late, lost, spoke>>

\* activate_handoff_for_approval, guarded to proposed.
Activate(m) ==
  /\ handler[m].at = "activate"
  /\ handoff' = [h \in HIds |->
       IF handoff[h].approval = handler[m].on /\ handoff[h].status = "proposed"
       THEN [handoff[h] EXCEPT !.status = "active",
                               !.since = Cardinality({g \in HIds : handoff[g].since > 0}) + 1]
       ELSE handoff[h]]
  /\ Become(m, AfterActivation(m))
  /\ UNCHANGED <<store, events, bridge, faults, history>>

\* Its exception is logged; the verdict stands.
ActivateFails(m) ==
  /\ handler[m].at = "activate" /\ Fault
  /\ Become(m, AfterActivation(m))
  /\ UNCHANGED <<store, events, handoff, bridge, history>>

\* Free text: the model calls tools, at most Rounds of them, then answers.
Chat(m) ==
  /\ m \in Texts /\ handler[m].at = "idle"
  /\ Become(m, [at |-> "chat", on |-> 0, left |-> Rounds])
  /\ UNCHANGED <<store, events, handoff, bridge, faults, history>>

Tool(m) == handler[m].at = "chat" /\ handler[m].left > 0
Spent(m) == [handler[m] EXCEPT !.left = @ - 1]

\* propose_handoff: request_approval, which joins a pending or an approved row ...
Room ==
  Cardinality({h \in HIds : handoff[h].status # "absent"})
    + Cardinality({m \in Messages : handler[m].at = "insert"}) < MaxHandoffs
Propose(m, r) ==
  /\ Tool(m) /\ Room
  /\ IF Rows!RowsOf(r, Rows!Reusable) = {}
     THEN /\ Rows!InsertPending(r)
          /\ Log!Draw /\ log' = log \cup {[seq |-> drawn + 1, of |-> r]} /\ UNCHANGED open
          /\ Become(m, [Spent(m) EXCEPT !.at = "insert", !.on = next])
     ELSE /\ UNCHANGED <<store, events>>
          /\ \E i \in DOMAIN row :
               /\ Rows!OldestOpen(r, i)
               /\ Become(m, [Spent(m) EXCEPT !.at = "insert", !.on = i])
  /\ UNCHANGED <<handoff, bridge, faults, history>>

\* ... and the handoff row, later.
InsertHandoff(m, h) ==
  /\ handler[m].at = "insert"
  /\ handoff[h].status = "absent" /\ \A g \in HIds : g < h => handoff[g].status # "absent"
  /\ handoff' = [handoff EXCEPT ![h].role = row[handler[m].on].act, ![h].status = "proposed",
                                ![h].approval = handler[m].on]
  /\ Become(m, [handler[m] EXCEPT !.at = "chat", !.on = 0])
  /\ UNCHANGED <<store, events, bridge, faults, history>>

\* end_handoff without an id ends every active one.
EndHandoff(m) ==
  /\ Tool(m)
  /\ handoff' = [h \in HIds |-> IF handoff[h].status = "active"
                                THEN [handoff[h] EXCEPT !.status = "ended"] ELSE handoff[h]]
  /\ Become(m, Spent(m))
  /\ UNCHANGED <<store, events, bridge, faults, history>>

\* resolve_approval without an id: the list joins tasks, so it holds tool calls only.
PendingReal == {i \in DOMAIN row : row[i].act \in Calls /\ row[i].status = "pending"}
PickSole(m) ==
  /\ Tool(m)
  /\ \/ /\ Cardinality(PendingReal) = 1
        /\ Become(m, [Spent(m) EXCEPT !.at = "sole", !.on = CHOOSE i \in PendingReal : TRUE])
     \/ Cardinality(PendingReal) # 1 /\ Become(m, Spent(m))
  /\ UNCHANGED <<store, events, handoff, bridge, faults, history>>

\* With an id the model has seen: from the list, or from its own proposal.
PickListed(m, i) ==
  /\ Tool(m) /\ row[i].status # "absent"
  /\ Become(m, [Spent(m) EXCEPT !.at = "listed", !.on = i])
  /\ UNCHANGED <<store, events, handoff, bridge, faults, history>>

ActivatesOnAny(v) == TRUE
ActivatesOn(v) == v = "approved"

ResolveByTool(m, v) ==
  /\ handler[m].at \in {"sole", "listed"}
  /\ IF Rows!Undecided(handler[m].on)
     THEN /\ Rows!ResolveAs(handler[m].on, v)
          /\ Become(m, IF ActivatesOn(v) THEN [handler[m] EXCEPT !.at = "activate"]
                       ELSE [handler[m] EXCEPT !.at = "chat", !.on = 0])
     ELSE Become(m, [handler[m] EXCEPT !.at = "chat", !.on = 0]) /\ UNCHANGED store
  /\ UNCHANGED <<events, handoff, bridge, faults, history>>

Reply(m) ==
  /\ handler[m].at = "chat"
  /\ Become(m, Done)
  /\ UNCHANGED <<store, events, handoff, bridge, faults, history>>

-----------------------------------------------------------------------------
(* Tagged speech, time and restarts.                                         *)

\* active_handoff: active, not expired, activated last.
IsActive(h) == handoff[h].status = "active" /\ handoff[h].fresh
Speaks(r) == \E h \in HIds : /\ IsActive(h) /\ handoff[h].role = r
                             /\ \A g \in HIds : IsActive(g) => handoff[g].since <= handoff[h].since

\* POST /notify with via_handoff_role.
Relay(r) ==
  /\ Speaks(r) /\ r \notin spoke
  /\ spoke' = spoke \cup {r}
  /\ UNCHANGED <<store, events, handoff, bridge, handler, faults, told, late, lost, granted>>

Expire(h) ==
  /\ handoff[h].status \in {"proposed", "active"} /\ handoff[h].fresh
  /\ handoff' = [handoff EXCEPT ![h].fresh = FALSE]
  /\ UNCHANGED <<store, events, bridge, handler, faults, history>>

\* A message whose handler died is delivered again.
BridgeRestart ==
  /\ Fault
  /\ poll' = [p \in Polls |-> NoPass]
  /\ handler' = [m \in Messages |-> IF handler[m].at = "done" THEN handler[m] ELSE NoThread]
  /\ lost' = lost \cup waiting
  /\ waiting' = {}
  /\ UNCHANGED <<store, events, handoff, cursor, told, late, spoke, granted>>

Pass(p) == PollReads(p) \/ Save(p) \/ \E e \in log : Route(p, e)

BridgeNext ==
  \/ \E a \in Calls : AskBegins(a)
  \/ \E s \in {Alarm, Noise} : Emit(s)
  \/ \E e \in open : AskCommits(e) \/ EmitCommits(e)
  \/ \E i \in DOMAIN row : Consume(i)
  \/ \E p \in Polls : Pass(p) \/ \E e \in log : RouteFails(p, e)
  \/ Flush \/ DigestFails \/ BridgeRestart
  \/ \E m \in Messages :
       \/ \E verb \in {"approve", "approved", "deny"}, i \in DOMAIN row : Command(m, verb, i)
       \/ Activate(m) \/ ActivateFails(m) \/ Chat(m) \/ EndHandoff(m) \/ PickSole(m) \/ Reply(m)
       \/ \E r \in Roles : Propose(m, r)
       \/ \E h \in HIds : InsertHandoff(m, h)
       \/ \E i \in DOMAIN row : PickListed(m, i)
       \/ \E v \in {"approved", "denied"} : ResolveByTool(m, v)
  \/ \E r \in Roles : Relay(r)
  \/ \E h \in HIds : Expire(h)

BridgeSpec == BridgeInit /\ [][BridgeNext]_bridgeVars

\* The scheduler calls /poll and /digest/flush again and again.
BridgeFairSpec == BridgeSpec /\ (\A p \in Polls : WF_bridgeVars(Pass(p))) /\ WF_bridgeVars(Flush)

-----------------------------------------------------------------------------
(* Properties                                                                *)

Ats == {"idle", "done", "activate", "chat", "insert", "sole", "listed"}
BridgeTypeOK ==
  /\ Rows!StoreType /\ Log!LogType
  /\ handoff \in [HIds -> [role : Roles \cup {NoAct}, approval : 0..MaxRows, status : HandoffStatuses,
                            fresh : BOOLEAN, since : 0..MaxHandoffs]]
  /\ cursor \in 0..MaxSeq /\ waiting \subseteq Seqs
  /\ \A p \in Polls : poll[p].at \in {"idle", "routing"}
  /\ handler \in [Messages -> [at : Ats, on : 0..MaxRows, left : 0..Rounds]]
  /\ faults \in 0..MaxFaults
  /\ told \subseteq Seqs /\ late \subseteq Seqs /\ lost \subseteq Seqs /\ spoke \subseteq Roles
  /\ granted \subseteq DOMAIN row

\* Every alarm and request behind the cursor that could be read when the cursor passed
\* it is accounted for: the human has it, the digest holds it, or a fault took it
\* (run_notifier_pass saves the cursor after it has routed the batch).
Accounted ==
  \A e \in log : (e.of # Noise /\ e.seq <= cursor /\ e.seq \notin late)
     => e.seq \in told \cup waiting \cup lost

\* Tagged messages of a role were relayed only on an approved request for that role,
\* whatever proposals, verdicts, activations, expiries and restarts overlapped: nobody
\* speaks on a request that is pending or was denied (activate_handoff_for_approval and
\* active_handoff, handoff.py).  The approval is the human's command or the
\* resolve_approval tool of a conversation, which decides as "spokesman:converse".
SpeechWasApproved ==
  \A r \in spoke : \E i \in DOMAIN row : row[i].act = r /\ row[i].status = "approved"

\* What handoff.py's docstring says instead, "Human must approve a handoff.propose
\* approval before Spokesman relays": a command of the human approved it.  False: the
\* tools of one conversation may propose, approve and activate (converse.py).
SpeechWasHumanGranted ==
  \A r \in spoke : \E i \in granted : row[i].act = r

\* A request or alarm that a pass can see reaches the human, or a fault took it.
AskReachesHuman ==
  \A n \in Seqs :
    (\E e \in log : e.seq = n /\ e.of # Noise /\ n \notin late) ~> n \in told \cup lost

=============================================================================
