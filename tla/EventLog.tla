------------------------------ MODULE EventLog ------------------------------
(***************************************************************************)
(* The event log of runtime/events.py as a consumer with a cursor sees it. *)
(* An INSERT draws its sequence number at once, but the row can be read    *)
(* only after its transaction commits: numbers become visible out of       *)
(* order, and one that is rolled back stays a hole.  The rows kept here    *)
(* are those of one type; other events only use numbers up.                *)
(***************************************************************************)
EXTENDS Naturals, FiniteSets

CONSTANTS
  Subjects,  \* what an event can be about
  Lookback,  \* how far behind its cursor a consumer reads again
  Limit,     \* rows per read
  MaxSeq     \* bound: numbers drawn

VARIABLES
  drawn,     \* the last number drawn
  open,      \* events of transactions in flight
  log        \* committed events

Events == [seq : 1..MaxSeq, of : Subjects]

LogType == drawn \in 0..MaxSeq /\ open \subseteq Events /\ log \subseteq Events
LogInit == drawn = 0 /\ open = {} /\ log = {}

\* The module's own reading of "bounded": a transaction commits before Lookback
\* further numbers are drawn.
Draw ==
  /\ drawn < MaxSeq
  /\ \A e \in open : drawn + 1 < e.seq + Lookback
  /\ drawn' = drawn + 1

\* append_event, inside a transaction that is still running.
AppendEvent(s) ==
  /\ Draw
  /\ open' = open \cup {[seq |-> drawn + 1, of |-> s]}
  /\ UNCHANGED log

\* An event of another type.
AppendOther == Draw /\ UNCHANGED <<open, log>>

Commit(e) ==
  /\ e \in open
  /\ open' = open \ {e}
  /\ log' = log \cup {e}
  /\ UNCHANGED drawn

Rollback(e) ==
  /\ e \in open
  /\ open' = open \ {e}
  /\ UNCHANGED <<drawn, log>>

\* The rows with seq > max(0, since - lookback), the oldest Limit of them.
WindowPlain(since) == {e \in log : e.seq > since}
Window(since) == {e \in log : e.seq + Lookback > since}
ReadEvents(since) ==
  {e \in Window(since) : Cardinality({f \in Window(since) : f.seq < e.seq}) < Limit}

=============================================================================
