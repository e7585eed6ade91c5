----------------------------- MODULE UnitOfWork -----------------------------
(***************************************************************************)
(* One database session and the helpers every use case runs its            *)
(* transactions with (platform/database/transactions.py,                   *)
(* shared/application/events.py): aggregates are tracked as they are       *)
(* loaded, their events are dispatched before the commit until none is     *)
(* left, and a session used again first forgets what it loaded.            *)
(*                                                                         *)
(* A row is the number of its changes.  Events are numbered as they are    *)
(* raised.  The database is read committed, and a session keeps the object *)
(* of a row it has loaded (expire_on_commit=False) until a rollback        *)
(* expires it.                                                             *)
(***************************************************************************)
EXTENDS Integers, Sequences, FiniteSets, SequencesExt

CONSTANTS
  Rows,         \* rows that are aggregate roots
  MaxVersion,   \* bound of a row's changes
  MaxEvents     \* bound of the events raised

ASSUME UnitOfWorkAssumption == MaxVersion \in Nat /\ MaxEvents \in Nat

VARIABLES
  rows,       \* the committed version of each row
  phase,      \* what the session is doing
  loaded,     \* identity map: version of each loaded object, -1 for none
  tracked,    \* tracked roots
  written,    \* rows changed in this transaction
  pending,    \* events of each root
  recorded,   \* events recorded without a root
  queue,      \* events taken and not yet handled
  raisedNow,  \* history: the events raised in this transaction
  handled,    \* history: the events handled in this transaction, in order
  events,     \* events raised so far
  began,      \* history: the committed rows when this transaction began
  commits     \* transactions committed, modulo two

unitVars == <<rows, phase, loaded, tracked, written, pending, recorded, queue,
          raisedNow, handled, events, began, commits>>

UnitInit ==
  /\ rows = [r \in Rows |-> 0]
  /\ phase = "none"
  /\ loaded = [r \in Rows |-> -1]
  /\ tracked = {}
  /\ written = {}
  /\ pending = [r \in Rows |-> <<>>]
  /\ recorded = <<>>
  /\ queue = <<>>
  /\ raisedNow = {}
  /\ handled = <<>>
  /\ events = 0
  /\ began = rows
  /\ commits = 0

-----------------------------------------------------------------------------
(* Opening a transaction *)

\* Mutant of Forget: the tracked roots go, the loaded objects stay.
ForgetRoots == loaded' = loaded /\ tracked' = {}

\* reset_session of a worker, or the new session of a request
Forget == loaded' = [r \in Rows |-> -1] /\ tracked' = {}

\* unit_of_work and read_snapshot: never inside another transaction; a use case that
\* opens another one resets the session first.
Begin(mode) ==
  /\ phase = "none"
  /\ phase' = mode
  /\ Forget
  /\ written' = {} /\ raisedNow' = {} /\ handled' = <<>> /\ began' = rows
  /\ UNCHANGED <<rows, pending, recorded, queue, events, commits>>

-----------------------------------------------------------------------------
(* What the use case does in it *)

InTransaction == phase \in {"read", "body", "dispatch"}

\* A query for a row: a loaded object is not overwritten (_track_root).
Load(r) ==
  /\ InTransaction
  /\ loaded' = [loaded EXCEPT ![r] = IF @ = -1 THEN rows[r] ELSE @]
  /\ tracked' = tracked \union {r}
  /\ UNCHANGED <<rows, phase, written, pending, recorded, queue, raisedNow, handled,
                 events, began, commits>>

\* A root changes and raises an event, in the use case or in a handler.
Change(r) ==
  /\ phase \in {"body", "dispatch"} /\ loaded[r] # -1 /\ r \in tracked
  /\ rows[r] < MaxVersion /\ events < MaxEvents
  /\ written' = written \union {r}
  /\ events' = events + 1
  /\ pending' = [pending EXCEPT ![r] = Append(@, events + 1)]
  /\ raisedNow' = raisedNow \union {events + 1}
  /\ UNCHANGED <<rows, phase, loaded, tracked, recorded, queue, handled, began, commits>>

\* record_event, by the use case or by a handler
RecordEvent ==
  /\ phase \in {"body", "dispatch"} /\ events < MaxEvents
  /\ events' = events + 1
  /\ recorded' = Append(recorded, events + 1)
  /\ raisedNow' = raisedNow \union {events + 1}
  /\ UNCHANGED <<rows, phase, loaded, tracked, written, pending, queue, handled, began, commits>>

\* Another session commits a change of a row that this one has not changed.
Elsewhere(r) ==
  /\ r \notin written /\ rows[r] < MaxVersion
  /\ rows' = [rows EXCEPT ![r] = @ + 1]
  /\ UNCHANGED <<phase, loaded, tracked, written, pending, recorded, queue, raisedNow,
                 handled, events, began, commits>>

-----------------------------------------------------------------------------
(* Dispatching and ending *)

Pending == \/ recorded # <<>> \/ \E r \in tracked : pending[r] # <<>>

\* _take_events: of the tracked roots, then the recorded ones
Taken == FlattenSeq([i \in 1..Cardinality(tracked) |-> pending[SetToSeq(tracked)[i]]]) \o recorded

\* The body is left: from here on events are dispatched.
EndBody ==
  /\ phase = "body"
  /\ phase' = "dispatch"
  /\ UNCHANGED <<rows, loaded, tracked, written, pending, recorded, queue, raisedNow, handled,
                 events, began, commits>>

\* _dispatch_until_empty: flush, and take the events there are.
Take ==
  /\ phase = "dispatch" /\ queue = <<>> /\ Pending
  /\ queue' = Taken
  /\ pending' = [r \in Rows |-> IF r \in tracked THEN <<>> ELSE pending[r]]
  /\ recorded' = <<>>
  /\ UNCHANGED <<rows, phase, loaded, tracked, written, raisedNow, handled, events, began, commits>>

\* dispatch: the handlers of one event, in the same session and transaction
Handle ==
  /\ phase = "dispatch" /\ queue # <<>>
  /\ handled' = Append(handled, Head(queue))
  /\ queue' = Tail(queue)
  /\ UNCHANGED <<rows, phase, loaded, tracked, written, pending, recorded, raisedNow, events,
                 began, commits>>

\* No event is left.
Emptied == queue = <<>> /\ ~Pending

CommitUnit ==
  /\ phase = "dispatch" /\ Emptied
  /\ phase' = "none"
  /\ rows' = [r \in Rows |-> IF r \in written THEN rows[r] + 1 ELSE rows[r]]
  /\ loaded' = [r \in Rows |-> IF r \in written THEN rows[r] + 1 ELSE loaded[r]]
  /\ written' = {}
  /\ commits' = (commits + 1) % 2
  /\ UNCHANGED <<tracked, pending, recorded, queue, raisedNow, handled, events, began>>

\* Mutant of Discarded: only the roots forget their events.
DiscardedOfRoots ==
  /\ pending' = [r \in Rows |-> IF r \in tracked THEN <<>> ELSE pending[r]]
  /\ recorded' = recorded

\* _discard_events
Discarded ==
  /\ pending' = [r \in Rows |-> IF r \in tracked THEN <<>> ELSE pending[r]]
  /\ recorded' = <<>>

\* An exception of the use case, of a handler or of the database: everything is rolled
\* back, the loaded objects expire, and the events are dropped.
RollBack ==
  /\ phase \in {"body", "dispatch"}
  /\ phase' = "none"
  /\ Discarded
  /\ queue' = <<>> /\ written' = {}
  /\ loaded' = [r \in Rows |-> -1]
  /\ UNCHANGED <<rows, tracked, raisedNow, handled, events, began, commits>>

\* read_snapshot ends: nothing was written, and no event is dispatched.
EndRead ==
  /\ phase = "read"
  /\ phase' = "none"
  /\ Discarded
  /\ UNCHANGED <<rows, loaded, tracked, written, queue, raisedNow, handled, events, began, commits>>

UnitNext ==
  \/ \E mode \in {"read", "body"} : Begin(mode)
  \/ \E r \in Rows : Load(r) \/ Change(r) \/ Elsewhere(r)
  \/ RecordEvent \/ EndBody \/ Take \/ Handle \/ CommitUnit \/ RollBack \/ EndRead

UnitSpec == UnitInit /\ [][UnitNext]_unitVars

-----------------------------------------------------------------------------
(* Properties *)

\* The shape of the state.
UnitTypeOK ==
  /\ rows \in [Rows -> 0..MaxVersion] /\ began \in [Rows -> 0..MaxVersion]
  /\ phase \in {"none", "read", "body", "dispatch"}
  /\ loaded \in [Rows -> -1..MaxVersion]
  /\ tracked \subseteq Rows /\ written \subseteq Rows
  /\ pending \in [Rows -> Seq(1..MaxEvents)]
  /\ recorded \in Seq(1..MaxEvents) /\ queue \in Seq(1..MaxEvents)
  /\ raisedNow \subseteq 1..MaxEvents /\ handled \in Seq(1..MaxEvents)
  /\ events \in 0..MaxEvents /\ commits \in 0..1

\* What commits has had each of its events handled, once, those the handlers raised
\* included, and no event of a transaction that was rolled back (ADR 0012).
EventsHandledBeforeCommit ==
  [][commits' # commits =>
       ToSet(handled) = raisedNow /\ Len(handled) = Cardinality(raisedNow)]_unitVars

\* A transaction never works on a row as an earlier transaction of the session left or
\* saw it (reset_session).
FreshReads == InTransaction => \A r \in Rows : loaded[r] = -1 \/ loaded[r] >= began[r]
=============================================================================
