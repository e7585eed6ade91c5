--------------------------- MODULE FocusSessions ---------------------------
(***************************************************************************)
(* Focus sessions and the activity records that link to them: requests     *)
(* that start and complete sessions, single records and batches run as     *)
(* concurrent transactions, and the session's row lock is what keeps its   *)
(* end and its records consistent (observation/application/                *)
(* focus_sessions.py, activities.py, batches.py).                          *)
(*                                                                         *)
(* A record stands for its event id and content.  Uncommitted inserts and  *)
(* row locks make others wait; nothing else of an open transaction shows.  *)
(***************************************************************************)
EXTENDS Integers, Sequences, FiniteSets

CONSTANTS
  Sessions,      \* ids the apps draw
  Devices,
  Owner,         \* account of each device
  Labels,        \* labels a completion may name
  ActiveLabels,  \* those the account owns and has not archived
  Calls,         \* requests
  Instants,      \* times of starts, ends and records
  Works,         \* seconds of work of a completion
  Targets,       \* target seconds of a session, 0 for none
  NotYet         \* no such value

VARIABLES
  sessions,  \* focus_sessions, NotYet for an id without a row
  stored,    \* activity records that link to a session
  call       \* each request

focusVars == <<sessions, stored, call>>

Session ==
  [device : Devices, started : Instants, target : Targets,
   ended : Instants \union {NotYet}, work : Works \union {NotYet}, label : Labels \union {NotYet}]

ASSUME FocusAssumption ==
  /\ Instants \subseteq Nat /\ Targets \subseteq Nat /\ Works \subseteq Int
  /\ ActiveLabels \subseteq Labels /\ NotYet \notin Instants /\ NotYet \notin Session
  /\ DOMAIN Owner = Devices

LinkedRecord == [session : Sessions, device : Devices, at : Instants]

Steps == {"sent", "open", "ok", "refused", "failed"}
Accounts == {Owner[d] : d \in Devices}

Starts == [op : {"start"}, step : Steps, session : Sessions, account : Accounts, device : Devices,
           started : Instants, target : Targets]

Completions == [op : {"complete"}, step : Steps, session : Sessions, account : Accounts,
                ended : Instants, work : Works, label : Labels]

\* A batch of records, or RecordActivity's one; `held` are the sessions it has locked.
Stores == [op : {"batch", "record"}, step : Steps, device : Devices,
           todo : Seq(LinkedRecord), new : SUBSET LinkedRecord, held : SUBSET Sessions]

Idle == [op |-> "none", step |-> "idle"]

FocusInit ==
  /\ sessions = [s \in Sessions |-> NotYet]
  /\ stored = {}
  /\ call = [c \in Calls |-> Idle]

Answer(c, step) == call' = [call EXCEPT ![c].step = step]

-----------------------------------------------------------------------------
(* Requests *)

SendStart(c, s, account, d, t, target) ==
  call' = [call EXCEPT ![c] = [op |-> "start", step |-> "sent", session |-> s, account |-> account,
                               device |-> d, started |-> t, target |-> target]]

SendComplete(c, s, account, t, work, label) ==
  call' = [call EXCEPT ![c] = [op |-> "complete", step |-> "sent", session |-> s, account |-> account,
                               ended |-> t, work |-> work, label |-> label]]

SendRecords(c, op, records) ==
  /\ op = "record" => Len(records) = 1
  /\ \A i \in DOMAIN records : records[i].device = records[1].device
  /\ call' = [call EXCEPT ![c] = [op |-> op, step |-> "open", device |-> records[1].device,
                                  todo |-> records, new |-> {}, held |-> {}]]

SendCall(c) ==
  /\ call[c].op = "none"
  /\ \/ \E s \in Sessions, a \in Accounts, d \in Devices, t \in Instants, target \in Targets :
          SendStart(c, s, a, d, t, target)
     \/ \E s \in Sessions, a \in Accounts, t \in Instants, work \in Works, label \in Labels :
          SendComplete(c, s, a, t, work, label)
     \/ \E r \in LinkedRecord : SendRecords(c, "record", <<r>>)
     \/ \E r, q \in LinkedRecord : r # q /\ SendRecords(c, "batch", <<r, q>>)
  /\ UNCHANGED <<sessions, stored>>

\* The open transactions with a lock on a session's row, or an insert of it.
HeldBy(s) ==
  {c \in Calls : call[c].step = "open"
     /\ IF call[c].op \in {"start", "complete"} THEN call[c].session = s ELSE s \in call[c].held}

\* Mutant of Free: the rows are read without FOR UPDATE.
FreeUnlocked(s, c) == TRUE

\* FOR UPDATE waits for every other holder.
Free(s, c) == HeldBy(s) \subseteq {c}

\* find_owned
Owned(s, account) == sessions[s] # NotYet /\ Owner[sessions[s].device] = account

-----------------------------------------------------------------------------
(* StartFocusSession *)

\* A device of another account is not found.  get_or_create: the insert waits for another
\* of the same id, the select for its lock.
OpenStart(c) ==
  /\ call[c].op = "start" /\ call[c].step = "sent"
  /\ IF Owner[call[c].device] = call[c].account
       THEN Free(call[c].session, c) /\ Answer(c, "open")
       ELSE Answer(c, "refused")
  /\ UNCHANGED <<sessions, stored>>

\* has_same_start
SameStart(row, r) ==
  /\ Owner[row.device] = r.account
  /\ <<row.device, row.started, row.target>> = <<r.device, r.started, r.target>>

\* The session is created, or the stored one answers the retry, or conflicts.
FinishStart(c) ==
  LET r == call[c]
      row == sessions[r.session]
  IN /\ r.op = "start" /\ r.step = "open"
     /\ IF row = NotYet
          THEN /\ sessions' = [sessions EXCEPT ![r.session] =
                    [device |-> r.device, started |-> r.started, target |-> r.target,
                     ended |-> NotYet, work |-> NotYet, label |-> NotYet]]
               /\ Answer(c, "ok")
          ELSE /\ Answer(c, IF SameStart(row, r) THEN "ok" ELSE "refused")
               /\ UNCHANGED sessions
     /\ UNCHANGED stored

-----------------------------------------------------------------------------
(* CompleteFocusSession *)

\* find_owned: a row that is not there, or not yet committed, is not waited for.
OpenComplete(c) ==
  /\ call[c].op = "complete" /\ call[c].step = "sent"
  /\ IF Owned(call[c].session, call[c].account)
       THEN Free(call[c].session, c) /\ Answer(c, "open")
       ELSE Answer(c, "refused")
  /\ UNCHANGED <<sessions, stored>>

\* Mutant of SameCompletion: only the end is compared.
SameEnd(row, r) == row.ended = r.ended

\* FocusSession.complete of a completed session
SameCompletion(row, r) == <<row.ended, row.work, row.label>> = <<r.ended, r.work, r.label>>

\* FocusSession.complete of an open one: its end covers its records, and the work fits.
ValidEnd(row, r) ==
  /\ r.work >= 0 /\ r.ended >= row.started
  /\ \A q \in stored : q.session = r.session => q.at <= r.ended
  /\ r.work <= r.ended - row.started
  /\ row.target > 0 => r.work <= row.target

FinishComplete(c) ==
  LET r == call[c]
      row == sessions[r.session]
  IN /\ r.op = "complete" /\ r.step = "open"
     /\ IF row.ended # NotYet
          THEN /\ Answer(c, IF SameCompletion(row, r) THEN "ok" ELSE "refused")
               /\ UNCHANGED sessions
        ELSE IF r.label \in ActiveLabels /\ ValidEnd(row, r)
          THEN /\ Answer(c, "ok")
               /\ sessions' = [sessions EXCEPT ![r.session] =
                    [@ EXCEPT !.ended = r.ended, !.work = r.work, !.label = r.label]]
        ELSE Answer(c, "refused") /\ UNCHANGED sessions
     /\ UNCHANGED stored

-----------------------------------------------------------------------------
(* RecordActivity and ActivityBatchProcessor *)

\* FocusSession.validate_activity
Fits(r) ==
  LET row == sessions[r.session]
  IN /\ Owned(r.session, Owner[r.device]) /\ row.device = r.device
     /\ r.at >= row.started /\ (row.ended = NotYet \/ r.at <= row.ended)

\* The next record: a batch skips a stored one, and FocusSessionLinks.validate locks the
\* session of any other and checks the record; a refused one refuses the whole batch.
TakeRecord(c) ==
  LET r == call[c]
      next == Head(r.todo)
  IN /\ r.op \in {"batch", "record"} /\ r.step = "open" /\ r.todo # <<>>
     /\ IF r.op = "batch" /\ next \in stored
          THEN call' = [call EXCEPT ![c].todo = Tail(r.todo)]
        ELSE IF ~Owned(next.session, Owner[next.device])
          THEN Answer(c, "refused")
        ELSE /\ Free(next.session, c)
             /\ IF Fits(next)
                  THEN call' = [call EXCEPT ![c].todo = Tail(r.todo), ![c].new = @ \union {next},
                                            ![c].held = @ \union {next.session}]
                  ELSE Answer(c, "refused")
     /\ UNCHANGED <<sessions, stored>>

\* get_or_create, projection and commit
FinishRecords(c) ==
  /\ call[c].op \in {"batch", "record"} /\ call[c].step = "open" /\ call[c].todo = <<>>
  /\ stored' = stored \union call[c].new
  /\ Answer(c, "ok")
  /\ UNCHANGED sessions

\* A lost connection, a crash, or a deadlock of two batches that the database ends.
FailCall(c) ==
  /\ call[c].step \in {"sent", "open"}
  /\ Answer(c, "failed")
  /\ UNCHANGED <<sessions, stored>>

FocusNext ==
  \E c \in Calls :
    \/ SendCall(c) \/ OpenStart(c) \/ FinishStart(c) \/ OpenComplete(c) \/ FinishComplete(c)
    \/ TakeRecord(c) \/ FinishRecords(c) \/ FailCall(c)

FocusSpec == FocusInit /\ [][FocusNext]_focusVars

-----------------------------------------------------------------------------
(* Properties *)

\* The shape of the state.
FocusTypeOK ==
  /\ sessions \in [Sessions -> Session \union {NotYet}]
  /\ stored \subseteq LinkedRecord
  /\ call \in [Calls -> Starts \union Completions \union Stores \union {Idle}]

\* A stored record lies within the session it links to, on its device: a completion and
\* a record that race never leave an end before a record, so a repeated record is never
\* refused for its session (FocusSessionLinks, CompleteFocusSession).
SessionCoversRecords == \A r \in stored : Fits(r)

\* Whoever was told that a session started or ended as asked finds it so, for ever, and
\* whoever asked for something else was refused (StartFocusSession, FocusSession.complete).
AnswersStand ==
  \A c \in Calls :
    /\ call[c].op = "start" /\ call[c].step = "ok" =>
         LET row == sessions[call[c].session]
         IN /\ row.device = call[c].device /\ row.started = call[c].started
            /\ row.target = call[c].target
    /\ call[c].op = "complete" /\ call[c].step = "ok" =>
         LET row == sessions[call[c].session]
         IN /\ row.ended = call[c].ended /\ row.work = call[c].work
            /\ row.label = call[c].label
=============================================================================
