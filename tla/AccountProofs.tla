--------------------------- MODULE AccountProofs ----------------------------
(***************************************************************************)
(* Theorems about what one account's requests do to each other: focus      *)
(* sessions for every set of calls, sessions, devices, labels and instants *)
(* (FocusSessions), signing in for every set of attempts, browsers and     *)
(* users and any lifetime of a code (SignIn), and registering devices for  *)
(* every set of requests (Devices).                                        *)
(***************************************************************************)
EXTENDS SignIn, Devices, FocusSessions, TLAPS

-----------------------------------------------------------------------------
(* Focus sessions: the inductive invariant *)

\* An open transaction that links records.
Linking(c) == call[c].op \in {"batch", "record"} /\ call[c].step = "open"

\* At most one open transaction has a session's row.
OneHolder ==
  \A s \in Sessions : \A c, d \in Calls : c \in HeldBy(s) /\ d \in HeldBy(s) => c = d

\* What a transaction is going to store fits now, and it has the rows that say so.
NewFits(c) ==
  Linking(c) => \A r \in call[c].new : r.session \in call[c].held /\ Fits(r)

\* Whoever was told that a session started has a row that says so.
StartTold(c) ==
  call[c].op = "start" /\ call[c].step = "ok" =>
    LET row == sessions[call[c].session]
    IN /\ row # NotYet
       /\ row.device = call[c].device /\ row.started = call[c].started
       /\ row.target = call[c].target

\* A completion has found its session, and one that was told so has ended it.
CompletionTold(c) ==
  call[c].op = "complete" /\ call[c].step \in {"open", "ok"} =>
    LET row == sessions[call[c].session]
    IN /\ row # NotYet
       /\ call[c].step = "ok" =>
            row.ended = call[c].ended /\ row.work = call[c].work /\ row.label = call[c].label

CallOK(c) == NewFits(c) /\ StartTold(c) /\ CompletionTold(c)

FocusInv ==
  /\ FocusTypeOK
  /\ OneHolder
  /\ \A c \in Calls : CallOK(c)
  /\ SessionCoversRecords

\* Rows stay, with what the start gave them, and do not change once they have ended.
RowsGrow ==
  \A s \in Sessions : sessions[s] # NotYet =>
    /\ sessions'[s] # NotYet
    /\ sessions'[s].device = sessions[s].device
    /\ sessions'[s].started = sessions[s].started
    /\ sessions'[s].target = sessions[s].target
    /\ sessions[s].ended # NotYet => sessions'[s] = sessions[s]

-----------------------------------------------------------------------------
(* Requests *)

AllCalls == Starts \union Completions \union Stores \union {Idle}

\* A request's operation says what it carries.
LEMMA Carries ==
  ASSUME NEW r \in AllCalls
  PROVE  /\ r.op = "start" => r \in Starts
         /\ r.op = "complete" => r \in Completions
         /\ r.op \in {"batch", "record"} => r \in Stores
BY DEF AllCalls, Starts, Completions, Stores, Idle

\* An answer changes a request's step, and nothing else of it.
LEMMA Stepped ==
  ASSUME NEW r \in AllCalls, NEW step \in Steps, r.op # "none"
  PROVE  LET q == [r EXCEPT !.step = step]
         IN /\ q \in AllCalls /\ q.step = step /\ q.op = r.op
            /\ r.op \in {"start", "complete"} => q.session = r.session
            /\ r.op = "start" => /\ q.device = r.device /\ q.started = r.started
                                 /\ q.target = r.target
            /\ r.op = "complete" => /\ q.account = r.account /\ q.ended = r.ended
                                    /\ q.work = r.work /\ q.label = r.label
            /\ r.op \in {"batch", "record"} => /\ q.todo = r.todo /\ q.new = r.new /\ q.held = r.held
<1>1. CASE r \in Starts
  BY <1>1 DEF AllCalls, Starts
<1>2. CASE r \in Completions
  BY <1>2 DEF AllCalls, Completions
<1>3. CASE r \in Stores
  BY <1>3 DEF AllCalls, Stores
<1>4. QED
  BY <1>1, <1>2, <1>3 DEF AllCalls, Idle

-----------------------------------------------------------------------------
(* What a step leaves of the invariant *)

\* A call that a step does not touch keeps what it was told, as long as the rows grow and
\* those it holds stay as they are.
LEMMA UntouchedCall ==
  ASSUME FocusTypeOK, NEW d \in Calls, CallOK(d), call'[d] = call[d], RowsGrow,
         Linking(d) => \A s \in call[d].held : sessions'[s] = sessions[s]
  PROVE  CallOK(d)'
<1> USE DEF FocusTypeOK, AllCalls
<1>1. call[d] \in AllCalls
  OBVIOUS
<1>2. NewFits(d)'
  <2> SUFFICES ASSUME Linking(d), NEW r \in call[d].new
               PROVE  r.session \in call[d].held /\ Fits(r)'
    BY DEF NewFits, Linking
  <2>1. r.session \in call[d].held /\ Fits(r)
    BY DEF CallOK, NewFits
  <2>2. QED
    BY <2>1 DEF Fits, Owned
<1>3. StartTold(d)'
  <2>1. call[d].op = "start" => call[d].session \in Sessions
    BY <1>1, Carries DEF Starts
  <2>2. QED
    BY <2>1 DEF CallOK, StartTold, RowsGrow
<1>4. CompletionTold(d)'
  <2>1. call[d].op = "complete" => call[d].session \in Sessions /\ call[d].ended # NotYet
    BY <1>1, Carries, FocusAssumption DEF Completions
  <2>2. QED
    BY <2>1 DEF CallOK, CompletionTold, RowsGrow
<1>5. QED
  BY <1>2, <1>3, <1>4 DEF CallOK

\* A row has one holder after a step that gives it to nobody but a call it was free for.
LEMMA HoldersKept ==
  ASSUME FocusTypeOK, OneHolder, NEW c \in Calls,
         \A d \in Calls \ {c} : call'[d] = call[d],
         \A s \in Sessions : c \in HeldBy(s)' => c \in HeldBy(s) \/ Free(s, c)
  PROVE  OneHolder'
<1> SUFFICES ASSUME NEW s \in Sessions, NEW d \in Calls, NEW e \in Calls,
                    d \in HeldBy(s)', e \in HeldBy(s)'
             PROVE  d = e
  BY DEF OneHolder
<1>1. \A x \in Calls \ {c} : x \in HeldBy(s)' => x \in HeldBy(s)
  BY DEF HeldBy
<1>2. QED
  BY <1>1 DEF OneHolder, Free

\* A step of one call that changes no row and stores nothing.
LEMMA CallStep ==
  ASSUME FocusInv, NEW c \in Calls, UNCHANGED <<sessions, stored>>,
         call' \in [Calls -> AllCalls],
         \A d \in Calls \ {c} : call'[d] = call[d],
         \A s \in Sessions : c \in HeldBy(s)' => c \in HeldBy(s) \/ Free(s, c),
         CallOK(c)'
  PROVE  FocusInv'
<1>1. FocusTypeOK'
  BY DEF FocusInv, FocusTypeOK, AllCalls
<1>2. OneHolder'
  BY HoldersKept DEF FocusInv
<1>3. \A d \in Calls : CallOK(d)'
  BY UntouchedCall DEF FocusInv, RowsGrow
<1>4. SessionCoversRecords'
  BY DEF FocusInv, SessionCoversRecords, Fits, Owned
<1>5. QED
  BY <1>1, <1>2, <1>3, <1>4 DEF FocusInv

-----------------------------------------------------------------------------
(* Steps that only move a call on *)

\* Sending draws a call that was none.
LEMMA SendKeeps == ASSUME FocusInv, NEW c \in Calls, SendCall(c) PROVE FocusInv'
<1> USE DEF FocusInv, FocusTypeOK
<1>1. UNCHANGED <<sessions, stored>> /\ call[c].op = "none"
  BY DEF SendCall
<1>2. ASSUME NEW r \in AllCalls, r.op \in {"start", "complete"} => r.step = "sent",
             r.op \in {"batch", "record"} => r.new = {} /\ r.held = {},
             call' = [call EXCEPT ![c] = r]
      PROVE  FocusInv'
  <2>1. call' \in [Calls -> AllCalls] /\ call'[c] = r /\ \A d \in Calls \ {c} : call'[d] = call[d]
    BY <1>2 DEF AllCalls
  <2>2. CallOK(c)'
    BY <2>1, <1>2 DEF CallOK, NewFits, StartTold, CompletionTold, Linking
  <2>3. \A s \in Sessions : c \notin HeldBy(s)'
    BY <2>1, <1>2, Carries DEF HeldBy, AllCalls, Idle, Starts, Completions, Stores
  <2>4. QED
    BY <1>1, <2>1, <2>2, <2>3, CallStep
<1>3. ASSUME NEW s \in Sessions, NEW a \in Accounts, NEW d \in Devices, NEW t \in Instants,
             NEW target \in Targets, SendStart(c, s, a, d, t, target)
      PROVE  FocusInv'
  <2> DEFINE r == [op |-> "start", step |-> "sent", session |-> s, account |-> a, device |-> d,
                   started |-> t, target |-> target]
  <2>1. r \in AllCalls
    BY DEF AllCalls, Starts, Steps
  <2>2. QED
    BY <1>2, <1>3, <2>1 DEF SendStart
<1>4. ASSUME NEW s \in Sessions, NEW a \in Accounts, NEW t \in Instants, NEW work \in Works,
             NEW label \in Labels, SendComplete(c, s, a, t, work, label)
      PROVE  FocusInv'
  <2> DEFINE r == [op |-> "complete", step |-> "sent", session |-> s, account |-> a,
                   ended |-> t, work |-> work, label |-> label]
  <2>1. r \in AllCalls
    BY DEF AllCalls, Completions, Steps
  <2>2. QED
    BY <1>2, <1>4, <2>1 DEF SendComplete
<1>5. ASSUME NEW op \in {"batch", "record"}, NEW records \in Seq(LinkedRecord), records # <<>>,
             SendRecords(c, op, records)
      PROVE  FocusInv'
  <2> DEFINE r == [op |-> op, step |-> "open", device |-> records[1].device,
                   todo |-> records, new |-> {}, held |-> {}]
  <2>1. records[1] \in LinkedRecord
    BY <1>5
  <2>2. r \in AllCalls
    BY <2>1 DEF AllCalls, Stores, Steps, LinkedRecord
  <2>3. QED
    BY <1>2, <1>5, <2>2 DEF SendRecords
<1>6. ASSUME NEW r \in LinkedRecord, NEW q \in LinkedRecord
      PROVE  /\ <<r>> \in Seq(LinkedRecord) /\ <<r>> # <<>>
             /\ <<r, q>> \in Seq(LinkedRecord) /\ <<r, q>> # <<>>
  OBVIOUS
<1>7. QED
  BY <1>3, <1>4, <1>5, <1>6 DEF SendCall

\* What an answer leaves: it lets rows go, or takes one that was free.
LEMMA AnswerKeeps ==
  ASSUME FocusInv, NEW c \in Calls, NEW step \in Steps, call[c].op # "none", Answer(c, step),
         UNCHANGED <<sessions, stored>>,
         step = "open" => call[c].op \in {"start", "complete"} /\ Free(call[c].session, c),
         LET row == sessions[call[c].session]
         IN /\ call[c].op = "start" /\ step = "ok" =>
                 /\ row # NotYet /\ row.device = call[c].device
                 /\ row.started = call[c].started /\ row.target = call[c].target
            /\ call[c].op = "complete" /\ step \in {"open", "ok"} => row # NotYet
            /\ call[c].op = "complete" /\ step = "ok" =>
                 row.ended = call[c].ended /\ row.work = call[c].work /\ row.label = call[c].label
  PROVE  FocusInv'
<1> USE DEF FocusInv, FocusTypeOK
<1>1. /\ call[c] \in AllCalls
      /\ call'[c] = [call[c] EXCEPT !.step = step]
      /\ \A d \in Calls \ {c} : call'[d] = call[d]
  BY DEF Answer, AllCalls
<1>2. call'[c] \in AllCalls /\ call' \in [Calls -> AllCalls]
  <2>1. call'[c] \in AllCalls
    BY <1>1, Stepped
  <2>2. QED
    BY <1>1, <2>1 DEF Answer, AllCalls
<1>3. /\ call'[c].step = step /\ call'[c].op = call[c].op
      /\ call[c].op \in {"start", "complete"} => call'[c].session = call[c].session
      /\ call[c].op = "start" => /\ call'[c].device = call[c].device
                                 /\ call'[c].started = call[c].started
                                 /\ call'[c].target = call[c].target
      /\ call[c].op = "complete" => /\ call'[c].ended = call[c].ended
                                    /\ call'[c].work = call[c].work
                                    /\ call'[c].label = call[c].label
  BY <1>1, Stepped
<1>4. CallOK(c)'
  BY <1>3 DEF CallOK, NewFits, StartTold, CompletionTold, Linking
<1>5. \A s \in Sessions : c \in HeldBy(s)' => Free(s, c)
  BY <1>3 DEF HeldBy
<1>6. QED
  BY <1>1, <1>2, <1>4, <1>5, CallStep

LEMMA OpenStartKeeps == ASSUME FocusInv, NEW c \in Calls, OpenStart(c) PROVE FocusInv'
BY AnswerKeeps DEF OpenStart, Steps

LEMMA OpenCompleteKeeps == ASSUME FocusInv, NEW c \in Calls, OpenComplete(c) PROVE FocusInv'
BY AnswerKeeps DEF OpenComplete, Owned, Steps

LEMMA FailKeeps == ASSUME FocusInv, NEW c \in Calls, FailCall(c) PROVE FocusInv'
<1>1. call[c].op # "none"
  BY DEF FailCall, FocusInv, FocusTypeOK, Idle, Starts, Completions, Stores
<1>2. QED
  BY <1>1, AnswerKeeps DEF FailCall, Steps

\* A record is taken: a session that nobody else has is now held, and the record fits.
LEMMA TakeRecordKeeps == ASSUME FocusInv, NEW c \in Calls, TakeRecord(c) PROVE FocusInv'
<1> DEFINE r == call[c]
           next == Head(r.todo)
<1>1. /\ r \in Stores /\ r.op \in {"batch", "record"} /\ r.step = "open" /\ r.todo # <<>>
      /\ next \in LinkedRecord /\ Tail(r.todo) \in Seq(LinkedRecord)
  <2>1. r \in Stores /\ r.todo # <<>> /\ r.step = "open" /\ r.op \in {"batch", "record"}
    BY Carries DEF TakeRecord, FocusInv, FocusTypeOK, AllCalls
  <2>2. r.todo \in Seq(LinkedRecord)
    BY <2>1 DEF Stores
  <2>3. QED
    BY <2>1, <2>2
<1>2. UNCHANGED <<sessions, stored>>
  BY DEF TakeRecord
<1>3. CASE Answer(c, "refused")
  BY <1>1, <1>2, <1>3, AnswerKeeps DEF Steps
<1>4. ASSUME NEW new \in SUBSET LinkedRecord, NEW held \in SUBSET Sessions,
             \A q \in new : q.session \in held /\ Fits(q),
             \A s \in held : s \in r.held \/ Free(s, c),
             call' = [call EXCEPT ![c] = [r EXCEPT !.todo = Tail(r.todo), !.new = new, !.held = held]]
      PROVE  FocusInv'
  <2>1. /\ call'[c] = [r EXCEPT !.todo = Tail(r.todo), !.new = new, !.held = held]
        /\ \A d \in Calls \ {c} : call'[d] = call[d]
    BY <1>4 DEF FocusInv, FocusTypeOK
  <2>2. /\ call'[c] \in Stores /\ call'[c].op = r.op /\ call'[c].step = r.step
        /\ call'[c].new = new /\ call'[c].held = held
    BY <1>1, <2>1 DEF Stores
  <2>3. call' \in [Calls -> AllCalls]
    BY <1>4, <2>1, <2>2 DEF AllCalls, FocusInv, FocusTypeOK
  <2>4. CallOK(c)'
    BY <1>1, <1>2, <1>4, <2>2 DEF CallOK, NewFits, StartTold, CompletionTold, Fits, Owned
  <2>5. \A s \in Sessions : c \in HeldBy(s)' => c \in HeldBy(s) \/ Free(s, c)
    BY <1>1, <1>4, <2>2 DEF HeldBy
  <2>6. QED
    BY <1>2, <2>1, <2>3, <2>4, <2>5, CallStep
<1>5. \A q \in r.new : q.session \in r.held /\ Fits(q)
  BY <1>1 DEF FocusInv, CallOK, NewFits, Linking
<1>6. CASE call' = [call EXCEPT ![c].todo = Tail(r.todo)]
  <2>1. [r EXCEPT !.todo = Tail(r.todo)] = [r EXCEPT !.todo = Tail(r.todo), !.new = r.new, !.held = r.held]
    BY <1>1 DEF Stores
  <2>2. QED
    BY <1>1, <1>4, <1>5, <1>6, <2>1 DEF Stores
<1>7. CASE /\ Free(next.session, c) /\ Fits(next)
           /\ call' = [call EXCEPT ![c].todo = Tail(r.todo), ![c].new = @ \union {next},
                                   ![c].held = @ \union {next.session}]
  <2>1. r.new \union {next} \in SUBSET LinkedRecord /\ r.held \union {next.session} \in SUBSET Sessions
    BY <1>1 DEF Stores, LinkedRecord
  <2>2. QED
    BY <1>1, <1>4, <1>5, <1>7, <2>1
<1>8. QED
  BY <1>3, <1>6, <1>7 DEF TakeRecord

-----------------------------------------------------------------------------
(* Steps that write *)

\* The records of a commit fit, and were the last that this call wants to store.
LEMMA FinishRecordsKeeps == ASSUME FocusInv, NEW c \in Calls, FinishRecords(c) PROVE FocusInv'
<1>1. /\ call[c] \in Stores /\ call[c].op \in {"batch", "record"} /\ call[c].step = "open"
      /\ UNCHANGED sessions /\ Answer(c, "ok") /\ stored' = stored \union call[c].new
  BY Carries DEF FinishRecords, FocusInv, FocusTypeOK, AllCalls
<1>2. /\ call' \in [Calls -> AllCalls] /\ \A d \in Calls \ {c} : call'[d] = call[d]
      /\ call'[c].op = call[c].op /\ call'[c].step = "ok"
  <2>1. call'[c] = [call[c] EXCEPT !.step = "ok"] /\ \A d \in Calls \ {c} : call'[d] = call[d]
    BY <1>1 DEF Answer, FocusInv, FocusTypeOK
  <2>2. call'[c] \in Stores /\ call'[c].op = call[c].op /\ call'[c].step = "ok"
    BY <1>1, <2>1 DEF Stores, Steps
  <2>3. QED
    BY <1>1, <2>1, <2>2 DEF Answer, AllCalls, FocusInv, FocusTypeOK
<1>3. FocusTypeOK'
  <2>1. call[c].new \subseteq LinkedRecord
    BY <1>1 DEF Stores
  <2>2. QED
    BY <1>1, <1>2, <2>1 DEF FocusInv, FocusTypeOK, AllCalls
<1>4. OneHolder'
  <2>1. \A s \in Sessions : c \notin HeldBy(s)'
    BY <1>2 DEF HeldBy
  <2>2. QED
    BY <1>2, <2>1, HoldersKept DEF FocusInv
<1>5. CallOK(c)'
  BY <1>1, <1>2 DEF CallOK, NewFits, StartTold, CompletionTold, Linking
<1>6. \A d \in Calls \ {c} : CallOK(d)'
  BY <1>1, <1>2, UntouchedCall DEF FocusInv, RowsGrow
<1>7. SessionCoversRecords'
  <2>1. \A r \in stored \union call[c].new : Fits(r)
    BY <1>1 DEF FocusInv, SessionCoversRecords, CallOK, NewFits, Linking
  <2>2. QED
    BY <1>1, <2>1 DEF SessionCoversRecords, Fits, Owned
<1>8. QED
  BY <1>3, <1>4, <1>5, <1>6, <1>7 DEF FocusInv

\* A step of the call that has a session's row, which writes it and ends: what is left to
\* show is that the records that are stored still fit.
LEMMA RowStep ==
  ASSUME FocusInv, NEW c \in Calls, NEW s \in Sessions, c \in HeldBy(s),
         call[c].op \in {"start", "complete"}, Answer(c, "ok"),
         NEW row \in Session, sessions' = [sessions EXCEPT ![s] = row], UNCHANGED stored,
         RowsGrow, CallOK(c)', \A r \in stored : r.session = s => Fits(r)'
  PROVE  FocusInv'
<1>1. call[c].session = s /\ call[c].step = "open"
  BY DEF HeldBy
<1>2. /\ call' \in [Calls -> AllCalls] /\ \A d \in Calls \ {c} : call'[d] = call[d]
      /\ call'[c].op = call[c].op /\ call'[c].step = "ok"
  <2>1. call'[c] = [call[c] EXCEPT !.step = "ok"] /\ \A d \in Calls \ {c} : call'[d] = call[d]
    BY DEF Answer, FocusInv, FocusTypeOK
  <2>2. "ok" \in Steps /\ call[c] \in AllCalls /\ call[c].op # "none"
    BY DEF Steps, AllCalls, FocusInv, FocusTypeOK
  <2>3. call'[c] \in AllCalls /\ call'[c].op = call[c].op /\ call'[c].step = "ok"
    BY <2>1, <2>2, Stepped
  <2>4. QED
    BY <2>1, <2>3 DEF Answer, AllCalls, FocusInv, FocusTypeOK
<1>3. FocusTypeOK'
  BY <1>2 DEF FocusInv, FocusTypeOK, AllCalls
<1>4. OneHolder'
  <2>1. \A t \in Sessions : c \notin HeldBy(t)'
    BY <1>2 DEF HeldBy
  <2>2. QED
    BY <1>2, <2>1, HoldersKept DEF FocusInv
<1>5. ASSUME NEW d \in Calls \ {c} PROVE CallOK(d)'
  <2>1. Linking(d) => s \notin call[d].held
    BY DEF FocusInv, OneHolder, HeldBy, Linking
  <2>2. Linking(d) => \A t \in call[d].held : sessions'[t] = sessions[t]
    BY <2>1 DEF FocusInv, FocusTypeOK
  <2>3. QED
    BY <1>2, <2>2, UntouchedCall DEF FocusInv
<1>6. SessionCoversRecords'
  <2>1. ASSUME NEW r \in stored, r.session # s PROVE Fits(r)'
    <3>1. Fits(r) /\ sessions'[r.session] = sessions[r.session]
      BY <2>1 DEF FocusInv, FocusTypeOK, SessionCoversRecords, LinkedRecord
    <3>2. QED
      BY <3>1 DEF Fits, Owned
  <2>2. QED
    BY <2>1 DEF SessionCoversRecords
<1>7. QED
  BY <1>3, <1>4, <1>5, <1>6 DEF FocusInv

\* What an answer leaves of the call.
LEMMA AnsweredCall ==
  ASSUME FocusInv, NEW c \in Calls, NEW step \in Steps, call[c].op # "none", Answer(c, step)
  PROVE  /\ call'[c].step = step /\ call'[c].op = call[c].op
         /\ call[c].op \in {"start", "complete"} => call'[c].session = call[c].session
         /\ call[c].op = "start" => /\ call'[c].device = call[c].device
                                    /\ call'[c].started = call[c].started
                                    /\ call'[c].target = call[c].target
         /\ call[c].op = "complete" => /\ call'[c].ended = call[c].ended
                                       /\ call'[c].work = call[c].work
                                       /\ call'[c].label = call[c].label
<1>1. call[c] \in AllCalls /\ call'[c] = [call[c] EXCEPT !.step = step]
  BY DEF Answer, AllCalls, FocusInv, FocusTypeOK
<1>2. QED
  BY <1>1, Stepped

\* A start creates a row that no record links to yet, or is answered from the stored one.
LEMMA FinishStartKeeps == ASSUME FocusInv, NEW c \in Calls, FinishStart(c) PROVE FocusInv'
<1> DEFINE r == call[c]
           row == sessions[r.session]
           new == [device |-> r.device, started |-> r.started, target |-> r.target,
                   ended |-> NotYet, work |-> NotYet, label |-> NotYet]
<1>1. r \in Starts /\ r.op = "start" /\ r.step = "open"
  BY Carries DEF FinishStart, FocusInv, FocusTypeOK, AllCalls
<1>2. /\ r.session \in Sessions /\ c \in HeldBy(r.session)
      /\ new \in Session /\ row \in Session \union {NotYet}
  BY <1>1 DEF Starts, HeldBy, Session, FocusInv, FocusTypeOK
<1>3. CASE row = NotYet
  <2>1. sessions' = [sessions EXCEPT ![r.session] = new] /\ Answer(c, "ok") /\ UNCHANGED stored
    BY <1>3 DEF FinishStart
  <2>2. RowsGrow
    BY <1>2, <1>3, <2>1 DEF RowsGrow, FocusInv, FocusTypeOK
  <2>3. sessions'[r.session] = new /\ new # NotYet
    BY <1>2, <2>1, FocusAssumption DEF FocusInv, FocusTypeOK
  <2>4. CallOK(c)'
    <3>1. /\ call'[c].op = "start" /\ call'[c].session = r.session /\ call'[c].device = r.device
          /\ call'[c].started = r.started /\ call'[c].target = r.target
      BY <1>1, <2>1, AnsweredCall DEF Steps
    <3>2. QED
      BY <2>3, <3>1 DEF CallOK, NewFits, StartTold, CompletionTold, Linking
  <2>5. \A q \in stored : q.session # r.session
    BY <1>3 DEF FocusInv, SessionCoversRecords, Fits, Owned
  <2>6. QED
    BY <1>1, <1>2, <2>1, <2>2, <2>4, <2>5, RowStep
<1>4. CASE row # NotYet
  <2>1. Answer(c, IF SameStart(row, r) THEN "ok" ELSE "refused") /\ UNCHANGED <<sessions, stored>>
    BY <1>4 DEF FinishStart
  <2>2. CASE SameStart(row, r)
    BY <1>1, <1>4, <2>1, <2>2, AnswerKeeps DEF Steps, SameStart
  <2>3. CASE ~SameStart(row, r)
    BY <1>1, <2>1, <2>3, AnswerKeeps DEF Steps
  <2>4. QED
    BY <2>2, <2>3
<1>5. QED
  BY <1>3, <1>4

\* A completion ends a row where its records allow it: nobody else has the row, and so no
\* record of it is on its way.
LEMMA FinishCompleteKeeps == ASSUME FocusInv, NEW c \in Calls, FinishComplete(c) PROVE FocusInv'
<1> DEFINE r == call[c]
           row == sessions[r.session]
           new == [row EXCEPT !.ended = r.ended, !.work = r.work, !.label = r.label]
<1>1. r \in Completions /\ r.op = "complete" /\ r.step = "open"
  BY Carries DEF FinishComplete, FocusInv, FocusTypeOK, AllCalls
<1>2. /\ r.session \in Sessions /\ c \in HeldBy(r.session)
      /\ row # NotYet /\ row \in Session
  BY <1>1 DEF Completions, HeldBy, FocusInv, FocusTypeOK, CallOK, CompletionTold
<1>3. CASE row.ended # NotYet
  <2>1. Answer(c, IF SameCompletion(row, r) THEN "ok" ELSE "refused") /\ UNCHANGED <<sessions, stored>>
    BY <1>3 DEF FinishComplete
  <2>2. CASE SameCompletion(row, r)
    BY <1>1, <1>2, <2>1, <2>2, AnswerKeeps DEF Steps, SameCompletion
  <2>3. CASE ~SameCompletion(row, r)
    BY <1>1, <1>2, <2>1, <2>3, AnswerKeeps DEF Steps
  <2>4. QED
    BY <2>2, <2>3
<1>4. CASE row.ended = NotYet /\ r.label \in ActiveLabels /\ ValidEnd(row, r)
  <2>1. sessions' = [sessions EXCEPT ![r.session] = new] /\ Answer(c, "ok") /\ UNCHANGED stored
    BY <1>2, <1>4 DEF FinishComplete, FocusInv, FocusTypeOK
  <2>2. /\ new \in Session /\ new # NotYet
        /\ new.device = row.device /\ new.started = row.started /\ new.target = row.target
        /\ new.ended = r.ended /\ new.work = r.work /\ new.label = r.label
    BY <1>1, <1>2, FocusAssumption DEF Completions, Session
  <2>3. sessions'[r.session] = new
    BY <1>2, <2>1 DEF FocusInv, FocusTypeOK
  <2>4. RowsGrow
    BY <1>2, <1>4, <2>1, <2>2 DEF RowsGrow, FocusInv, FocusTypeOK
  <2>5. CallOK(c)'
    <3>1. /\ call'[c].op = "complete" /\ call'[c].session = r.session /\ call'[c].ended = r.ended
          /\ call'[c].work = r.work /\ call'[c].label = r.label
      BY <1>1, <2>1, AnsweredCall DEF Steps
    <3>2. QED
      BY <2>2, <2>3, <3>1 DEF CallOK, NewFits, StartTold, CompletionTold, Linking
  <2>6. ASSUME NEW q \in stored, q.session = r.session PROVE Fits(q)'
    <3>1. Fits(q) /\ q.at <= r.ended
      BY <1>4, <2>6 DEF ValidEnd, FocusInv, SessionCoversRecords
    <3>2. QED
      BY <2>2, <2>3, <2>6, <3>1 DEF Fits, Owned
  <2>7. QED
    BY <1>1, <1>2, <2>1, <2>2, <2>4, <2>5, <2>6, RowStep
<1>5. CASE row.ended = NotYet /\ ~(r.label \in ActiveLabels /\ ValidEnd(row, r))
  <2>1. Answer(c, "refused") /\ UNCHANGED <<sessions, stored>>
    BY <1>5 DEF FinishComplete
  <2>2. QED
    BY <1>1, <1>2, <2>1, AnswerKeeps DEF Steps
<1>6. QED
  BY <1>3, <1>4, <1>5

-----------------------------------------------------------------------------
(* The theorems about focus sessions *)

LEMMA FocusInitial == FocusInit => FocusInv
<1> SUFFICES ASSUME FocusInit PROVE FocusInv
  OBVIOUS
<1>1. FocusTypeOK
  BY DEF FocusInit, FocusTypeOK
<1>2. \A c \in Calls : call[c].op = "none"
  BY DEF FocusInit, Idle
<1>3. OneHolder
  BY DEF FocusInit, Idle, OneHolder, HeldBy
<1>4. QED
  BY <1>1, <1>2, <1>3 DEF FocusInit, FocusInv, CallOK, NewFits, StartTold, CompletionTold,
    Linking, SessionCoversRecords

LEMMA FocusStepKeeps == FocusInv /\ [FocusNext]_focusVars => FocusInv'
<1> SUFFICES ASSUME FocusInv, [FocusNext]_focusVars PROVE FocusInv'
  OBVIOUS
<1>1. CASE UNCHANGED focusVars
  BY <1>1 DEF focusVars, FocusInv, FocusTypeOK, OneHolder, HeldBy, CallOK, NewFits, StartTold,
    CompletionTold, Linking, SessionCoversRecords, Fits, Owned
<1>2. ASSUME NEW c \in Calls,
             \/ SendCall(c) \/ OpenStart(c) \/ FinishStart(c) \/ OpenComplete(c) \/ FinishComplete(c)
             \/ TakeRecord(c) \/ FinishRecords(c) \/ FailCall(c)
      PROVE  FocusInv'
  BY <1>2, SendKeeps, OpenStartKeeps, FinishStartKeeps, OpenCompleteKeeps, FinishCompleteKeeps,
    TakeRecordKeeps, FinishRecordsKeeps, FailKeeps
<1>3. QED
  BY <1>1, <1>2 DEF FocusNext

THEOREM FocusInvariant == FocusSpec => []FocusInv
BY FocusInitial, FocusStepKeeps, PTL DEF FocusSpec

\* Every reachable state is well typed: rows, linked records and requests have their shape.
THEOREM FocusTypeCorrect == FocusSpec => []FocusTypeOK
<1>1. FocusInv => FocusTypeOK
  BY DEF FocusInv
<1>2. QED
  BY <1>1, FocusInvariant, PTL

\* However completions, records and batches race and fail, each stored record lies within
\* its session, on its device (FocusSessionLinks, CompleteFocusSession).
THEOREM RecordsAreCovered == FocusSpec => []SessionCoversRecords
<1>1. FocusInv => SessionCoversRecords
  BY DEF FocusInv
<1>2. QED
  BY <1>1, FocusInvariant, PTL

\* What a start or a completion was told stays true (StartFocusSession,
\* FocusSession.complete).
THEOREM FocusAnswersStand == FocusSpec => []AnswersStand
<1>1. FocusInv => AnswersStand
  BY DEF FocusInv, CallOK, StartTold, CompletionTold, AnswersStand
<1>2. QED
  BY <1>1, FocusInvariant, PTL

\* A session's row is never taken away, keeps what its start gave it, and never changes
\* once it is completed (StartFocusSession, FocusSession.complete).
THEOREM CompletedSessionsStay == FocusSpec => [][RowsGrow]_focusVars
<1>1. ASSUME FocusInv, [FocusNext]_focusVars PROVE RowsGrow \/ UNCHANGED focusVars
  <2>1. CASE UNCHANGED sessions
    BY <2>1 DEF RowsGrow
  <2>2. ASSUME NEW c \in Calls, FinishStart(c), sessions' # sessions PROVE RowsGrow
    <3>1. /\ sessions[call[c].session] = NotYet
          /\ \A s \in Sessions : s # call[c].session => sessions'[s] = sessions[s]
      BY <1>1, <2>2 DEF FinishStart, FocusInv, FocusTypeOK
    <3>2. QED
      BY <3>1 DEF RowsGrow
  <2>3. ASSUME NEW c \in Calls, FinishComplete(c), sessions' # sessions PROVE RowsGrow
    <3> DEFINE r == call[c]
               row == sessions[r.session]
               new == [row EXCEPT !.ended = r.ended, !.work = r.work, !.label = r.label]
    <3>1. r \in Completions /\ r.op = "complete" /\ r.step = "open"
      BY <1>1, <2>3, Carries DEF FinishComplete, FocusInv, FocusTypeOK, AllCalls
    <3>2. r.session \in Sessions /\ row \in Session /\ row.ended = NotYet
      BY <1>1, <2>3, <3>1 DEF FinishComplete, Completions, FocusInv, FocusTypeOK, CallOK, CompletionTold
    <3>3. sessions' = [sessions EXCEPT ![r.session] = new]
      BY <1>1, <2>3, <3>2 DEF FinishComplete, FocusInv, FocusTypeOK
    <3>4. /\ new \in Session /\ new # NotYet
          /\ new.device = row.device /\ new.started = row.started /\ new.target = row.target
      BY <3>1, <3>2, FocusAssumption DEF Completions, Session
    <3>5. QED
      BY <1>1, <3>2, <3>3, <3>4 DEF RowsGrow, FocusInv, FocusTypeOK
  <2>4. QED
    BY <1>1, <2>1, <2>2, <2>3 DEF FocusNext, focusVars, SendCall, OpenStart, OpenComplete,
      TakeRecord, FinishRecords, FailCall
<1>2. QED
  BY <1>1, FocusInvariant, PTL DEF FocusSpec

-----------------------------------------------------------------------------
(* Signing in and devices *)

\* An attempt's transaction knows whether it inserts its user's account.
LoginOK(a) ==
  LET l == login[a]
  IN /\ l.challenge = a /\ l.now <= time
     /\ l.step = "holding" => (l.created <=> l.user \notin accounts)

\* One transaction inserts an account: another one waits for it.
OneInserter == \A a, b \in Attempts : \A u \in Users : a \in Inserting(u) /\ b \in Inserting(u) => a = b

\* The callback of a sign-in has committed: nothing of the attempt changes but its answer.
SignedIn(a) == login[a].step \in {"committed", "answered"}

\* A code is determined by its attempt.
CodeOK(r) ==
  /\ SignedIn(r.code)
  /\ r.user = login[r.code].user /\ r.challenge = r.code
  /\ r.expires = login[r.code].now + TTL

\* What a token request has found, and what its end leaves of it.
ExchangeOK(x) ==
  LET e == exchange[x]
  IN /\ e.now <= time
     /\ e.step # "idle" => login[e.code].step = "answered"
     /\ e.step \in {"locked", "issued"} =>
          \A r \in e.row : r.code = e.code /\ r.user = login[e.code].user /\ r.challenge = r.code
     /\ e.step = "locked" => e.row \subseteq codes
     /\ e.step = "issued" => e.verifier = e.code /\ Row(e.code) = {}

\* One token request has the lock of a code.
OneLock ==
  \A x, y \in Exchanges :
    exchange[x].step = "locked" /\ exchange[y].step = "locked"
      /\ exchange[x].code = exchange[y].code => x = y

SignInInv ==
  /\ SignInTypeOK
  /\ \A a \in Attempts : LoginOK(a)
  /\ OneInserter
  /\ DefaultsOnce
  /\ \A r \in codes : CodeOK(r)
  /\ \A x \in Exchanges : ExchangeOK(x)
  /\ OneLock
  /\ OneTokenPerCode

-----------------------------------------------------------------------------
(* Login and callback *)

\* A step that moves one attempt on and writes no row.  It may find its account missing
\* only where nobody else inserts it, and leaves alone an attempt that has signed in.
LEMMA MoveKeeps ==
  ASSUME SignInInv, NEW a \in Attempts, NEW l \in LoginState,
         login' = [login EXCEPT ![a] = l], cookie' \in [Browsers -> Attempts \union {NoAttempt}],
         UNCHANGED <<time, accounts, labels, codes, exchange>>,
         l.challenge = a, l.now <= time,
         l.step = "holding" =>
           /\ l.created <=> l.user \notin accounts
           /\ Inserting(l.user) = {},
         SignedIn(a) => /\ l.user = login[a].user /\ l.now = login[a].now
                        /\ l.step \in {"committed", "answered"},
         login[a].step = "answered" => l.step = "answered"
  PROVE  SignInInv'
<1> USE DEF SignInInv, SignInTypeOK
<1>1. /\ login'[a] = l /\ \A b \in Attempts \ {a} : login'[b] = login[b]
      /\ login' \in [Attempts -> LoginState]
  OBVIOUS
<1>2. SignInTypeOK'
  BY <1>1
<1>3. \A b \in Attempts : LoginOK(b)'
  BY <1>1 DEF LoginOK
<1>4. OneInserter'
  BY <1>1 DEF OneInserter, Inserting
<1>5. DefaultsOnce'
  BY DEF DefaultsOnce
<1>6. ASSUME NEW r \in codes PROVE CodeOK(r)'
  <2>1. r.code \in Attempts /\ CodeOK(r)
    BY DEF Code
  <2>2. QED
    BY <1>1, <2>1 DEF CodeOK, SignedIn
<1>7. ASSUME NEW x \in Exchanges PROVE ExchangeOK(x)'
  <2>1. exchange[x].code \in Attempts /\ ExchangeOK(x)
    BY DEF ExchangeState
  <2>2. login'[exchange[x].code].user = login[exchange[x].code].user \/ exchange[x].step = "idle"
    BY <1>1, <2>1 DEF ExchangeOK, SignedIn
  <2>3. QED
    BY <1>1, <2>1, <2>2 DEF ExchangeOK, Row
<1>8. OneLock' /\ OneTokenPerCode'
  BY DEF OneLock, OneTokenPerCode
<1>9. QED
  BY <1>2, <1>3, <1>4, <1>5, <1>6, <1>7, <1>8

\* The steps of an attempt before its transaction writes, and after.
LEMMA LoginMovesKeep ==
  ASSUME SignInInv, NEW a \in Attempts,
         \/ \E b \in Browsers : StartLogin(a, b)
         \/ \E u \in Users : Callback(a, u)
         \/ CallbackRefused(a) \/ AskProvider(a) \/ ProviderFails(a)
         \/ GetOrCreate(a) \/ Redirect(a) \/ FailLogin(a)
  PROVE  SignInInv'
<1> USE DEF SignInInv, SignInTypeOK
<1>1. /\ login[a] \in LoginState /\ login[a].browser \in Browsers
      /\ LoginOK(a) /\ time \in 0..MaxTime
  BY DEF LoginState
<1>2. \A b \in Browsers, v \in Attempts \union {NoAttempt} :
        [cookie EXCEPT ![b] = v] \in [Browsers -> Attempts \union {NoAttempt}]
  OBVIOUS
<1>3. ASSUME NEW b \in Browsers, StartLogin(a, b) PROVE SignInInv'
  <2> DEFINE l == [login[a] EXCEPT !.step = "provider", !.browser = b]
  <2>1. login' = [login EXCEPT ![a] = l] /\ l \in LoginState
    BY <1>1, <1>3 DEF StartLogin, LoginState
  <2>2. l.challenge = a /\ l.now <= time /\ l.step = "provider"
    BY <1>1 DEF LoginOK, LoginState
  <2>3. QED
    BY <1>2, <1>3, <2>1, <2>2, MoveKeeps DEF StartLogin, SignedIn
<1>4. ASSUME NEW u \in Users, Callback(a, u) PROVE SignInInv'
  <2> DEFINE l == [login[a] EXCEPT !.step = "asking", !.user = u, !.challenge = cookie[login[a].browser]]
  <2>1. login' = [login EXCEPT ![a] = l] /\ l \in LoginState
    BY <1>1, <1>4 DEF Callback, LoginState
  <2>2. l.challenge = a /\ l.now <= time /\ l.step = "asking"
    BY <1>1, <1>4 DEF Callback, LoginOK, LoginState
  <2>3. QED
    BY <1>4, <2>1, <2>2, MoveKeeps DEF Callback, SignedIn
<1>5. ASSUME NEW step \in {"failed", "answered"}, login' = [login EXCEPT ![a].step = step],
             cookie' \in {cookie, Cleared(a)}, UNCHANGED <<time, accounts, labels, codes, exchange>>,
             IF step = "answered" THEN login[a].step = "committed" ELSE ~SignedIn(a)
      PROVE  SignInInv'
  <2> DEFINE l == [login[a] EXCEPT !.step = step]
  <2>1. login' = [login EXCEPT ![a] = l] /\ l \in LoginState
    BY <1>1, <1>5 DEF LoginState
  <2>2. /\ l.challenge = a /\ l.now <= time /\ l.step = step
        /\ l.user = login[a].user /\ l.now = login[a].now
    BY <1>1 DEF LoginOK, LoginState
  <2>3. cookie' \in [Browsers -> Attempts \union {NoAttempt}]
    BY <1>1, <1>2, <1>5 DEF Cleared
  <2>4. QED
    BY <1>5, <2>1, <2>2, <2>3, MoveKeeps DEF SignedIn
<1>6. CASE AskProvider(a)
  <2> DEFINE l == [login[a] EXCEPT !.step = "open", !.now = time]
  <2>1. login' = [login EXCEPT ![a] = l] /\ l \in LoginState
    BY <1>1, <1>6 DEF AskProvider, LoginState
  <2>2. l.challenge = a /\ l.now <= time /\ l.step = "open"
    BY <1>1 DEF LoginOK, LoginState
  <2>3. /\ UNCHANGED <<time, cookie, accounts, labels, codes, exchange>>
        /\ ~SignedIn(a) /\ login[a].step # "answered"
    BY <1>6 DEF AskProvider, SignedIn
  <2>4. QED
    BY <2>1, <2>2, <2>3, MoveKeeps
<1>7. CASE GetOrCreate(a)
  <2> DEFINE l == [login[a] EXCEPT !.step = "holding", !.created = login[a].user \notin accounts]
  <2>1. login' = [login EXCEPT ![a] = l] /\ l \in LoginState
    BY <1>1, <1>7 DEF GetOrCreate, LoginState
  <2>2. /\ l.challenge = a /\ l.now <= time /\ l.step = "holding" /\ l.user = login[a].user
        /\ l.created <=> login[a].user \notin accounts
    BY <1>1 DEF LoginOK, LoginState
  <2>3. QED
    BY <1>7, <2>1, <2>2, MoveKeeps DEF GetOrCreate, SignedIn
<1>8. QED
  BY <1>3, <1>4, <1>5, <1>6, <1>7 DEF CallbackRefused, ProviderFails, Redirect, FailLogin, SignedIn

\* Its commit: the account is there with its labels, and codes of which none is locked go.
LEMMA CommitLoginKeeps ==
  ASSUME SignInInv, NEW a \in Attempts, CommitLogin(a)
  PROVE  SignInInv'
<1> USE DEF SignInInv, SignInTypeOK
<1> DEFINE u == login[a].user
<1>1. /\ login[a] \in LoginState /\ u \in Users /\ login[a].now \in 0..MaxTime /\ login[a].challenge = a
      /\ login[a].step = "holding" /\ (login[a].created <=> u \notin accounts)
      /\ login[a].created \in BOOLEAN
  BY DEF LoginState, CommitLogin, LoginOK
<1>2. /\ login' \in [Attempts -> LoginState]
      /\ login'[a].step = "committed" /\ login'[a].user = u /\ login'[a].now = login[a].now
      /\ login'[a].challenge = a
      /\ \A b \in Attempts \ {a} : login'[b] = login[b]
  BY <1>1 DEF CommitLogin, LoginState
<1>3. /\ Issue(a) \in Code /\ Issue(a).code = a /\ Issue(a).user = u /\ Issue(a).challenge = a
      /\ Issue(a).expires = login[a].now + TTL
  BY <1>1, SignInAssumption DEF Issue, Code
<1>4. /\ codes' = (codes \ Expired(login[a].now)) \union {Issue(a)}
      /\ accounts' = accounts \union {u}
      /\ UNCHANGED <<time, cookie, exchange>>
  BY DEF CommitLogin
<1>5. \A r \in codes : r.code # a /\ r.code \in Attempts
  BY <1>1 DEF CodeOK, SignedIn, Code
<1>6. labels' \in [Users -> Nat] /\ DefaultsOnce'
  <2>1. CASE login[a].created
    <3>1. labels[u] = 0 /\ labels' = [labels EXCEPT ![u] = labels[u] + 1]
      BY <1>1, <2>1 DEF DefaultsOnce, CommitLogin, DefaultLabels
    <3>2. QED
      BY <1>1, <1>4, <3>1 DEF DefaultsOnce
  <2>2. CASE ~login[a].created
    BY <1>1, <1>4, <2>2 DEF DefaultsOnce, CommitLogin, DefaultLabels
  <2>3. QED
    BY <2>1, <2>2
<1>7. SignInTypeOK'
  BY <1>1, <1>2, <1>3, <1>4, <1>6
<1>8. ASSUME NEW b \in Attempts PROVE LoginOK(b)'
  <2>1. CASE b = a
    BY <1>1, <1>2, <1>4, <2>1 DEF LoginOK
  <2>2. CASE b # a /\ login[b].step = "holding" /\ login[b].user = u
    <3>1. ~login[b].created
      BY <1>1, <2>2 DEF LoginOK, OneInserter, Inserting
    <3>2. QED
      BY <1>2, <1>4, <2>2, <3>1 DEF LoginOK
  <2>3. CASE b # a /\ ~(login[b].step = "holding" /\ login[b].user = u)
    BY <1>2, <1>4, <2>3 DEF LoginOK
  <2>4. QED
    BY <2>1, <2>2, <2>3
<1>9. OneInserter'
  BY <1>2 DEF OneInserter, Inserting
<1>10. ASSUME NEW r \in codes' PROVE CodeOK(r)'
  BY <1>2, <1>3, <1>4, <1>5, <1>10 DEF CodeOK, SignedIn
<1>11. ASSUME NEW x \in Exchanges PROVE ExchangeOK(x)'
  <2>1. exchange[x].code \in Attempts /\ ExchangeOK(x) /\ exchange'[x] = exchange[x]
    BY <1>4 DEF ExchangeState
  <2>2. exchange[x].step # "idle" => login'[exchange[x].code] = login[exchange[x].code] /\ exchange[x].code # a
    BY <1>1, <1>2, <2>1 DEF ExchangeOK
  <2>3. exchange[x].step = "locked" => exchange[x].row \subseteq codes'
    BY <1>4, <2>1 DEF ExchangeOK, CommitLogin, Expired, Locked
  <2>4. exchange[x].step = "issued" => Row(exchange[x].code)' = {}
    BY <1>3, <1>4, <2>1, <2>2 DEF ExchangeOK, Row
  <2>5. QED
    BY <1>4, <2>1, <2>2, <2>3, <2>4 DEF ExchangeOK
<1>12. OneLock' /\ OneTokenPerCode'
  BY <1>4 DEF OneLock, OneTokenPerCode
<1>13. QED
  BY <1>6, <1>7, <1>8, <1>9, <1>10, <1>11, <1>12

\* Cookies that are gone, and the clock.
LEMMA WaitingKeeps ==
  ASSUME SignInInv, (\E b \in Browsers : CookiesExpire(b)) \/ ClockTicks
  PROVE  SignInInv'
<1> USE DEF SignInInv, SignInTypeOK
<1>1. /\ time \in 0..MaxTime /\ time' \in 0..MaxTime /\ time <= time'
      /\ cookie' \in [Browsers -> Attempts \union {NoAttempt}]
      /\ UNCHANGED <<login, accounts, labels, codes, exchange>>
  BY SignInAssumption DEF CookiesExpire, ClockTicks
<1>2. \A a \in Attempts : LoginOK(a)'
  BY <1>1 DEF LoginOK, LoginState
<1>3. OneInserter' /\ DefaultsOnce' /\ OneLock' /\ OneTokenPerCode'
  BY <1>1 DEF OneInserter, Inserting, DefaultsOnce, OneLock, OneTokenPerCode
<1>4. \A r \in codes' : CodeOK(r)'
  BY <1>1 DEF CodeOK, SignedIn
<1>5. \A x \in Exchanges : ExchangeOK(x)'
  BY <1>1 DEF ExchangeOK, ExchangeState, Row
<1>6. QED
  BY <1>1, <1>2, <1>3, <1>4, <1>5

-----------------------------------------------------------------------------
(* ExchangeAuthorizationCode *)

\* A step of one token request that leaves the logins alone: what its new state has to
\* satisfy, and what the codes it takes away must not be.
LEMMA RequestKeeps ==
  ASSUME SignInInv, NEW x \in Exchanges, NEW e \in ExchangeState, NEW gone \in SUBSET codes,
         exchange' = [exchange EXCEPT ![x] = e], codes' = codes \ gone,
         UNCHANGED <<time, cookie, login, accounts, labels>>,
         ExchangeOK(x)',
         \A y \in Exchanges \ {x} : exchange[y].step = "locked" => exchange[y].row \intersect gone = {},
         e.step = "locked" => ~Locked(e.code),
         e.step = "issued" => exchange[x].step = "issued" \/ Row(e.code) # {},
         exchange[x].step = "issued" => e.step = "issued" /\ e.code = exchange[x].code
  PROVE  SignInInv'
<1> USE DEF SignInInv, SignInTypeOK
<1>1. /\ exchange'[x] = e /\ \A y \in Exchanges \ {x} : exchange'[y] = exchange[y]
      /\ exchange' \in [Exchanges -> ExchangeState] /\ codes' \subseteq codes
  OBVIOUS
<1>2. SignInTypeOK'
  BY <1>1
<1>3. OneInserter' /\ DefaultsOnce' /\ \A a \in Attempts : LoginOK(a)'
  BY DEF OneInserter, Inserting, DefaultsOnce, LoginOK
<1>4. \A r \in codes' : CodeOK(r)'
  BY DEF CodeOK, SignedIn
<1>5. ASSUME NEW y \in Exchanges PROVE ExchangeOK(y)'
  <2>1. CASE y = x
    BY <2>1
  <2>2. CASE y # x
    BY <1>1, <2>2 DEF ExchangeOK, Row
  <2>3. QED
    BY <2>1, <2>2
<1>6. OneLock'
  BY <1>1 DEF OneLock, Locked
<1>7. ASSUME NEW y \in Exchanges \ {x}, e.step = "issued", exchange[y].step = "issued", exchange[y].code = e.code
      PROVE  FALSE
  <2>1. Row(e.code) = {}
    BY <1>7 DEF ExchangeOK
  <2>2. QED
    BY <1>7, <2>1 DEF OneTokenPerCode
<1>8. OneTokenPerCode'
  BY <1>1, <1>7 DEF OneTokenPerCode
<1>9. QED
  BY <1>2, <1>3, <1>4, <1>5, <1>6, <1>8

\* The request is sent, takes the lock of its code, or fails: no code goes.
LEMMA LockKeeps ==
  ASSUME SignInInv, NEW x \in Exchanges,
         \/ \E c \in Attempts, v \in Attempts \union {Malformed} : SendExchange(x, c, v)
         \/ LockCode(x) \/ FailExchange(x)
  PROVE  SignInInv'
<1> USE DEF SignInInv, SignInTypeOK
<1>0. {} \in SUBSET codes /\ \A y \in Exchanges : exchange[y].row \intersect {} = {}
  OBVIOUS
<1>1. exchange[x] \in ExchangeState /\ exchange[x].code \in Attempts /\ ExchangeOK(x) /\ time \in 0..MaxTime
  BY DEF ExchangeState
<1>2. ASSUME NEW c \in Attempts, NEW v \in Attempts \union {Malformed}, SendExchange(x, c, v)
      PROVE  SignInInv'
  <2> DEFINE e == [exchange[x] EXCEPT !.step = IF v = Malformed THEN "rejected" ELSE "sent",
                                      !.code = c, !.verifier = v]
  <2>1. /\ exchange' = [exchange EXCEPT ![x] = e] /\ e \in ExchangeState /\ codes' = codes \ {}
        /\ e.step \in {"sent", "rejected"} /\ e.code = c /\ e.now = exchange[x].now
    BY <1>1, <1>2 DEF SendExchange, ExchangeState
  <2>2. UNCHANGED <<time, cookie, login, accounts, labels>> /\ login[c].step = "answered"
        /\ exchange[x].step = "idle"
    BY <1>2 DEF SendExchange
  <2>3. ExchangeOK(x)'
    BY <1>1, <2>1, <2>2 DEF ExchangeOK
  <2> HIDE DEF e
  <2>4. QED
    BY <2>1, <2>2, <2>3, <1>0, RequestKeeps
<1>3. CASE LockCode(x)
  <2> DEFINE e == [exchange[x] EXCEPT !.now = time, !.row = Row(exchange[x].code),
                     !.step = IF Row(exchange[x].code) = {} THEN "rejected" ELSE "locked"]
  <2>1. /\ exchange' = [exchange EXCEPT ![x] = e] /\ e \in ExchangeState /\ codes' = codes \ {}
        /\ e.step \in {"locked", "rejected"} /\ e.code = exchange[x].code /\ e.now = time
        /\ e.row = Row(e.code)
    BY <1>1, <1>3 DEF LockCode, ExchangeState, Row
  <2>2. /\ UNCHANGED <<time, cookie, login, accounts, labels>>
        /\ ~Locked(exchange[x].code) /\ exchange[x].step = "sent"
    BY <1>3 DEF LockCode
  <2>3. ExchangeOK(x)'
    BY <1>1, <2>1, <2>2 DEF ExchangeOK, Row, CodeOK
  <2> HIDE DEF e
  <2>4. QED
    BY <2>1, <2>2, <2>3, <1>0, RequestKeeps
<1>4. CASE FailExchange(x)
  <2> DEFINE e == [exchange[x] EXCEPT !.step = "failed"]
  <2>1. /\ exchange' = [exchange EXCEPT ![x] = e] /\ e \in ExchangeState /\ codes' = codes \ {}
        /\ e.step = "failed" /\ e.code = exchange[x].code /\ e.now = exchange[x].now
    BY <1>1, <1>4 DEF FailExchange, ExchangeState
  <2>2. UNCHANGED <<time, cookie, login, accounts, labels>> /\ exchange[x].step \in {"sent", "locked"}
    BY <1>4 DEF FailExchange
  <2>3. ExchangeOK(x)'
    BY <1>1, <2>1, <2>2 DEF ExchangeOK
  <2> HIDE DEF e
  <2>4. QED
    BY <2>1, <2>2, <2>3, <1>0, RequestKeeps
<1>5. QED
  BY <1>2, <1>3, <1>4

\* Its end: the row it locked is the only one with its code, and nobody else holds it.
LEMMA CommitExchangeKeeps ==
  ASSUME SignInInv, NEW x \in Exchanges, CommitExchange(x)
  PROVE  SignInInv'
<1> USE DEF SignInInv, SignInTypeOK
<1>1. /\ exchange[x] \in ExchangeState /\ exchange[x].code \in Attempts /\ ExchangeOK(x)
      /\ exchange[x].step = "locked"
  BY DEF ExchangeState, CommitExchange
<1>2. PICK r \in exchange[x].row :
        /\ exchange' = [exchange EXCEPT ![x].step = Outcome(r, x).step]
        /\ codes' = IF Outcome(r, x).deleted THEN codes \ {r} ELSE codes
  BY DEF CommitExchange
<1>3. r \in codes /\ r \in Code /\ r.code = exchange[x].code /\ r.challenge = r.code /\ CodeOK(r)
  BY <1>1 DEF ExchangeOK
<1>4. \A q \in codes : q.code = r.code => q = r
  <2>1. SUFFICES ASSUME NEW q \in codes, q.code = r.code PROVE q = r
    OBVIOUS
  <2>2. q \in Code /\ CodeOK(q)
    OBVIOUS
  <2>3. q.user = r.user /\ q.challenge = r.challenge /\ q.expires = r.expires
    BY <1>3, <2>1, <2>2 DEF CodeOK
  <2>4. QED
    BY <1>3, <2>1, <2>2, <2>3 DEF Code
<1> DEFINE o == Outcome(r, x)
           e == [exchange[x] EXCEPT !.step = o.step]
           gone == IF o.deleted THEN {r} ELSE {}
<1>5. /\ o.step \in {"issued", "rejected"}
      /\ o.step = "issued" => o.deleted /\ exchange[x].verifier = r.challenge
  BY DEF Outcome
<1>6. /\ exchange' = [exchange EXCEPT ![x] = e] /\ e \in ExchangeState /\ codes' = codes \ gone
      /\ e.step = o.step /\ e.code = exchange[x].code /\ e.now = exchange[x].now
      /\ e.row = exchange[x].row /\ e.verifier = exchange[x].verifier
  BY <1>1, <1>2, <1>5 DEF ExchangeState
<1>7. UNCHANGED <<time, cookie, login, accounts, labels>>
  BY DEF CommitExchange
<1>8. ExchangeOK(x)'
  BY <1>1, <1>3, <1>4, <1>5, <1>6, <1>7 DEF ExchangeOK, Row
<1>9. ASSUME NEW y \in Exchanges \ {x}, exchange[y].step = "locked"
      PROVE  exchange[y].row \intersect gone = {}
  <2>1. exchange[y].code # exchange[x].code
    BY <1>1, <1>9 DEF OneLock
  <2>2. r \notin exchange[y].row
    BY <1>3, <1>9, <2>1 DEF ExchangeOK
  <2>3. QED
    BY <2>2
<1>10. Row(e.code) # {}
  BY <1>3, <1>6 DEF Row
<1>11. gone \in SUBSET codes
  BY <1>3
<1> HIDE DEF e, gone, o
<1>12. QED
  BY <1>1, <1>5, <1>6, <1>7, <1>8, <1>9, <1>10, <1>11, RequestKeeps

-----------------------------------------------------------------------------
(* The theorems about signing in *)

LEMMA SignInStart == SignInInit => SignInInv
<1> SUFFICES ASSUME SignInInit PROVE SignInInv
  OBVIOUS
<1> USE SignInAssumption DEF SignInInit
<1>1. /\ (CHOOSE a \in Attempts : TRUE) \in Attempts
      /\ (CHOOSE b \in Browsers : TRUE) \in Browsers /\ (CHOOSE u \in Users : TRUE) \in Users
  OBVIOUS
<1>2. SignInTypeOK
  BY <1>1 DEF SignInTypeOK, LoginState, ExchangeState
<1>3. /\ \A a \in Attempts : login[a].step = "idle" /\ LoginOK(a)
      /\ \A x \in Exchanges : exchange[x].step = "idle" /\ ExchangeOK(x)
  BY DEF LoginOK, ExchangeOK
<1>4. QED
  BY <1>2, <1>3 DEF SignInInv, OneInserter, Inserting, DefaultsOnce, OneLock, OneTokenPerCode

LEMMA SignInStepKeeps == SignInInv /\ [SignInNext]_signInVars => SignInInv'
<1> SUFFICES ASSUME SignInInv, [SignInNext]_signInVars PROVE SignInInv'
  OBVIOUS
<1>1. ASSUME NEW a \in Attempts, LoginStep(a) PROVE SignInInv'
  BY <1>1, LoginMovesKeep, CommitLoginKeeps DEF LoginStep
<1>2. ASSUME NEW x \in Exchanges, ExchangeStep(x) PROVE SignInInv'
  BY <1>2, LockKeeps, CommitExchangeKeeps DEF ExchangeStep
<1>3. CASE UNCHANGED signInVars
  BY <1>3 DEF signInVars, SignInInv, SignInTypeOK, LoginOK, OneInserter, Inserting, DefaultsOnce,
              CodeOK, SignedIn, ExchangeOK, Row, OneLock, OneTokenPerCode
<1>4. QED
  BY <1>1, <1>2, <1>3, WaitingKeeps DEF SignInNext

\* Rows that are locked stay, one transaction at a time creates an account, one holds a
\* code, and codes are those of sign-ins that have committed: the invariant of signing in.
THEOREM SignInInvariant == SignInSpec => []SignInInv
<1>1. QED
  BY SignInStart, SignInStepKeeps, PTL DEF SignInSpec

\* The state of signing in keeps its shape.
THEOREM SignInTypeCorrect == SignInSpec => []SignInTypeOK
<1>1. SignInInv => SignInTypeOK
  BY DEF SignInInv
<1>2. QED
  BY <1>1, SignInInvariant, PTL

\* However many first sign-ins of a user overlap or fail, the account comes with its
\* default labels, created once (LogIn).
THEOREM LabelsCreatedOnce == SignInSpec => []DefaultsOnce
<1>1. SignInInv => DefaultsOnce
  BY DEF SignInInv
<1>2. QED
  BY <1>1, SignInInvariant, PTL

\* A code gives one token, to the app whose user approved it (ExchangeAuthorizationCode).
THEOREM TokensStayExclusive == SignInSpec => []TokensAreExclusive
<1>1. SignInInv => TokensAreExclusive
  BY DEF SignInInv, ExchangeOK, TokensAreExclusive, TokenForApprover
<1>2. QED
  BY <1>1, SignInInvariant, PTL

\* Only expiry or the redemption takes a code away.
THEOREM LiveCodesAreKept == SignInSpec => LiveCodeKept
<1> DEFINE Kept(r) ==
       \/ r.expires <= time
       \/ \E x \in Exchanges : exchange[x].code = r.code /\ exchange[x].verifier = r.challenge
            /\ exchange[x].step = "locked" /\ exchange'[x].step = "issued"
<1>1. ASSUME SignInInv, NEW a \in Attempts, CommitLogin(a), NEW r \in codes \ codes' PROVE Kept(r)
  <2>1. r \in Expired(login[a].now) /\ login[a].now <= time
    BY <1>1 DEF CommitLogin, SignInInv, LoginOK
  <2>2. r.expires \in Nat /\ login[a].now \in Nat /\ time \in Nat
    BY <1>1 DEF SignInInv, SignInTypeOK, Code, LoginState
  <2>3. QED
    BY <2>1, <2>2 DEF Expired
<1>2. ASSUME SignInInv, NEW x \in Exchanges, CommitExchange(x), NEW r \in codes \ codes' PROVE Kept(r)
  <2>1. PICK q \in exchange[x].row :
          /\ exchange' = [exchange EXCEPT ![x].step = Outcome(q, x).step]
          /\ codes' = IF Outcome(q, x).deleted THEN codes \ {q} ELSE codes
    BY <1>2 DEF CommitExchange
  <2>2. q = r /\ Outcome(r, x).deleted
    BY <1>2, <2>1
  <2>3. exchange'[x].step = Outcome(r, x).step
    BY <1>2, <2>1, <2>2 DEF SignInInv, SignInTypeOK, ExchangeState
  <2>4. /\ r.expires \in Nat /\ exchange[x].now \in Nat /\ time \in Nat /\ exchange[x].now <= time
        /\ exchange[x].step = "locked" /\ exchange[x].code = r.code
    BY <1>2, <2>1, <2>2 DEF SignInInv, SignInTypeOK, Code, ExchangeState, ExchangeOK, CommitExchange
  <2>5. QED
    BY <2>2, <2>3, <2>4 DEF Outcome
<1>3. SignInInv /\ [SignInNext]_signInVars => [\A r \in codes \ codes' : Kept(r)]_signInVars
  <2>1. SUFFICES ASSUME SignInInv, SignInNext, NEW r \in codes \ codes' PROVE Kept(r)
    OBVIOUS
  <2>2. (\E a \in Attempts : CommitLogin(a)) \/ (\E x \in Exchanges : CommitExchange(x))
    BY <2>1 DEF SignInNext, LoginStep, StartLogin, Callback, CallbackRefused, AskProvider, ProviderFails,
                GetOrCreate, Redirect, FailLogin, CookiesExpire, ExchangeStep, SendExchange, LockCode,
                FailExchange, ClockTicks
  <2>3. QED
    BY <1>1, <1>2, <2>1, <2>2
<1>4. QED
  BY <1>3, SignInInvariant, PTL DEF SignInSpec, LiveCodeKept

-----------------------------------------------------------------------------
(* Devices *)

\* A row was stored for a request with its account and key, which has ended since.
StoredFor(row) ==
  /\ <<row.account, row.key>> = Asks(row.id)
  /\ registration[row.id].step \in {"answered", "failed"}

\* The unique constraint of the table.
OneRowPerKey ==
  \A row, other \in devices : row.account = other.account /\ row.key = other.key => row = other

\* A request that inserts has found no row and keeps others with its key from inserting;
\* one that is answered names the row of its key.
RequestOK(c) ==
  LET r == registration[c]
  IN /\ r.step # "idle" => r.account \in Registrants /\ r.key \in Keys
     /\ r.step = "inserted" =>
          /\ RowsOf(c) = {} /\ r.device = c
          /\ \A d \in Registrations : registration[d].step = "inserted" /\ Asks(d) = Asks(c) => d = c
     /\ r.step = "answered" => \E row \in RowsOf(c) : row.id = r.device

DeviceInv ==
  /\ DeviceTypeOK
  /\ \A row \in devices : StoredFor(row)
  /\ OneRowPerKey
  /\ \A c \in Registrations : RequestOK(c)

\* A step of one request that stores nothing.
LEMMA DeviceMoveKeeps ==
  ASSUME DeviceInv, NEW c \in Registrations, NEW r \in RegistrationState,
         registration' = [registration EXCEPT ![c] = r], UNCHANGED devices,
         r.account \in Registrants, r.key \in Keys,
         registration[c].step # "idle" => r.account = registration[c].account /\ r.key = registration[c].key,
         registration[c].step \in {"answered", "failed"} => r.step \in {"answered", "failed"},
         r.step = "inserted" => MayInsert(c) /\ registration[c].step # "idle" /\ RowsOf(c) = {} /\ r.device = c,
         r.step = "answered" => registration[c].step # "idle" /\ \E row \in RowsOf(c) : row.id = r.device
  PROVE  DeviceInv'
<1> USE DEF DeviceInv, DeviceTypeOK
<1>1. /\ registration'[c] = r /\ \A d \in Registrations \ {c} : registration'[d] = registration[d]
      /\ registration' \in [Registrations -> RegistrationState]
  OBVIOUS
<1>2. /\ \A d \in Registrations \ {c} : Asks(d)' = Asks(d) /\ RowsOf(d)' = RowsOf(d)
      /\ registration[c].step # "idle" => Asks(c)' = Asks(c) /\ RowsOf(c)' = RowsOf(c)
  BY <1>1 DEF Asks, RowsOf
<1>3. ASSUME NEW row \in devices PROVE StoredFor(row)'
  <2>1. row.id \in Registrations /\ StoredFor(row)
    BY DEF DeviceRow
  <2>2. QED
    BY <1>1, <1>2, <2>1 DEF StoredFor
<1>4. ASSUME NEW d \in Registrations \ {c} PROVE RequestOK(d)'
  BY <1>1, <1>2 DEF RequestOK, MayInsert
<1>5. RequestOK(c)'
  BY <1>1, <1>2 DEF RequestOK, MayInsert
<1>6. QED
  BY <1>1, <1>3, <1>4, <1>5 DEF OneRowPerKey

\* The commit of an insert: no row has its key, and no other insert of the key goes on.
LEMMA CommitDeviceKeeps ==
  ASSUME DeviceInv, NEW c \in Registrations, CommitDevice(c)
  PROVE  DeviceInv'
<1> USE DEF DeviceInv, DeviceTypeOK
<1> DEFINE new == [id |-> c, account |-> registration[c].account, key |-> registration[c].key]
           r == [registration[c] EXCEPT !.step = "answered"]
<1>1. registration[c] \in RegistrationState /\ registration[c].step = "inserted" /\ RequestOK(c)
  BY DEF CommitDevice
<1>2. /\ registration' = [registration EXCEPT ![c] = r] /\ r \in RegistrationState
      /\ r.step = "answered" /\ r.account = registration[c].account /\ r.key = registration[c].key
      /\ r.device = c
  BY <1>1 DEF CommitDevice, RegistrationState, RequestOK
<1>3. /\ registration'[c] = r /\ \A d \in Registrations \ {c} : registration'[d] = registration[d]
      /\ registration' \in [Registrations -> RegistrationState]
  BY <1>2
<1>4. devices' = devices \union {new} /\ new \in DeviceRow
  BY <1>1 DEF CommitDevice, DeviceRow, RequestOK
<1>5. new.id = c /\ <<new.account, new.key>> = Asks(c) /\ \A d \in Registrations : Asks(d)' = Asks(d)
  BY <1>2, <1>3 DEF Asks
<1> HIDE DEF new, r
<1>6. ASSUME NEW row \in devices' PROVE StoredFor(row)'
  <2>1. CASE row \in devices
    <3>1. row.id \in Registrations /\ StoredFor(row)
      BY <2>1 DEF DeviceRow
    <3>2. QED
      BY <1>2, <1>3, <1>5, <3>1 DEF StoredFor
  <2>2. CASE row = new
    BY <1>2, <1>3, <1>5, <2>2 DEF StoredFor
  <2>3. QED
    BY <1>4, <2>1, <2>2
<1>7. \A row \in devices : <<row.account, row.key>> # <<new.account, new.key>>
  BY <1>1, <1>5 DEF RequestOK, RowsOf
<1>8. OneRowPerKey'
  BY <1>4, <1>7 DEF OneRowPerKey
<1>9. ASSUME NEW d \in Registrations PROVE RequestOK(d)'
  <2>1. RequestOK(d) /\ RowsOf(d) \subseteq RowsOf(d)'
    BY <1>4, <1>5 DEF RowsOf
  <2>2. CASE d = c
    <3>1. new \in RowsOf(c)'
      BY <1>4, <1>5 DEF RowsOf
    <3>2. QED
      BY <1>1, <1>2, <1>3, <1>5, <2>2, <3>1 DEF RequestOK
  <2>3. CASE d # c
    <3>1. registration[d].step = "inserted" => RowsOf(d)' = {}
      <4>1. SUFFICES ASSUME registration[d].step = "inserted" PROVE RowsOf(d)' = {}
        OBVIOUS
      <4>2. RowsOf(d) = {} /\ Asks(d) # Asks(c)
        BY <1>1, <2>1, <2>3, <4>1 DEF RequestOK
      <4>3. QED
        BY <1>4, <1>5, <4>2 DEF RowsOf
    <3>2. QED
      BY <1>2, <1>3, <1>5, <2>1, <2>3, <3>1 DEF RequestOK
  <2>4. QED
    BY <2>2, <2>3
<1>10. QED
  BY <1>3, <1>4, <1>6, <1>8, <1>9

LEMMA DeviceStepKeeps == DeviceInv /\ [DeviceNext]_deviceVars => DeviceInv'
<1> SUFFICES ASSUME DeviceInv, [DeviceNext]_deviceVars PROVE DeviceInv'
  OBVIOUS
<1> USE DEF DeviceInv, DeviceTypeOK
<1>1. \A c \in Registrations : registration[c] \in RegistrationState /\ RequestOK(c)
  OBVIOUS
<1>2. ASSUME NEW c \in Registrations, NEW account \in Registrants, NEW key \in Keys,
             SendRegistration(c, account, key)
      PROVE  DeviceInv'
  <2> DEFINE r == [NewRegistration EXCEPT !.step = "sent", !.account = account, !.key = key]
  <2>1. r \in RegistrationState /\ r.account = account /\ r.key = key /\ r.step = "sent"
    BY DEF NewRegistration, RegistrationState
  <2>2. registration' = [registration EXCEPT ![c] = r] /\ UNCHANGED devices /\ registration[c].step = "idle"
    BY <1>2 DEF SendRegistration
  <2> HIDE DEF r
  <2>3. QED
    BY <2>1, <2>2, DeviceMoveKeeps
<1>3. ASSUME NEW c \in Registrations, InsertDevice(c) PROVE DeviceInv'
  <2> DEFINE r == [registration[c] EXCEPT !.step = IF RowsOf(c) = {} THEN "inserted" ELSE "conflict",
                                          !.device = IF RowsOf(c) = {} THEN c ELSE NoDevice]
  <2>1. /\ registration' = [registration EXCEPT ![c] = r] /\ UNCHANGED devices
        /\ registration[c].step = "sent" /\ MayInsert(c)
    BY <1>1, <1>3 DEF InsertDevice, RegistrationState
  <2>2. r \in RegistrationState /\ r.account = registration[c].account /\ r.key = registration[c].key
    BY <1>1 DEF RegistrationState
  <2>3. r.step \in {"inserted", "conflict"} /\ (r.step = "inserted" => RowsOf(c) = {} /\ r.device = c)
    BY <1>1 DEF RegistrationState
  <2>4. registration[c].account \in Registrants /\ registration[c].key \in Keys
    BY <1>1, <2>1 DEF RequestOK
  <2> HIDE DEF r
  <2>5. QED
    BY <2>1, <2>2, <2>3, <2>4, DeviceMoveKeeps
<1>4. ASSUME NEW c \in Registrations, FindDevice(c) PROVE DeviceInv'
  <2>1. PICK row \in RowsOf(c) :
          registration' = [registration EXCEPT ![c].step = "answered", ![c].device = row.id]
    BY <1>4 DEF FindDevice
  <2> DEFINE r == [registration[c] EXCEPT !.step = "answered", !.device = row.id]
  <2>2. /\ registration' = [registration EXCEPT ![c] = r] /\ UNCHANGED devices
        /\ registration[c].step = "conflict" /\ row.id \in Registrations
    BY <1>1, <1>4, <2>1 DEF FindDevice, RegistrationState, RowsOf, DeviceRow
  <2>3. /\ r \in RegistrationState /\ r.account = registration[c].account /\ r.key = registration[c].key
        /\ r.step = "answered" /\ r.device = row.id
    BY <1>1, <2>2 DEF RegistrationState
  <2>4. registration[c].account \in Registrants /\ registration[c].key \in Keys
    BY <1>1, <2>2 DEF RequestOK
  <2> HIDE DEF r
  <2>5. \E found \in RowsOf(c) : found.id = r.device
    BY <2>3
  <2>6. QED
    BY <2>2, <2>3, <2>4, <2>5, DeviceMoveKeeps
<1>5. ASSUME NEW c \in Registrations, FailRegistration(c) PROVE DeviceInv'
  <2> DEFINE r == [registration[c] EXCEPT !.step = "failed"]
  <2>1. /\ registration' = [registration EXCEPT ![c] = r] /\ UNCHANGED devices
        /\ registration[c].step # "idle"
    BY <1>1, <1>5 DEF FailRegistration, RegistrationState
  <2>2. /\ r \in RegistrationState /\ r.account = registration[c].account /\ r.key = registration[c].key
        /\ r.step = "failed" /\ r.account \in Registrants /\ r.key \in Keys
    BY <1>1, <2>1 DEF RegistrationState, RequestOK
  <2> HIDE DEF r
  <2>3. QED
    BY <2>1, <2>2, DeviceMoveKeeps
<1>6. CASE UNCHANGED deviceVars
  BY <1>6 DEF deviceVars, StoredFor, Asks, OneRowPerKey, RequestOK, RowsOf
<1>7. QED
  BY <1>2, <1>3, <1>4, <1>5, <1>6, CommitDeviceKeeps DEF DeviceNext, Register

\* The unique constraint, the row an answer names and the insert others wait for: the
\* invariant of registering a device.
THEOREM DeviceInvariant == DeviceSpec => []DeviceInv
<1>1. DeviceInit => DeviceInv
  BY DEF DeviceInit, DeviceInv, DeviceTypeOK, NewRegistration, RegistrationState, OneRowPerKey, RequestOK
<1>2. QED
  BY <1>1, DeviceStepKeeps, PTL DEF DeviceSpec

\* Requests of an account with one key are answered with one registered device, and
\* others with another (RegisterDevice).
THEOREM RepeatsNameOneDevice == DeviceSpec => []OneDevicePerKey
<1>1. DeviceInv => OneDevicePerKey
  <2>1. SUFFICES ASSUME DeviceInv, NEW c \in Registrations, NEW d \in Registrations,
                        registration[c].step = "answered", registration[d].step = "answered"
                 PROVE  /\ (registration[c].device = registration[d].device) <=> (Asks(c) = Asks(d))
                        /\ \E row \in devices : row.id = registration[c].device
                                                 /\ <<row.account, row.key>> = Asks(c)
    BY DEF OneDevicePerKey
  <2>2. PICK row \in RowsOf(c) : row.id = registration[c].device
    BY <2>1 DEF DeviceInv, RequestOK
  <2>3. PICK other \in RowsOf(d) : other.id = registration[d].device
    BY <2>1 DEF DeviceInv, RequestOK
  <2>4. /\ row \in devices /\ other \in devices
        /\ <<row.account, row.key>> = Asks(c) /\ <<other.account, other.key>> = Asks(d)
    BY DEF RowsOf
  <2>5. Asks(row.id) = Asks(c) /\ Asks(other.id) = Asks(d)
    BY <2>1, <2>4 DEF DeviceInv, StoredFor
  <2>6. Asks(c) = Asks(d) => row = other
    BY <2>1, <2>4 DEF DeviceInv, OneRowPerKey, Asks
  <2>7. QED
    BY <2>2, <2>3, <2>4, <2>5, <2>6
<1>2. QED
  BY <1>1, DeviceInvariant, PTL
=============================================================================
