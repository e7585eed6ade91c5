---------------------- MODULE LabelConfirmationsProofs ----------------------
(***************************************************************************)
(* Theorems about LabelConfirmations for every set of segments, versions,  *)
(* labels and requests, and whatever the servers' clocks show.             *)
(***************************************************************************)
EXTENDS LabelConfirmations, TLAPS

\* A batch's selection overrides no choice of the rows as they are committed.
AcceptedAt(q, i) ==
  q.batch => AcceptsBatch(confirmations[q.selections[i].segment], q.selections[i])

\* What the transaction's row of a selection is, before and after it is saved.
SavedAt(q, i) ==
  LET selection == q.selections[i]
      row == confirmations[selection.segment]
  IN q.saved[selection.segment] = IF i < q.at THEN Applied(row, selection, q.now) ELSE row

\* What a request has found while it has the lock is still so in the table.
SelectionsOK(q) ==
  /\ q.at >= 1 /\ (q.step \in {"idle", "sent"} => q.at = 1)
  /\ q.step \in {"sent", "validating", "saving"} => ~Duplicated(q.selections)
  /\ q.step = "validating" =>
       q.saved = confirmations /\ \A i \in DOMAIN q.selections : i < q.at => AcceptedAt(q, i)
  /\ q.step = "saving" => \A i \in DOMAIN q.selections : AcceptedAt(q, i) /\ SavedAt(q, i)

\* The lock of the account's timeline.
OneWriter == \A r, q \in Requests : HasLock(r) /\ HasLock(q) => r = q

\* A choice is not confirmed after its last change.
RowsOrdered ==
  \A s \in Segments : confirmations[s] # Nothing => confirmations[s].confirmedAt <= confirmations[s].updatedAt

ConfirmInv ==
  /\ ConfirmTypeOK
  /\ OneWriter
  /\ RowsOrdered
  /\ \A r \in Requests : SelectionsOK(request[r])

-----------------------------------------------------------------------------
(* Applying a selection *)

\* What a request consists of.
LEMMA RequestFields ==
  ASSUME NEW q \in RequestState
  PROVE  /\ q.at \in Nat /\ q.now \in Nat /\ q.selections \in Seq(Selection)
         /\ q.saved \in [Segments -> Confirmation \union {Nothing}]
         /\ \A i \in DOMAIN q.selections :
              /\ i \in Nat /\ 1 <= i /\ i <= Len(q.selections)
              /\ q.selections[i] \in Selection /\ q.selections[i].segment \in Segments
<1>1. /\ q.at \in Nat /\ q.now \in Clocks \union {0} /\ q.selections \in Seq(Selection)
      /\ q.saved \in [Segments -> Confirmation \union {Nothing}]
  BY DEF RequestState
<1>2. q.now \in Nat
  <2>1. \A clock \in Clocks : clock \in Nat
    BY ConfirmationsAssumption
  <2>2. QED
    BY <1>1, <2>1
<1>3. \A i \in DOMAIN q.selections :
        i \in Nat /\ 1 <= i /\ i <= Len(q.selections) /\ q.selections[i] \in Selection
  BY <1>1
<1>4. \A selection \in Selection : selection.segment \in Segments
  BY DEF Selection
<1>5. QED
  BY <1>1, <1>2, <1>3, <1>4

\* apply_selection returns a row with the selection's choice, changed later than before.
LEMMA AppliedRow ==
  ASSUME NEW row \in Confirmation \union {Nothing}, NEW selection \in Selection, NEW now \in Nat
  PROVE  LET new == Applied(row, selection, now)
         IN /\ new \in Confirmation /\ new # Nothing
            /\ Chosen(new) = <<selection.version, selection.choice>>
            /\ (row # Nothing => row.confirmedAt <= row.updatedAt) => new.confirmedAt <= new.updatedAt
            /\ row # Nothing /\ new # row => new.updatedAt > row.updatedAt
<1> USE ConfirmationsAssumption DEF Confirmation, Selection
<1> DEFINE new == Applied(row, selection, now)
           at == ChangedAt(row, now)
<1>1. CASE row = Nothing
  BY <1>1 DEF Applied, Chosen
<1>2. CASE row # Nothing /\ Repeats(row, selection)
  BY <1>2 DEF Applied, Repeats, Chosen
<1>3. CASE row # Nothing /\ ~Repeats(row, selection)
  <2>1. at \in Nat /\ at > row.updatedAt
    BY <1>3 DEF ChangedAt
  <2>2. new = [version |-> selection.version, choice |-> selection.choice,
               confirmedAt |-> IF row.version # selection.version THEN at ELSE row.confirmedAt,
               updatedAt |-> at]
    BY <1>3 DEF Applied
  <2> HIDE DEF at, new
  <2>3. new \in Confirmation /\ new.updatedAt = at /\ Chosen(new) = <<selection.version, selection.choice>>
    BY <1>3, <2>1, <2>2 DEF Chosen
  <2>4. new.confirmedAt = at \/ new.confirmedAt = row.confirmedAt
    BY <2>2
  <2>5. QED
    BY <1>3, <2>1, <2>3, <2>4 DEF new
<1>4. QED
  BY <1>1, <1>2, <1>3

-----------------------------------------------------------------------------
(* The steps *)

\* A step of one request that commits nothing.
LEMMA SelectionsMoveKeeps ==
  ASSUME ConfirmInv, NEW r \in Requests, NEW q \in RequestState, SelectionsOK(q),
         request' = [request EXCEPT ![r] = q],
         UNCHANGED <<version, confirmations, archived, reprojections>>,
         q.step \in {"validating", "saving"} => HasLock(r) \/ \A p \in Requests : ~HasLock(p)
  PROVE  ConfirmInv'
<1> USE DEF ConfirmInv, ConfirmTypeOK
<1>1. /\ request'[r] = q /\ \A p \in Requests \ {r} : request'[p] = request[p]
      /\ request' \in [Requests -> RequestState]
  OBVIOUS
<1>2. OneWriter'
  BY <1>1 DEF OneWriter, HasLock
<1>3. RowsOrdered'
  BY DEF RowsOrdered
<1>4. ASSUME NEW p \in Requests PROVE SelectionsOK(request[p])'
  BY <1>1 DEF SelectionsOK, AcceptedAt, SavedAt
<1>5. QED
  BY <1>1, <1>2, <1>3, <1>4

\* An answer, and what the request held forgotten.
LEMMA AnsweredKeeps ==
  ASSUME ConfirmInv, NEW r \in Requests, NEW step \in {"ok", "refused", "failed"}, Answered(r, step),
         UNCHANGED <<version, confirmations, archived, reprojections>>
  PROVE  ConfirmInv'
<1> DEFINE q == [request[r] EXCEPT !.step = step, !.at = 1, !.saved = NoRows]
<1>1. request' = [request EXCEPT ![r] = q]
  BY DEF Answered
<1>2. q \in RequestState /\ q.step = step /\ q.at = 1
  BY DEF ConfirmInv, ConfirmTypeOK, RequestState, NoRows
<1> HIDE DEF q
<1>3. SelectionsOK(q)
  BY <1>2 DEF SelectionsOK
<1>4. QED
  BY <1>1, <1>2, <1>3, SelectionsMoveKeeps

LEMMA SendKeepsConfirm ==
  ASSUME ConfirmInv, NEW r \in Requests, NEW batch \in BOOLEAN, NEW selections \in Seq(Selection),
         NEW now \in Clocks, SendSelections(r, batch, selections, now),
         batch \/ ~Duplicated(selections)
  PROVE  ConfirmInv'
<1> DEFINE step == IF batch /\ Duplicated(selections) THEN "refused" ELSE "sent"
           q == [request[r] EXCEPT !.step = step, !.batch = batch, !.selections = selections, !.now = now]
<1>1. request[r] \in RequestState /\ SelectionsOK(request[r])
  BY DEF ConfirmInv, ConfirmTypeOK
<1>2. /\ request' = [request EXCEPT ![r] = q] /\ request[r].step = "idle"
      /\ UNCHANGED <<version, confirmations, archived, reprojections>>
  BY DEF SendSelections
<1>3. step \in {"refused", "sent"} /\ (step = "sent" => ~Duplicated(selections))
  OBVIOUS
<1> HIDE DEF step
<1>4. q \in RequestState /\ q.step = step /\ q.at = request[r].at /\ q.selections = selections
  BY <1>1, <1>3 DEF RequestState
<1> HIDE DEF q
<1>5. SelectionsOK(q)
  BY <1>1, <1>2, <1>3, <1>4 DEF SelectionsOK
<1>6. QED
  BY <1>2, <1>3, <1>4, <1>5, SelectionsMoveKeeps

\* A client's selections are one, or two of which a segment has one choice at most.
LEMMA SentSelections ==
  ASSUME ConfirmInv, NEW r \in Requests,
         \/ \E selection \in Selection, now \in Clocks : SendSelections(r, FALSE, <<selection>>, now)
         \/ \E one, two \in Selection, now \in Clocks :
              (one.segment = two.segment => one = two) /\ SendSelections(r, TRUE, <<one, two>>, now)
  PROVE  ConfirmInv'
<1>1. \A selection \in Selection : <<selection>> \in Seq(Selection) /\ ~Duplicated(<<selection>>)
  BY DEF Duplicated
<1>2. \A one, two \in Selection : <<one, two>> \in Seq(Selection)
  OBVIOUS
<1>3. QED
  BY <1>1, <1>2, SendKeepsConfirm

LEMMA LockKeepsConfirm ==
  ASSUME ConfirmInv, NEW r \in Requests, Lock(r)
  PROVE  ConfirmInv'
<1> DEFINE q == [request[r] EXCEPT !.step = "validating", !.saved = confirmations]
<1>1. /\ request[r] \in RequestState /\ SelectionsOK(request[r])
      /\ confirmations \in [Segments -> Confirmation \union {Nothing}]
  BY DEF ConfirmInv, ConfirmTypeOK
<1>2. /\ request' = [request EXCEPT ![r] = q] /\ request[r].step = "sent"
      /\ UNCHANGED <<version, confirmations, archived, reprojections>>
      /\ \A p \in Requests : ~HasLock(p)
  BY DEF Lock
<1>3. /\ q \in RequestState /\ q.step = "validating" /\ q.at = request[r].at
      /\ q.selections = request[r].selections /\ q.saved = confirmations /\ q.batch = request[r].batch
  BY <1>1 DEF RequestState
<1> HIDE DEF q
<1>4. SelectionsOK(q)
  BY <1>1, <1>2, <1>3, RequestFields DEF SelectionsOK
<1>5. QED
  BY <1>2, <1>3, <1>4, SelectionsMoveKeeps

\* The selection that is validated next is accepted, and remains so.
LEMMA ValidateKeeps ==
  ASSUME ConfirmInv, NEW r \in Requests, Validate(r)
  PROVE  ConfirmInv'
<1> DEFINE q == request[r]
           valid == ValidSelection(r, q.selections[q.at])
<1>1. /\ q \in RequestState /\ SelectionsOK(q) /\ q.step = "validating" /\ HasLock(r)
      /\ UNCHANGED <<version, confirmations, archived, reprojections>>
  BY DEF ConfirmInv, ConfirmTypeOK, Validate, HasLock
<1>2. q.at \in Nat /\ q.selections \in Seq(Selection)
  BY <1>1 DEF RequestState
<1>3. valid => AcceptedAt(q, q.at)
  BY DEF ValidSelection, AcceptedAt
<1> HIDE DEF valid
<1>4. CASE ~valid
  <2>1. Answered(r, "refused")
    BY <1>4 DEF Validate, valid
  <2>2. QED
    BY <1>1, <2>1, AnsweredKeeps
<1>5. CASE valid /\ q.at < Len(q.selections)
  <2> DEFINE next == [request[r] EXCEPT !.at = q.at + 1]
  <2>1. request' = [request EXCEPT ![r] = next]
    BY <1>5 DEF Validate, valid
  <2>2. /\ next \in RequestState /\ next.step = "validating" /\ next.at = q.at + 1
        /\ next.selections = q.selections /\ next.saved = q.saved /\ next.batch = q.batch
    BY <1>1, <1>2 DEF RequestState
  <2> HIDE DEF next
  <2>3. SelectionsOK(next)
    <3>1. \A i \in DOMAIN q.selections : i < q.at + 1 => AcceptedAt(next, i)
      BY <1>1, <1>2, <1>3, <1>5, <2>2 DEF SelectionsOK, AcceptedAt
    <3>2. QED
      BY <1>1, <1>2, <2>2, <3>1 DEF SelectionsOK
  <2>4. QED
    BY <1>1, <2>1, <2>2, <2>3, SelectionsMoveKeeps
<1>6. CASE valid /\ ~(q.at < Len(q.selections))
  <2> DEFINE next == [request[r] EXCEPT !.step = "saving", !.at = 1]
  <2>1. request' = [request EXCEPT ![r] = next]
    BY <1>6 DEF Validate, valid
  <2>2. /\ next \in RequestState /\ next.step = "saving" /\ next.at = 1
        /\ next.selections = q.selections /\ next.saved = q.saved /\ next.batch = q.batch
    BY <1>1 DEF RequestState
  <2> HIDE DEF next
  <2>3. \A i \in DOMAIN q.selections : AcceptedAt(q, i)
    <3>1. \A i \in DOMAIN q.selections : i \in Nat /\ (i < q.at \/ i = q.at)
      BY <1>2, <1>6
    <3>2. QED
      BY <1>1, <1>3, <1>6, <3>1 DEF SelectionsOK
  <2>4. ASSUME NEW i \in DOMAIN q.selections PROVE AcceptedAt(next, i) /\ SavedAt(next, i)
    <3>1. AcceptedAt(next, i)
      BY <2>2, <2>3 DEF AcceptedAt
    <3>2. i \in 1..Len(q.selections) /\ ~(i < 1)
      BY <1>2
    <3>3. QED
      BY <1>1, <2>2, <3>1, <3>2 DEF SavedAt, SelectionsOK
  <2>5. SelectionsOK(next)
    BY <1>1, <2>2, <2>4 DEF SelectionsOK
  <2>6. QED
    BY <1>1, <2>1, <2>2, <2>5, SelectionsMoveKeeps
<1>7. QED
  BY <1>4, <1>5, <1>6

\* One selection is saved in the transaction; the segments of the others are others.
LEMMA SaveKeeps ==
  ASSUME ConfirmInv, NEW r \in Requests, Save(r)
  PROVE  ConfirmInv'
<1> DEFINE q == request[r]
           selection == q.selections[q.at]
           row == q.saved[selection.segment]
           next == [request[r] EXCEPT !.at = q.at + 1,
                      !.saved = [q.saved EXCEPT ![selection.segment] = Applied(row, selection, q.now)]]
<1>1. /\ q \in RequestState /\ SelectionsOK(q) /\ q.step = "saving" /\ HasLock(r)
      /\ q.at <= Len(q.selections)
      /\ UNCHANGED <<version, confirmations, archived, reprojections>>
  BY DEF ConfirmInv, ConfirmTypeOK, Save, HasLock
<1>2. /\ q.at \in Nat /\ q.selections \in Seq(Selection) /\ q.now \in Nat
      /\ q.saved \in [Segments -> Confirmation \union {Nothing}]
  BY <1>1, RequestFields
<1>3. q.at \in DOMAIN q.selections /\ selection \in Selection /\ selection.segment \in Segments
  <2>1. q.at \in 1..Len(q.selections)
    BY <1>1, <1>2 DEF SelectionsOK
  <2>2. QED
    BY <1>1, <1>2, <2>1, RequestFields
<1>4. Applied(row, selection, q.now) \in Confirmation
  BY <1>2, <1>3, AppliedRow
<1>5. request' = [request EXCEPT ![r] = next]
  BY <1>1, <1>2, <1>3 DEF Save, RequestState, ConfirmInv, ConfirmTypeOK
<1>6. /\ next \in RequestState /\ next.step = "saving" /\ next.at = q.at + 1
      /\ next.selections = q.selections /\ next.batch = q.batch /\ next.now = q.now
  <2>1. [q.saved EXCEPT ![selection.segment] = Applied(row, selection, q.now)]
          \in [Segments -> Confirmation \union {Nothing}]
    BY <1>2, <1>3, <1>4
  <2>2. q.at + 1 \in Nat
    BY <1>2
  <2>3. QED
    BY <1>1, <2>1, <2>2 DEF RequestState
<1>7. /\ next.saved[selection.segment] = Applied(row, selection, q.now)
      /\ \A s \in Segments : s # selection.segment => next.saved[s] = q.saved[s]
  BY <1>1, <1>2, <1>3 DEF RequestState
<1> HIDE DEF next
<1>8. ASSUME NEW i \in DOMAIN q.selections PROVE AcceptedAt(next, i) /\ SavedAt(next, i)
  <2>1. AcceptedAt(next, i)
    BY <1>1, <1>6, <1>8 DEF AcceptedAt, SelectionsOK
  <2>2. i \in Nat /\ q.selections[i] \in Selection /\ q.selections[i].segment \in Segments /\ SavedAt(q, i)
    BY <1>1, RequestFields DEF SelectionsOK
  <2>3. CASE i = q.at
    <3>1. row = confirmations[selection.segment]
      BY <1>2, <2>2, <2>3 DEF SavedAt
    <3>2. QED
      BY <1>2, <1>6, <1>7, <2>1, <2>3, <3>1 DEF SavedAt
  <2>4. CASE i # q.at
    <3>1. q.selections[i].segment # selection.segment
      BY <1>1, <1>3, <2>4 DEF SelectionsOK, Duplicated
    <3>2. (i < q.at + 1) <=> (i < q.at)
      BY <1>2, <2>2, <2>4
    <3>3. QED
      BY <1>6, <1>7, <2>1, <2>2, <3>1, <3>2 DEF SavedAt
  <2>5. QED
    BY <2>3, <2>4
<1>9. SelectionsOK(next)
  BY <1>1, <1>2, <1>6, <1>8 DEF SelectionsOK
<1>10. QED
  BY <1>1, <1>5, <1>6, <1>9, SelectionsMoveKeeps

-----------------------------------------------------------------------------
(* The commit *)

\* The commit writes each selection's row, applied to the one that is there, and no other.
LEMMA CommitWrites ==
  ASSUME ConfirmInv, NEW r \in Requests, CommitSelections(r)
  PROVE  LET q == request[r]
         IN /\ q \in RequestState /\ q.step = "saving" /\ SelectionsOK(q) /\ HasLock(r)
            /\ \A i \in DOMAIN q.selections :
                 LET selection == q.selections[i]
                 IN /\ selection \in Selection /\ selection.segment \in Segments
                    /\ confirmations'[selection.segment]
                         = Applied(confirmations[selection.segment], selection, q.now)
            /\ \A s \in Segments : confirmations'[s] = confirmations[s]
                 \/ \E i \in DOMAIN q.selections : q.selections[i].segment = s
<1> DEFINE q == request[r]
           wrote == {q.selections[i].segment : i \in DOMAIN q.selections}
<1>1. /\ q \in RequestState /\ SelectionsOK(q) /\ q.step = "saving" /\ q.at > Len(q.selections)
      /\ confirmations' = [s \in Segments |-> IF s \in wrote THEN q.saved[s] ELSE confirmations[s]]
  BY DEF ConfirmInv, ConfirmTypeOK, CommitSelections, Saved
<1>2. q.at \in Nat /\ q.selections \in Seq(Selection)
  BY <1>1 DEF RequestState
<1>3. ASSUME NEW i \in DOMAIN q.selections
      PROVE  LET selection == q.selections[i]
             IN /\ selection \in Selection /\ selection.segment \in Segments
                /\ confirmations'[selection.segment]
                     = Applied(confirmations[selection.segment], selection, q.now)
  <2>1. i \in Nat /\ i < q.at /\ q.selections[i] \in Selection /\ q.selections[i].segment \in Segments
    BY <1>1, <1>2, RequestFields
  <2>2. q.selections[i].segment \in wrote /\ SavedAt(q, i)
    BY <1>1 DEF SelectionsOK
  <2>3. QED
    BY <1>1, <2>1, <2>2 DEF SavedAt
<1>4. \A s \in Segments : s \notin wrote => confirmations'[s] = confirmations[s]
  BY <1>1
<1>5. QED
  BY <1>1, <1>3, <1>4 DEF HasLock

\* What it makes of a segment: nothing, or a row with a selection's choice, changed later.
LEMMA CommittedRow ==
  ASSUME ConfirmInv, NEW r \in Requests, CommitSelections(r), NEW s \in Segments
  PROVE  \/ confirmations'[s] = confirmations[s]
         \/ \E i \in DOMAIN request[r].selections :
              /\ request[r].selections[i].segment = s
              /\ confirmations'[s] \in Confirmation /\ confirmations'[s] # Nothing
              /\ Chosen(confirmations'[s]) = <<request[r].selections[i].version, request[r].selections[i].choice>>
              /\ confirmations'[s].confirmedAt <= confirmations'[s].updatedAt
              /\ confirmations[s] # Nothing /\ confirmations'[s] # confirmations[s]
                   => confirmations'[s].updatedAt > confirmations[s].updatedAt
<1> DEFINE q == request[r]
<1>1. SUFFICES ASSUME NEW i \in DOMAIN q.selections, q.selections[i].segment = s
               PROVE  /\ confirmations'[s] \in Confirmation /\ confirmations'[s] # Nothing
                      /\ Chosen(confirmations'[s]) = <<q.selections[i].version, q.selections[i].choice>>
                      /\ confirmations'[s].confirmedAt <= confirmations'[s].updatedAt
                      /\ confirmations[s] # Nothing /\ confirmations'[s] # confirmations[s]
                           => confirmations'[s].updatedAt > confirmations[s].updatedAt
  BY CommitWrites
<1>2. /\ q.selections[i] \in Selection /\ q \in RequestState
      /\ confirmations'[s] = Applied(confirmations[s], q.selections[i], q.now)
  BY <1>1, CommitWrites
<1>3. q.now \in Nat
  BY <1>2, RequestFields
<1>4. /\ confirmations[s] \in Confirmation \union {Nothing}
      /\ confirmations[s] # Nothing => confirmations[s].confirmedAt <= confirmations[s].updatedAt
  BY DEF ConfirmInv, ConfirmTypeOK, RowsOrdered
<1> DEFINE new == Applied(confirmations[s], q.selections[i], q.now)
<1>5. /\ new \in Confirmation /\ new # Nothing
      /\ Chosen(new) = <<q.selections[i].version, q.selections[i].choice>>
      /\ new.confirmedAt <= new.updatedAt
      /\ confirmations[s] # Nothing /\ new # confirmations[s] => new.updatedAt > confirmations[s].updatedAt
  BY <1>2, <1>3, <1>4, AppliedRow
<1>6. QED
  BY <1>2, <1>5

LEMMA CommitKeeps ==
  ASSUME ConfirmInv, NEW r \in Requests, CommitSelections(r)
  PROVE  ConfirmInv'
<1> USE DEF ConfirmInv, ConfirmTypeOK
<1> DEFINE q == [request[r] EXCEPT !.step = "ok", !.at = 1, !.saved = NoRows]
<1>1. /\ request' = [request EXCEPT ![r] = q] /\ UNCHANGED <<version, archived, reprojections>>
      /\ HasLock(r)
  BY DEF CommitSelections, Answered, HasLock
<1>2. q \in RequestState /\ q.step = "ok" /\ q.at = 1
  BY DEF RequestState, NoRows
<1>3. request'[r] = q /\ \A p \in Requests \ {r} : request'[p] = request[p]
  BY <1>1
<1>4. request' \in [Requests -> RequestState]
  BY <1>1, <1>2
<1> HIDE DEF q
<1>5. confirmations' \in [Segments -> Confirmation \union {Nothing}]
  <2>1. confirmations' = [s \in Segments |-> confirmations'[s]]
    BY DEF CommitSelections
  <2>2. \A s \in Segments : confirmations'[s] \in Confirmation \union {Nothing}
    BY CommittedRow
  <2>3. QED
    BY <2>1, <2>2
<1>6. RowsOrdered'
  <2>1. \A s \in Segments : confirmations'[s] = confirmations[s]
                              \/ confirmations'[s].confirmedAt <= confirmations'[s].updatedAt
    BY CommittedRow
  <2>2. QED
    BY <2>1 DEF RowsOrdered
<1>7. OneWriter'
  BY <1>2, <1>3 DEF OneWriter, HasLock
<1>8. ASSUME NEW p \in Requests PROVE SelectionsOK(request[p])'
  <2>1. CASE p = r
    BY <1>2, <1>3, <2>1 DEF SelectionsOK
  <2>2. CASE p # r
    <3>1. request[p].step \notin {"validating", "saving"}
      BY <1>1, <2>2 DEF OneWriter, HasLock
    <3>2. QED
      BY <1>3, <2>2, <3>1 DEF SelectionsOK
  <2>3. QED
    BY <2>1, <2>2
<1>9. QED
  BY <1>1, <1>4, <1>5, <1>6, <1>7, <1>8

-----------------------------------------------------------------------------
(* The theorems *)

LEMMA ConfirmStart == ConfirmInit => ConfirmInv
<1> SUFFICES ASSUME ConfirmInit PROVE ConfirmInv
  OBVIOUS
<1> USE ConfirmationsAssumption DEF ConfirmInit
<1>1. (CHOOSE v \in Versions : TRUE) \in Versions
  OBVIOUS
<1>2. ConfirmTypeOK
  BY <1>1 DEF ConfirmTypeOK, NoRows, RequestState
<1>3. QED
  BY <1>2 DEF ConfirmInv, OneWriter, HasLock, RowsOrdered, NoRows, SelectionsOK

LEMMA ConfirmStepKeeps == ConfirmInv /\ [ConfirmNext]_confirmVars => ConfirmInv'
<1> SUFFICES ASSUME ConfirmInv, [ConfirmNext]_confirmVars PROVE ConfirmInv'
  OBVIOUS
<1>1. ASSUME NEW r \in Requests, ConfirmStep(r) PROVE ConfirmInv'
  <2>1. ASSUME FailConfirm(r) PROVE ConfirmInv'
    BY <2>1, AnsweredKeeps DEF FailConfirm
  <2>2. QED
    BY <1>1, <2>1, SentSelections, LockKeepsConfirm, ValidateKeeps, SaveKeeps, CommitKeeps DEF ConfirmStep
<1>2. ASSUME UNCHANGED <<confirmations, request>>, ConfirmTypeOK' PROVE ConfirmInv'
  BY <1>2 DEF ConfirmInv, OneWriter, HasLock, RowsOrdered, SelectionsOK, AcceptedAt, SavedAt
<1>3. ASSUME NEW s \in Segments, Reproject(s) PROVE ConfirmInv'
  BY <1>2, <1>3, ConfirmationsAssumption DEF Reproject, ConfirmInv, ConfirmTypeOK
<1>4. ASSUME NEW l \in LabelIds, Archive(l) PROVE ConfirmInv'
  BY <1>2, <1>4 DEF Archive, ConfirmInv, ConfirmTypeOK
<1>5. CASE UNCHANGED confirmVars
  BY <1>2, <1>5 DEF confirmVars, ConfirmInv, ConfirmTypeOK
<1>6. QED
  BY <1>1, <1>3, <1>4, <1>5 DEF ConfirmNext

\* What a request finds and saves under the lock is still so when it commits: the
\* invariant of confirming labels.
THEOREM ConfirmInvariant == ConfirmSpec => []ConfirmInv
<1>1. QED
  BY ConfirmStart, ConfirmStepKeeps, PTL DEF ConfirmSpec

\* The state of confirming labels keeps its shape.
THEOREM ConfirmTypeCorrect == ConfirmSpec => []ConfirmTypeOK
<1>1. ConfirmInv => ConfirmTypeOK
  BY DEF ConfirmInv
<1>2. QED
  BY <1>1, ConfirmInvariant, PTL

\* The only step that commits a request's selections, or writes rows, is its commit.
LEMMA OnlyCommitsWrite ==
  ASSUME ConfirmInv, [ConfirmNext]_confirmVars,
         NEW r \in Requests, request[r].step = "saving", request'[r].step = "ok"
  PROVE  CommitSelections(r)
<1> USE DEF ConfirmInv, ConfirmTypeOK
<1>1. \A p \in Requests : \A step : Answered(p, step) => (p = r /\ request'[r].step = step) \/ request'[r] = request[r]
  BY DEF Answered, RequestState
<1>2. PICK p \in Requests : ConfirmStep(p)
  BY DEF ConfirmNext, confirmVars, Reproject, Archive
<1>3. CASE p # r
  BY <1>2, <1>3 DEF ConfirmStep, SendSelections, Lock, Validate, Save, CommitSelections, FailConfirm, Answered
<1>4. CASE p = r
  <2>1. ~Save(r)
    BY DEF Save, RequestState
  <2>2. ~FailConfirm(r)
    BY <1>1 DEF FailConfirm
  <2>3. QED
    BY <1>2, <1>4, <2>1, <2>2 DEF ConfirmStep, SendSelections, Lock, Validate
<1>5. QED
  BY <1>3, <1>4

LEMMA WritesAreCommits ==
  ASSUME [ConfirmNext]_confirmVars, confirmations' # confirmations
  PROVE  \E r \in Requests : CommitSelections(r)
BY DEF ConfirmNext, confirmVars, ConfirmStep, SendSelections, Lock, Validate, Save, FailConfirm,
       Reproject, Archive

LEMMA CommitIsWhole == ConfirmInv /\ [ConfirmNext]_confirmVars => AllOrNone
<1>1. SUFFICES ASSUME ConfirmInv, NEW r \in Requests, CommitSelections(r)
               PROVE  LET selections == request[r].selections
                      IN /\ request[r].step = "saving" /\ request'[r].step = "ok"
                         /\ \A i \in DOMAIN selections :
                              /\ confirmations'[selections[i].segment] # Nothing
                              /\ Chosen(confirmations'[selections[i].segment])
                                   = <<selections[i].version, selections[i].choice>>
                         /\ \A s \in Segments : confirmations'[s] = confirmations[s]
                              \/ \E i \in DOMAIN selections : selections[i].segment = s
  BY WritesAreCommits DEF AllOrNone
<1> DEFINE q == request[r]
<1>2. q.step = "saving" /\ request'[r].step = "ok"
  BY <1>1 DEF CommitSelections, Answered, ConfirmInv, ConfirmTypeOK, RequestState
<1>3. ASSUME NEW i \in DOMAIN q.selections
      PROVE  /\ confirmations'[q.selections[i].segment] # Nothing
             /\ Chosen(confirmations'[q.selections[i].segment]) = <<q.selections[i].version, q.selections[i].choice>>
  <2> DEFINE s == q.selections[i].segment
  <2>1. /\ q \in RequestState /\ q.selections[i] \in Selection /\ s \in Segments
        /\ confirmations'[s] = Applied(confirmations[s], q.selections[i], q.now)
    BY <1>1, CommitWrites
  <2>2. q.now \in Nat /\ confirmations[s] \in Confirmation \union {Nothing}
    BY <1>1, <2>1, RequestFields DEF ConfirmInv, ConfirmTypeOK
  <2> DEFINE new == Applied(confirmations[s], q.selections[i], q.now)
  <2>3. new # Nothing /\ Chosen(new) = <<q.selections[i].version, q.selections[i].choice>>
    BY <2>1, <2>2, AppliedRow
  <2>4. QED
    BY <2>1, <2>3
<1>4. QED
  BY <1>1, <1>2, <1>3, CommitWrites

LEMMA BatchOverridesNone == ConfirmInv /\ [ConfirmNext]_confirmVars => BatchKeepsChoices
<1>1. SUFFICES ASSUME ConfirmInv, NEW r \in Requests, CommitSelections(r), request[r].batch, NEW s \in Segments,
                      confirmations[s] # Nothing, confirmations'[s] # Nothing,
                      confirmations'[s].version = confirmations[s].version,
                      confirmations'[s] # confirmations[s]
               PROVE  confirmations'[s].choice = confirmations[s].choice
  BY OnlyCommitsWrite DEF BatchKeepsChoices
<1>2. PICK i \in DOMAIN request[r].selections :
        /\ request[r].selections[i].segment = s
        /\ Chosen(confirmations'[s]) = <<request[r].selections[i].version, request[r].selections[i].choice>>
  BY <1>1, CommittedRow
<1>3. AcceptedAt(request[r], i)
  BY <1>1, CommitWrites DEF SelectionsOK
<1>4. QED
  BY <1>1, <1>2, <1>3 DEF AcceptedAt, AcceptsBatch, Chosen

\* A request's selections are committed whole, and a batch overrides no choice
\* (ConfirmSegmentLabels), whatever runs beside it and however the segments change.
THEOREM BatchesAreHeld == ConfirmSpec => BatchesHold
<1>1. ConfirmInv /\ [ConfirmNext]_confirmVars => [AllOrNone /\ BatchKeepsChoices]_confirmVars
  BY CommitIsWhole, BatchOverridesNone
<1>2. QED
  BY <1>1, ConfirmInvariant, PTL DEF ConfirmSpec, BatchesHold

\* A choice is changed later than before, whatever the clocks show (apply_selection).
THEOREM ChangesAreLater == ConfirmSpec => ChangesMoveForward
<1> DEFINE Later(s) ==
       confirmations'[s] # confirmations[s] =>
         /\ confirmations'[s].confirmedAt <= confirmations'[s].updatedAt
         /\ confirmations[s] # Nothing => confirmations'[s].updatedAt > confirmations[s].updatedAt
<1>1. ASSUME ConfirmInv, [ConfirmNext]_confirmVars, NEW s \in Segments PROVE Later(s)
  BY <1>1, WritesAreCommits, CommittedRow
<1>2. ConfirmInv /\ [ConfirmNext]_confirmVars => [\A s \in Segments : Later(s)]_confirmVars
  BY <1>1
<1>3. QED
  BY <1>2, ConfirmInvariant, PTL DEF ConfirmSpec, ChangesMoveForward
=============================================================================
