------------------------- MODULE LabelConfirmations -------------------------
(***************************************************************************)
(* Confirming labels: one selection that confirms or corrects a choice, or *)
(* a batch that is applied whole or not at all, under the timeline lock of *)
(* the account, while segments change and labels are archived              *)
(* (labeling/application/confirmations.py, domain/confirmations.py).       *)
(*                                                                         *)
(* A segment's id and first event are one name.  A batch of observations   *)
(* does not take the lock (ProcessActivityBatch), so a segment may change  *)
(* between two statements of a confirmation.                               *)
(***************************************************************************)
EXTENDS Integers, Sequences, FiniteSets

CONSTANTS
  Segments,
  Versions,      \* content versions of a closed detailed segment
  LabelIds,       \* labels of the account
  Unclassified,  \* the choice of no label
  Requests,
  Clocks,        \* instants the servers' clocks may show
  MaxReprojections,  \* bound of the segments' changes
  Nothing        \* no such segment or confirmation

\* ActivityLabelConfirmation
Confirmation == [version : Versions, choice : LabelIds \union {Unclassified},
                 confirmedAt : Nat, updatedAt : Nat]

ASSUME ConfirmationsAssumption ==
  /\ Clocks \subseteq Nat /\ Unclassified \notin LabelIds /\ Versions # {}
  /\ Nothing \notin Versions \union Confirmation /\ MaxReprojections \in Nat

VARIABLES
  version,        \* version of each segment that can be labelled
  confirmations,  \* activity_label_confirmations by first event
  archived,       \* archived labels
  request,        \* each request
  reprojections   \* how often a segment changed

confirmVars == <<version, confirmations, archived, request, reprojections>>

Selection == [segment : Segments, version : Versions, choice : LabelIds \union {Unclassified}]

\* `at` is the next selection to validate or save; `saved` the transaction's rows.
RequestState ==
  [step : {"idle", "sent", "validating", "saving", "ok", "refused", "failed"},
   batch : BOOLEAN, selections : Seq(Selection), now : Clocks \union {0}, at : Nat,
   saved : [Segments -> Confirmation \union {Nothing}]]

NoRows == [s \in Segments |-> Nothing]

ConfirmInit ==
  /\ version = [s \in Segments |-> CHOOSE v \in Versions : TRUE]
  /\ confirmations = NoRows
  /\ archived = {}
  /\ request = [r \in Requests |-> [step |-> "idle", batch |-> FALSE, selections |-> <<>>,
                                    now |-> 0, at |-> 1, saved |-> NoRows]]
  /\ reprojections = 0

\* The request is answered, and what its transaction held is gone.
Answered(r, step) ==
  request' = [request EXCEPT ![r] = [@ EXCEPT !.step = step, !.at = 1, !.saved = NoRows]]

-----------------------------------------------------------------------------
(* Requests *)

Duplicated(selections) ==
  \E i, j \in DOMAIN selections : i # j /\ selections[i].segment = selections[j].segment

\* A client sends selections for the versions it has just read; they may have changed
\* when the request is handled. _reject_duplicate_segments, and the clock, come before
\* the transaction.
SendSelections(r, batch, selections, now) ==
  /\ request[r].step = "idle"
  /\ \A i \in DOMAIN selections : selections[i].version = version[selections[i].segment]
  /\ request' = [request EXCEPT ![r] = [@ EXCEPT
       !.step = IF batch /\ Duplicated(selections) THEN "refused" ELSE "sent",
       !.batch = batch, !.selections = selections, !.now = now]]
  /\ UNCHANGED <<version, confirmations, archived, reprojections>>

HasLock(r) == request[r].step \in {"validating", "saving"}

\* ObservationTimeline.lock: the transaction begins and waits for the other writers.
Lock(r) ==
  /\ request[r].step = "sent"
  /\ \A q \in Requests : ~HasLock(q)
  /\ request' = [request EXCEPT ![r].step = "validating", ![r].saved = confirmations]
  /\ UNCHANGED <<version, confirmations, archived, reprojections>>

\* accepts_batch_selection
AcceptsBatch(row, selection) ==
  row = Nothing \/ row.version # selection.version \/ row.choice = selection.choice

Repeats(row, selection) ==
  row # Nothing /\ row.version = selection.version /\ row.choice = selection.choice

Available(choice) == choice = Unclassified \/ choice \notin archived

\* find_labelable_segment and the checks of ConfirmSegmentLabel or _validate: a single
\* selection corrects a choice, a batch only repeats it, even with an archived label.
ValidSelection(r, selection) ==
  LET row == confirmations[selection.segment]
  IN /\ version[selection.segment] = selection.version
     /\ IF request[r].batch
          THEN AcceptsBatch(row, selection) /\ (Repeats(row, selection) \/ Available(selection.choice))
          ELSE Available(selection.choice)

\* One selection is validated; the first invalid one ends the request.
Validate(r) ==
  LET q == request[r]
      valid == ValidSelection(r, q.selections[q.at])
  IN /\ q.step = "validating"
     /\ IF ~valid THEN Answered(r, "refused")
        ELSE IF q.at < Len(q.selections) THEN request' = [request EXCEPT ![r].at = @ + 1]
        ELSE request' = [request EXCEPT ![r].step = "saving", ![r].at = 1]
     /\ UNCHANGED <<version, confirmations, archived, reprojections>>

\* Mutant of ChangedAt: the clock's instant is taken as it is.
ChangedAtNow(row, now) == now

\* The instant of a change is later than that of the last, whatever the clocks say.
ChangedAt(row, now) == IF now > row.updatedAt + 1 THEN now ELSE row.updatedAt + 1

\* apply_selection, or a new confirmation
Applied(row, selection, now) ==
  LET at == ChangedAt(row, now)
  IN IF row = Nothing
       THEN [version |-> selection.version, choice |-> selection.choice,
             confirmedAt |-> now, updatedAt |-> now]
     ELSE IF Repeats(row, selection) THEN row
     ELSE [version |-> selection.version, choice |-> selection.choice,
           confirmedAt |-> IF row.version # selection.version THEN at ELSE row.confirmedAt,
           updatedAt |-> at]

\* SegmentConfirmations.save: a flush, seen by others only after the commit
Save(r) ==
  LET q == request[r]
      selection == q.selections[q.at]
  IN /\ q.step = "saving" /\ q.at <= Len(q.selections)
     /\ request' = [request EXCEPT ![r].at = @ + 1,
          ![r].saved[selection.segment] = Applied(@, selection, q.now)]
     /\ UNCHANGED <<version, confirmations, archived, reprojections>>

\* Mutant of Saved: every selection is committed as soon as it is saved.
SavedSoFar(q) == q.at > 1

\* Every selection is saved.
Saved(q) == q.at > Len(q.selections)

\* The transaction commits the rows it wrote.
CommitSelections(r) ==
  LET q == request[r]
      wrote == {q.selections[i].segment : i \in DOMAIN q.selections}
  IN /\ q.step = "saving" /\ Saved(q)
     /\ confirmations' = [s \in Segments |-> IF s \in wrote THEN q.saved[s] ELSE confirmations[s]]
     /\ Answered(r, "ok")
     /\ UNCHANGED <<version, archived, reprojections>>

\* ActivityTimelineBusyError after three seconds, a lost connection, a crash
FailConfirm(r) ==
  /\ request[r].step \in {"sent", "validating", "saving"}
  /\ Answered(r, "failed")
  /\ UNCHANGED <<version, confirmations, archived, reprojections>>

-----------------------------------------------------------------------------
(* Around them *)

\* A batch of observations commits: a segment changes, or can no longer be labelled.
Reproject(s) ==
  /\ reprojections < MaxReprojections
  /\ \E v \in (Versions \union {Nothing}) \ {version[s]} : version' = [version EXCEPT ![s] = v]
  /\ reprojections' = reprojections + 1
  /\ UNCHANGED <<confirmations, archived, request>>

\* archived_at is set: no code of the repository does so yet.
Archive(l) ==
  /\ archived' = archived \union {l}
  /\ archived # archived'
  /\ UNCHANGED <<version, confirmations, request, reprojections>>

ConfirmStep(r) ==
  \/ \E selection \in Selection, now \in Clocks : SendSelections(r, FALSE, <<selection>>, now)
  \/ \E one, two \in Selection, now \in Clocks :
       (one.segment = two.segment => one = two) /\ SendSelections(r, TRUE, <<one, two>>, now)
  \/ Lock(r) \/ Validate(r) \/ Save(r) \/ CommitSelections(r) \/ FailConfirm(r)

ConfirmNext ==
  \/ \E r \in Requests : ConfirmStep(r)
  \/ \E s \in Segments : Reproject(s)
  \/ \E l \in LabelIds : Archive(l)

ConfirmSpec == ConfirmInit /\ [][ConfirmNext]_confirmVars

-----------------------------------------------------------------------------
(* Properties *)

\* The shape of the state.
ConfirmTypeOK ==
  /\ version \in [Segments -> Versions \union {Nothing}]
  /\ confirmations \in [Segments -> Confirmation \union {Nothing}]
  /\ archived \subseteq LabelIds
  /\ request \in [Requests -> RequestState]
  /\ reprojections \in 0..MaxReprojections

Chosen(row) == <<row.version, row.choice>>

\* A request leaves all of its selections in the table, and nothing else, or no trace at
\* all (ConfirmSegmentLabels), however requests overlap and whatever fails.
AllOrNone ==
  confirmations' # confirmations =>
    \E r \in Requests :
      LET selections == request[r].selections
      IN /\ request[r].step = "saving" /\ request'[r].step = "ok"
         /\ \A i \in DOMAIN selections :
              /\ confirmations'[selections[i].segment] # Nothing
              /\ Chosen(confirmations'[selections[i].segment])
                   = <<selections[i].version, selections[i].choice>>
         /\ \A s \in Segments : confirmations'[s] = confirmations[s]
              \/ \E i \in DOMAIN selections : selections[i].segment = s

\* A batch never overrides a choice made for the same version: only a single selection
\* corrects one (accepts_batch_selection), also when the two run at once.
BatchKeepsChoices ==
  \A r \in Requests :
    request[r].batch /\ request[r].step = "saving" /\ request'[r].step = "ok" =>
      \A s \in Segments :
        confirmations[s] # Nothing /\ confirmations'[s] # Nothing
          /\ confirmations'[s].version = confirmations[s].version
          => confirmations'[s].choice = confirmations[s].choice

\* What a request with selections never does: leave some of them out, change another
\* segment's choice, or, with many, override one (ConfirmSegmentLabels).
BatchesHold == [][AllOrNone /\ BatchKeepsChoices]_confirmVars

\* Every change of a choice is later than the one before, though a clock is read before
\* the lock is waited for and clocks differ; the first confirmation of a version is not
\* later than its last change.
ChangesMoveForward ==
  [][\A s \in Segments :
       confirmations'[s] # confirmations[s] =>
         /\ confirmations'[s].confirmedAt <= confirmations'[s].updatedAt
         /\ confirmations[s] # Nothing => confirmations'[s].updatedAt > confirmations[s].updatedAt]_confirmVars
=============================================================================
