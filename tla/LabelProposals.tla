--------------------------- MODULE LabelProposals ---------------------------
(***************************************************************************)
(* AI label proposals of one account (src/mosemo/labeling): workers claim  *)
(* an attempt under a lease, ask the suggester outside any transaction and *)
(* record the outcome, while the user confirms labels, the observation     *)
(* side rewrites segments and labels are archived.                         *)
(*                                                                         *)
(* The account timeline lock is a transaction-level advisory lock, so the  *)
(* one open transaction that holds it is the variable tx.  The first read  *)
(* of a transaction (the segment) and its commit are separate steps; what  *)
(* only locked transactions write cannot change in between.  Time is a     *)
(* countdown: lease and retry hold the time units left until               *)
(* lease_expires_at and next_attempt_at.                                   *)
(***************************************************************************)
EXTENDS Naturals, FiniteSets

CONSTANTS
  Segment,        \* segments, named by their first event
  Version,        \* content versions a segment can have
  Label,          \* the account's labels
  Worker,         \* processes running ProposeLabel.execute
  MaxAttempts,    \* MAX_PROPOSAL_ATTEMPTS
  RetryDelay,     \* PROPOSAL_RETRY_DELAYS, by attempt number
  LeaseDuration,  \* PROPOSAL_LEASE_DURATION
  KafkaPath,      \* whether batches arrive through Kafka: its Executor takes no lock
  NoVersion,      \* no closed detailed segment starts at this event
  Unclassified,   \* label_id = None
  Failed,         \* the suggestion raised
  NoOne           \* no worker

ASSUME ConstantsAssumption ==
  /\ Segment # {}
  /\ MaxAttempts \in Nat \ {0}
  /\ RetryDelay \in [1..(MaxAttempts - 1) -> Nat]
  /\ LeaseDuration \in Nat \ {0}
  /\ KafkaPath \in BOOLEAN
  /\ NoVersion \notin Version
  /\ Unclassified \notin Label
  /\ Failed \notin Label \union {Unclassified}
  /\ NoOne \notin Worker

VARIABLES
  current,    \* current[s]: version of the closed detailed segment, or NoVersion
  active,     \* labels that are not archived
  proposal,   \* proposal[<<s, v>>]: the row of activity_label_proposals
  confirmed,  \* confirmed[s]: the row of activity_label_confirmations
  attempt,    \* attempt[w]: the local state of ProposeLabel.execute
  tx          \* the open transaction holding the account timeline lock

vars == <<current, active, proposal, confirmed, attempt, tx>>

-----------------------------------------------------------------------------
(* Rows and local state *)

Choice == Label \union {Unclassified}
MaybeVersion == Version \union {NoVersion}

Proposal ==
  [status : {"absent", "processing", "failed", "ready", "superseded"},
   attempts : 0..MaxAttempts,      \* attempt_count
   token : 0..MaxAttempts,         \* lease_token, named by the attempt it was drawn for; 0 is None
   lease : Nat, retry : Nat,
   label : Choice]                 \* suggested_label_id, meaningful when ready

Absent == [status |-> "absent", attempts |-> 0, token |-> 0,
           lease |-> 0, retry |-> 0, label |-> Unclassified]

Confirmation == [version : MaybeVersion, label : Choice]
Unconfirmed == [version |-> NoVersion, label |-> Unclassified]

\* The version of an idle or candidate worker, and the segment of an idle one,
\* are left over from its previous attempt and never read.
Attempt ==
  [pc : {"idle", "candidate", "claimed", "asking", "answered"},
   segment : Segment, version : MaybeVersion, token : 0..MaxAttempts,
   offered : SUBSET Label, answer : Choice \union {Failed}]

Tx == [kind : {"none", "claim", "finish", "confirm"}, by : Worker \union {NoOne},
       segment : Segment, seen : MaybeVersion, label : Choice]

NoTx == [kind |-> "none", by |-> NoOne, segment |-> CHOOSE s \in Segment : TRUE,
         seen |-> NoVersion, label |-> Unclassified]

Idle == [pc |-> "idle", segment |-> CHOOSE s \in Segment : TRUE, version |-> NoVersion,
         token |-> 0, offered |-> {}, answer |-> Failed]

Locked == tx.kind # "none"

TypeOK ==
  /\ current \in [Segment -> MaybeVersion]
  /\ active \subseteq Label
  /\ proposal \in [Segment \X Version -> Proposal]
  /\ confirmed \in [Segment -> Confirmation]
  /\ attempt \in [Worker -> Attempt]
  /\ tx \in Tx

-----------------------------------------------------------------------------
(* ActivityLabelProposal *)

HasActiveLease(p) == p.status = "processing" /\ p.lease > 0

Terminal(p) == p.status \in {"ready", "superseded"}

RecordFailure(p) ==
  [p EXCEPT !.status = "failed", !.token = 0, !.lease = 0,
            !.retry = IF p.attempts < MaxAttempts THEN RetryDelay[p.attempts] ELSE 0]

\* Mutants of CanStart: the attempt limit is forgotten; a superseded row restarts.
CanStartUnlimited(p) ==
  ~Terminal(p) /\ ~HasActiveLease(p) /\ ~(p.status = "failed" /\ p.retry > 0)
CanStartSuperseded(p) ==
  /\ p.status # "ready" /\ p.attempts < MaxAttempts
  /\ ~HasActiveLease(p) /\ ~(p.status = "failed" /\ p.retry > 0)

\* try_start_attempt answers CLAIMED.
CanStart(p) ==
  /\ ~Terminal(p)
  /\ p.attempts < MaxAttempts
  /\ ~HasActiveLease(p)
  /\ ~(p.status = "failed" /\ p.retry > 0)

\* Mutant of Started: the lease token is drawn once per proposal.
StartedSameToken(p) ==
  [p EXCEPT !.status = "processing", !.attempts = @ + 1, !.token = 1,
            !.lease = LeaseDuration, !.retry = 0]

Started(p) ==
  [p EXCEPT !.status = "processing", !.attempts = @ + 1, !.token = p.attempts + 1,
            !.lease = LeaseDuration, !.retry = 0]

\* try_start_attempt answers TERMINAL after recording the final attempt's failure.
FinalLeaseExpired(p) ==
  p.attempts >= MaxAttempts /\ p.status = "processing" /\ ~HasActiveLease(p)

\* Mutant of NeedsWorkerAttention: no attention once the attempts are used up.
NeedsAttentionBelowLimit(p) ==
  ~Terminal(p) /\ p.attempts < MaxAttempts /\ ~HasActiveLease(p) /\ p.retry = 0

NeedsWorkerAttention(p) ==
  /\ ~Terminal(p)
  /\ IF p.status = "processing"
       THEN ~HasActiveLease(p)
       ELSE p.attempts < MaxAttempts /\ p.retry = 0

\* Mutant of OwnedBy: the token is not compared.
OwnedByAnyToken(p, token) == p.status = "processing"

OwnedBy(p, token) == p.status = "processing" /\ p.token = token

Superseded(p) == [p EXCEPT !.status = "superseded", !.token = 0, !.lease = 0]

Completed(p, label) ==
  [p EXCEPT !.status = "ready", !.token = 0, !.lease = 0, !.label = label]

\* ActivityLabelConfirmation.applies_to
Applies(s, v) == confirmed[s].version = v

NeedsProcessing(s, v) == ~Applies(s, v) /\ NeedsWorkerAttention(proposal[<<s, v>>])

-----------------------------------------------------------------------------
(* ProposeLabel.execute, one worker *)

Init ==
  /\ current \in [Segment -> MaybeVersion]
  /\ active = Label
  /\ proposal = [k \in Segment \X Version |-> Absent]
  /\ confirmed = [s \in Segment |-> Unconfirmed]
  /\ attempt = [w \in Worker |-> Idle]
  /\ tx = NoTx

\* A scan read the segment, its confirmation and its proposal without the lock.
Discover(w, s) ==
  /\ attempt[w].pc = "idle"
  /\ current[s] # NoVersion
  /\ NeedsProcessing(s, current[s])
  /\ attempt' = [attempt EXCEPT ![w] = [Idle EXCEPT !.pc = "candidate", !.segment = s]]
  /\ UNCHANGED <<current, active, proposal, confirmed, tx>>

\* Take the lock and read the segment.
ClaimBegin(w) ==
  /\ attempt[w].pc = "candidate"
  /\ ~Locked
  /\ tx' = [kind |-> "claim", by |-> w, segment |-> attempt[w].segment,
            seen |-> current[attempt[w].segment], label |-> Unclassified]
  /\ UNCHANGED <<current, active, proposal, confirmed, attempt>>

\* Check the confirmation, find or add the proposal, try to start and commit.
ClaimCommit(w) ==
  /\ tx.kind = "claim" /\ tx.by = w
  /\ LET s == tx.segment
         v == tx.seen
     IN \/ /\ v = NoVersion \/ Applies(s, v)
           /\ attempt' = [attempt EXCEPT ![w] = Idle]
           /\ UNCHANGED proposal
        \/ /\ v # NoVersion /\ ~Applies(s, v)
           /\ CanStart(proposal[<<s, v>>])
           /\ proposal' = [proposal EXCEPT ![<<s, v>>] = Started(@)]
           /\ attempt' = [attempt EXCEPT ![w] =
                            [@ EXCEPT !.pc = "claimed", !.version = v,
                                      !.token = Started(proposal[<<s, v>>]).token]]
        \/ /\ v # NoVersion /\ ~Applies(s, v)
           /\ ~CanStart(proposal[<<s, v>>])
           /\ proposal' = [proposal EXCEPT
                             ![<<s, v>>] = IF FinalLeaseExpired(@) THEN RecordFailure(@) ELSE @]
           /\ attempt' = [attempt EXCEPT ![w] = Idle]
  /\ tx' = NoTx
  /\ UNCHANGED <<current, active, confirmed>>

\* lock_timeout: ActivityTimelineBusyError, before the claim or before the
\* outcome is saved.  The scan skips the candidate; a lease it took stays.
LockTimeout(w) ==
  /\ attempt[w].pc \in {"candidate", "answered"}
  /\ Locked /\ tx.by # w
  /\ attempt' = [attempt EXCEPT ![w] = Idle]
  /\ UNCHANGED <<current, active, proposal, confirmed, tx>>

\* SuggestionInputs.build in a read-only transaction without the lock.
BuildInputs(w) ==
  /\ attempt[w].pc = "claimed"
  /\ attempt' = [attempt EXCEPT ![w].pc = "asking", ![w].offered = active]
  /\ UNCHANGED <<current, active, proposal, confirmed, tx>>

\* The suggester answers; any exception since the claim counts as a failure.
Suggest(w, answer) ==
  /\ \/ attempt[w].pc = "asking"
     \/ attempt[w].pc = "claimed" /\ answer = Failed
  /\ attempt' = [attempt EXCEPT ![w].pc = "answered", ![w].answer = answer]
  /\ UNCHANGED <<current, active, proposal, confirmed, tx>>

\* Mutant of FinishBegin: ownership is not checked again after the model call.
FinishBeginUnchecked(w) ==
  /\ attempt[w].pc = "answered"
  /\ ~Locked
  /\ tx' = [kind |-> "finish", by |-> w, segment |-> attempt[w].segment,
            seen |-> current[attempt[w].segment], label |-> Unclassified]
  /\ UNCHANGED <<current, active, proposal, confirmed, attempt>>

\* Take the lock; a worker that no longer owns the attempt has nothing to save.
FinishBegin(w) ==
  LET a == attempt[w] IN
  /\ a.pc = "answered"
  /\ ~Locked
  /\ IF OwnedBy(proposal[<<a.segment, a.version>>], a.token)
       THEN /\ tx' = [kind |-> "finish", by |-> w, segment |-> a.segment,
                      seen |-> current[a.segment], label |-> Unclassified]
            /\ UNCHANGED attempt
       ELSE /\ attempt' = [attempt EXCEPT ![w] = Idle]
            /\ UNCHANGED tx
  /\ UNCHANGED <<current, active, proposal, confirmed>>

SuggestsACandidate(a) == a.answer = Unclassified \/ a.answer \in a.offered \intersect active

\* Mutants of Outcome: the user's choice, or the segment's version, is not checked again.
OutcomeDespiteChoice(a, seen, p) ==
  IF seen # a.version THEN Superseded(p)
  ELSE IF a.answer = Failed \/ ~SuggestsACandidate(a) THEN RecordFailure(p)
  ELSE Completed(p, a.answer)
OutcomeForAnyVersion(a, seen, p) ==
  IF Applies(a.segment, a.version) THEN Superseded(p)
  ELSE IF a.answer = Failed \/ ~SuggestsACandidate(a) THEN RecordFailure(p)
  ELSE Completed(p, a.answer)

\* The row after finish: superseded, failed or ready.
Outcome(a, seen, p) ==
  IF seen # a.version \/ Applies(a.segment, a.version) THEN Superseded(p)
  ELSE IF a.answer = Failed \/ ~SuggestsACandidate(a) THEN RecordFailure(p)
  ELSE Completed(p, a.answer)

FinishCommit(w) ==
  LET a == attempt[w] IN
  /\ tx.kind = "finish" /\ tx.by = w
  /\ proposal' = [proposal EXCEPT ![<<a.segment, a.version>>] = Outcome(a, tx.seen, @)]
  /\ attempt' = [attempt EXCEPT ![w] = Idle]
  /\ tx' = NoTx
  /\ UNCHANGED <<current, active, confirmed>>

\* Cancellation, a crash or a database error: an open transaction rolls back,
\* and a lease that was committed stays until it expires.
Stop(w) ==
  /\ attempt[w].pc # "idle"
  /\ attempt' = [attempt EXCEPT ![w] = Idle]
  /\ tx' = IF tx.by = w THEN NoTx ELSE tx
  /\ UNCHANGED <<current, active, proposal, confirmed>>

-----------------------------------------------------------------------------
(* The user, the observation side, the label list and time *)

\* ConfirmSegmentLabel: a selection of another version or of an archived label
\* is rejected without a change.
ConfirmBegin(s, label) ==
  /\ ~Locked
  /\ current[s] # NoVersion
  /\ tx' = [kind |-> "confirm", by |-> NoOne, segment |-> s,
            seen |-> current[s], label |-> label]
  /\ UNCHANGED <<current, active, proposal, confirmed, attempt>>

ConfirmCommit ==
  /\ tx.kind = "confirm"
  /\ tx.label \in active \union {Unclassified}
  /\ confirmed' = [confirmed EXCEPT
                     ![tx.segment] = [version |-> tx.seen, label |-> tx.label]]
  /\ tx' = NoTx
  /\ UNCHANGED <<current, active, proposal, attempt>>

\* The label turned out archived, or the request was cancelled.
ConfirmRollback ==
  /\ tx.kind = "confirm"
  /\ tx' = NoTx
  /\ UNCHANGED <<current, active, proposal, confirmed, attempt>>

\* Mutant of Reproject: the legacy path forgets the lock too.
ReprojectUnlocked(s, v) ==
  /\ current' = [current EXCEPT ![s] = v]
  /\ UNCHANGED <<active, proposal, confirmed, attempt, tx>>

\* A batch is projected: the segment closes, changes, or is no longer the start
\* of a closed detailed segment.  The legacy path holds the lock, Kafka's not.
Reproject(s, v) ==
  /\ KafkaPath \/ ~Locked
  /\ current' = [current EXCEPT ![s] = v]
  /\ UNCHANGED <<active, proposal, confirmed, attempt, tx>>

\* No code archives a label; the operator sets labels.archived_at.
ArchiveLabel(l) ==
  /\ active' = active \ {l}
  /\ UNCHANGED <<current, proposal, confirmed, attempt, tx>>

Elapsed(n) == IF n > 0 THEN n - 1 ELSE 0

\* A unit of time is a minute and a transaction under the lock lasts seconds
\* (lock_timeout is 3 s), so no unit elapses between its clock reading and commit.
Tick ==
  /\ ~Locked
  /\ \E k \in Segment \X Version : proposal[k].lease > 0 \/ proposal[k].retry > 0
  /\ proposal' = [k \in Segment \X Version |->
                    [proposal[k] EXCEPT !.lease = Elapsed(@), !.retry = Elapsed(@)]]
  /\ UNCHANGED <<current, active, confirmed, attempt, tx>>

WorkerStep(w) ==
  \/ \E s \in Segment : Discover(w, s)
  \/ ClaimBegin(w)
  \/ ClaimCommit(w)
  \/ LockTimeout(w)
  \/ BuildInputs(w)
  \/ \E answer \in Choice \union {Failed} : Suggest(w, answer)
  \/ FinishBegin(w)
  \/ FinishCommit(w)
  \/ Stop(w)

Next ==
  \/ \E w \in Worker : WorkerStep(w)
  \/ \E s \in Segment, label \in Choice : ConfirmBegin(s, label)
  \/ ConfirmCommit
  \/ ConfirmRollback
  \/ \E s \in Segment, v \in MaybeVersion : Reproject(s, v)
  \/ \E l \in Label : ArchiveLabel(l)
  \/ Tick

Spec == Init /\ [][Next]_vars

\* Sweeps run every five minutes and visit every closed segment, transactions
\* end, the suggester has a 30 s timeout and time passes.  Lock timeouts and
\* crashes may happen again and again, but a scan does not find the lock busy,
\* nor a claim the process stopping, every time for ever.
Fairness ==
  /\ SF_vars(Tick)
  /\ WF_vars(ConfirmCommit \/ ConfirmRollback)
  /\ \A w \in Worker :
       /\ \A s \in Segment : SF_vars(~Locked /\ Discover(w, s))
       /\ SF_vars(ClaimBegin(w))
       /\ SF_vars(ClaimCommit(w))
       /\ WF_vars(BuildInputs(w))
       /\ WF_vars(\E answer \in Choice \union {Failed} : Suggest(w, answer))
       /\ WF_vars(FinishBegin(w) \/ LockTimeout(w))
       /\ WF_vars(FinishCommit(w))

FairSpec == Spec /\ Fairness

-----------------------------------------------------------------------------
(* Properties *)

InFlight(w) == attempt[w].pc \in {"claimed", "asking", "answered"}

Target(w) == <<attempt[w].segment, attempt[w].version>>

Owns(w) == InFlight(w) /\ OwnedBy(proposal[Target(w)], attempt[w].token)

Settled(p) == Terminal(p) \/ (p.status = "failed" /\ p.attempts = MaxAttempts)

\* However leases expire and workers overlap, two running workers never both
\* own the attempt on one proposal (owns_attempt answers true to at most one).
SingleOwner ==
  \A w1, w2 \in Worker :
    Owns(w1) /\ Owns(w2) /\ Target(w1) = Target(w2) => w1 = w2

\* The newest attempt on a proposal is ended by nobody but its own worker, while
\* that worker runs; only a final attempt may be failed by a claim that finds
\* its lease expired.  A worker whose lease was taken over cannot end it.
NewestAttemptUndisturbed ==
  \A w \in Worker :
    LET p == proposal[Target(w)] IN
    InFlight(w) /\ attempt[w].token = p.attempts =>
      \/ OwnedBy(p, attempt[w].token)
      \/ p.status = "failed" /\ p.attempts = MaxAttempts

\* A proposal that is ready, superseded or failed for the last time is never
\* written again: what the user was shown is not silently changed.
SettledIsFinal ==
  [][\A k \in Segment \X Version :
       Settled(proposal[k]) => proposal'[k] = proposal[k]]_vars

BecomesReady(s, v) == proposal[<<s, v>>].status # "ready" /\ proposal'[<<s, v>>].status = "ready"

\* A suggestion is never published for a version the user has already labelled,
\* even when the confirmation arrives while the model is being asked.
UserChoiceWins ==
  [][\A s \in Segment, v \in Version : BecomesReady(s, v) => ~Applies(s, v)]_vars

\* A suggestion is published and a choice is saved only for the version the
\* segment has at that moment, and a published label is still active.
WritesForCurrentVersion ==
  [][\A s \in Segment :
       /\ \A v \in Version : BecomesReady(s, v) =>
            /\ current[s] = v
            /\ proposal'[<<s, v>>].label \in active \union {Unclassified}
       /\ confirmed'[s] # confirmed[s] => confirmed'[s].version = current[s]]_vars

\* ProposalAttempts: holding the account timeline lock, "the segment version
\* cannot change between the checks and the write".
VersionHeldByLock == Locked => current[tx.segment] = tx.seen

Wanted(s, v) == current[s] = v /\ ~Applies(s, v)

\* A version that stays current and unconfirmed reaches an outcome, whatever
\* crashes, lock timeouts and failures its attempts meet.
EveryVersionSettles ==
  \A s \in Segment, v \in Version :
    <>[]Wanted(s, v) => <>Settled(proposal[<<s, v>>])

\* proposal_state: the progress the user is shown.
Progress(p) ==
  CASE p.status \in {"absent", "superseded"} -> "waiting"
    [] p.status = "processing" -> IF p.lease = 0 THEN "failed" ELSE "processing"
    [] OTHER -> p.status

\* A closed segment whose proposal is shown as waiting does get one in the end.
WaitingIsServed ==
  \A s \in Segment, v \in Version :
    <>[]Wanted(s, v) => <>[](Progress(proposal[<<s, v>>]) # "waiting")

\* The workers implement the promise of ProposalOutcomes.
Outcomes == INSTANCE ProposalOutcomes WITH
  Key <- Segment \X Version,
  MaxTries <- MaxAttempts,
  tries <- [k \in Segment \X Version |-> proposal[k].attempts],
  outcome <- [k \in Segment \X Version |->
    CASE proposal[k].status = "ready" -> "answered"
      [] proposal[k].status = "superseded" -> "dropped"
      [] proposal[k].status = "failed" /\ proposal[k].attempts = MaxAttempts -> "exhausted"
      [] OTHER -> "pending"]

ImplementsOutcomes == Outcomes!Spec
=============================================================================
