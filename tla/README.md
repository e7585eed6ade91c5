# Formal models of Mosemo

Mosemo collects what a user's devices observe (which application, which page), folds the
records of an account into a timeline of segments, asks a model to propose a label for each
closed segment and lets the user confirm labels. This directory holds TLA+ models of that
program, TLC runs that check them on small instances, and TLAPS proofs, for every instance, of
most of the safety properties the runs check.

Paths below are relative to `src/src/mosemo/` unless they start with `docs/` or `.codex/`.

## 1. The system

| Part | State | Operations | Talks to |
|---|---|---|---|
| Observation projection (`observation/domain/timeline.py`) | none: a fold | `feed`, `finish`, `project_events`, convergence tests | used by the activity timeline |
| Activity timeline (`observation/application/batches.py`, `infrastructure/timeline_segments.py`, `activity_records.py`) | `activity_records`, `activity_timeline_segments` | process a batch: store, check device order, rebuild, append or replay, replace segments | devices (identity), focus sessions |
| Batch delivery (`entrypoints/api/activity_batches.py`, `entrypoints/consumer/activity_batches.py`, `platform/messaging/publisher.py`, `infrastructure/batch_receipts.py`) | Kafka partition, committed offset, `activity_batch_receipts` | accept, publish, deliver, process, acknowledge | activity timeline |
| Consumer supervision (`platform/messaging/subscriber.py`) | executions by partition, failure future, stop event | receive, execute, revoke, fail, drain | Kafka, batch delivery |
| Label proposals (`labeling/domain/proposals.py`, `application/proposals.py`) | `activity_label_proposals` (status, attempts, lease, retry) | sweep, claim, ask the model, finish | timeline lock and segments (observation), labels, confirmations |
| Label confirmations (`labeling/application/confirmations.py`) | `activity_label_confirmations` | confirm one segment, confirm several or none | timeline lock, labels |
| Label states and timeline (`labeling/application/states.py`, `timeline.py`) | none: reads | state of a segment, groups of a day | observation, labels |
| Focus sessions (`observation/application/focus_sessions.py`) | `focus_sessions` | start, complete, link a record | activity timeline, labels |
| Sign in and devices (`identity/`) | `accounts`, `native_auth_codes`, `devices`, the browser's cookies | log in, exchange a code, register a device | Kakao, labels (default labels by event) |
| Labels (`labels/`) | `labels` | create the defaults, list, is active | labelling, focus sessions |
| Unit of work (`platform/database/transactions.py`) | pending events of a session | dispatch until empty, commit or drop | every use case |
| Batch job scheduler (`platform/scheduling.py`) | running jobs | run once, serve, cancel at shutdown | label proposals |
| HTTP entry points (`entrypoints/api/`, `*/presentation/`) | the answer under way | limit and parse a body, answer once | every use case |
| Agent hooks and reports (`.codex/hooks/`, `.codex/reports/`) | the gate's state file, the metrics log | judge a change before an agent stops, count what the hooks logged | the work tree |
| OpenAPI, migrations, scripts, validators (`.codex/skills/`) | none | generate, create tables, judge files | none at run time |

What is hard in it: workers hold a proposal under a lease that can expire while they still
run; the model is asked outside any transaction, so everything read before must be checked
again; the account timeline lock is taken by every writer of labels but not by the Kafka path
that rewrites segments; records arrive late and the replay must start early enough and stop
late enough; a message can be delivered again at any point of its processing.
`PROJECT.json` lists these hazards line by line.

What makes each part correct: a fold that groups as the product's rules say, whatever the
order of arrival; a stored timeline that equals a replay of everything; at most one owner of
an attempt, at most three attempts and one outcome for each version; no suggestion against a
user's choice; a batch applied once however often it is delivered; a focus session that ends
after its last record; one account for one user; all or none of a batch of confirmations.

## 2. Modules

| Module | Models | Status |
|---|---|---|
| `LabelProposals` | proposals, leases, workers, confirmations, the lock | done |
| `ProposalOutcomes` | what the workers promise for each version (abstract) | done |
| `LabelProposalsProofs` | theorems about `LabelProposals` | done |
| `TimelineProjection` | the fold and the projected segments | done |
| `ActivityTimeline` | one account's records and stored segments | done |
| `BatchDelivery` | publication, partition, redelivery, receipts, a worker's life | done |
| `BatchEffects` | what delivery promises: applied once, in log order (abstract) | done |
| `BatchDeliveryProofs` | theorems about `BatchDelivery` | done |
| `LabelTimeline` | what readers make of the stored segments: a day, versions, groups of labels | done |
| `ConsumerSupervisor` | the two workers of a process: executions, failure, draining, exit | done |
| `ProposalSweeps` | the batch process: scheduler, cancellation, the sweep's cursor and limits | done |
| `FocusSessions` | starts and completions with retries, against linked records | done |
| `SignIn` | login, callback, codes, default labels, exchange | done |
| `Devices` | registration with an idempotency key | done |
| `LabelConfirmations` | single and batch confirmations under the lock | done |
| `UnitOfWork` | a session's transactions, its identity map and its events | done |
| `ActivityContract` | a batch on the wire: what is accepted, parsed, written again | done |
| `BatchAdmission` | how a request with a batch is limited and answered | done |
| `StopGate`, `AgentReports` | the agents' gate; metric lines and reports | done |
| `SequenceLemmas` | lemmas on sequences, sorting, folds and least counterexamples | done |
| `TimelineProofs` | theorems about `TimelineProjection`, `ActivityTimeline` and `LabelTimeline` | done |
| `AccountProofs` | theorems about `FocusSessions`, `SignIn` and `Devices` | done |
| `LabelConfirmationsProofs` | theorems about `LabelConfirmations` | done |
| `RequestsProofs` | theorems about `BatchAdmission`, `ActivityContract`, `UnitOfWork` and the components of `requests` together | done |
| `ProcessesProofs` | theorems about `ConsumerSupervisor`, `ProposalSweeps`, `StopGate`, `AgentReports`, and the components of `processes` together | done |

`LabelProposals` refines `ProposalOutcomes` and `BatchDelivery` refines `BatchEffects`.
`BatchDelivery` says which batches of an account take effect and in which order;
`ActivityTimeline` what each of them then does to the timeline; `LabelTimeline` what a reader
sees of it; `LabelProposals` and `LabelConfirmations` see the result as `Reproject`.
`BatchAdmission` is the API's side of what `BatchDelivery` calls `Publish` to `GiveUp`, with
the message itself (`ActivityContract`). `ConsumerSupervisor` looks at the same workers as
`BatchDelivery`: one process with several partitions and the state its workers share, where
`BatchDelivery` has several processes, one partition and the receipts.

`MC...` modules hold the values TLC runs with. Operators named "Mutant of X" are plausible
bugs; each property has one, under which TLC finds it violated.

### LabelProposals

One account. A segment is named by its first event (`first_event_id`), by which proposals
and confirmations find it; `current[s]` is the content version of the closed detailed segment
that starts there, or `NoVersion`. A proposal row is a record with the source's fields; the
lease token, a fresh uuid in the code, is named by the attempt it was drawn for. Time is a
countdown in minutes: `lease` and `retry` are what is left until `lease_expires_at` and
`next_attempt_at`.

A worker runs `ProposeLabel.execute`: `Discover` (a scan saw the candidate, without the
lock), `ClaimBegin`/`ClaimCommit` (`ProposalAttempts.claim` in its transaction), `BuildInputs`
(the read-only transaction that lists the labels), `Suggest` (the model answers or fails),
`FinishBegin`/`FinishCommit` (`ProposalAttempts.finish`). `Stop` is a crash or cancellation at
any point and `LockTimeout` the three-second `lock_timeout`. The lock is a
transaction-level advisory lock, so the variable `tx` is the one open transaction that holds
it; a transaction's read of the segment and its commit are two steps, and everything that only
locked transactions write is read in the second. `Reproject` is a batch that commits: with
`KafkaPath` it does not wait for the lock (`ProcessActivityBatch`), without it does
(`ProcessLegacyActivityBatch`).

Abstractions: whether a label is active is read in the commit step (an archive between that
check and the commit has the effect of an archive just after it); `now` is read before the
lock is waited for, at most three seconds, which the minute's grain ignores; retrieved
examples and the model's usage fields are left out.

### TimelineProjection and ActivityTimeline

A record is `[device, sequence, observedAt, kind]`; device and sequence identify it, as the
table's unique key does, and `kind` is the context or the new collection state. A segment
keeps its first and last record, from which the code's columns follow. `Feed` is
`TimelineProjection.feed`, `Fed` the fold's state after each record.

`Process` is `ActivityBatchProcessor.process`, a single transaction: store what is not taken,
refuse a batch that makes a device's clock run backwards, rebuild an account with history at
its first receipt, then append to the last segment (`AppendTo`) or replay (`ReplayOn`), and
replace rows with their ids handed on (`Replace`, `Written`, `ReusableId`). Batches of an account are
serial, by the partition or by the lock, so nothing interleaves inside. Pages of 128 records do not change
the order in which records are fed and are left out. `Fresh` may draw an id that a deleted row had in an
earlier transaction; no property compares ids over more than one batch.

### BatchDelivery

One account, so one partition: messages are keyed by account (`decode_batch`). A message is a
receipt key (device and batch id) and a content (fingerprint). `request` is a call of
`AcceptActivityBatch` with the record its producer sends: `BrokerWrites` may come after
`GiveUp`, when the API has answered 503, and a record that is dropped flies for ever.

A consumer is one of FastStream's workers (`max_workers=2`), each with a Kafka client of its
own. `owner` is the coordinator's decision and `assigned` what the worker believes; between
`SessionExpires` and the worker's `Revoke` they differ, and the worker goes on reading
and processing. A message's steps are `Receive` (the client returns it), `Handle` (the closing
check, the task in `_executions`, then `has_for_account`), `ClaimReceipt` or `WinnerResults`,
`SendCommit`, `Commit`, `Ack`. `Revoke` cancels a registered task; one that is only received is
not in `_executions` and survives. `DrainTimeout` and `Exit` are the end of `run`.

`claim[b]` is an uncommitted row of `activity_batch_receipts`: an insert of the same key
waits for it. When its client goes, the server may still find the COMMIT it was sent, so the
transaction is orphaned (`by = NoOne`) and ends in `Commit` or `RollBack`. `Ack` commits the
handled offset or the client's position: the code leaves that to the library, and both are safe
while a worker handles one message at a time.

Abstractions: what a batch does in its transaction is `ActivityTimeline`'s subject; `Terminal`
are the messages the processor refuses (a device not owned, a time that runs backwards),
taken as a property of the message. Other accounts of the partition, log retention and the
processing inside the API when messaging is off (`ProcessLegacyActivityBatch`) are left
out; ADR 0006 excludes running both paths at once.

### LabelTimeline

Reads change nothing, so they are operators on the rows of `ActivityTimeline`: a segment at an
instant (`Observed`, with the end silence gives it), the rows SQL picks for a day and the filter
after it (`ListDateSegments`, `OverlapsWindow`, two different conditions in the code), and the
items of the label timeline (`GetLabelTimeline`). The segment version, a hash in the code, is
the tuple the hash is taken of. Days are given by the instants they begin at.

### ConsumerSupervisor

`MessageConsumer` is one object with two FastStream workers, each with a Kafka consumer of its
own. What they share is modelled as shared: `_executions`, keyed by partition, `_revoked`,
`_closing`, the failure. A rebalance has three steps, as in aiokafka: each member revokes
(`Revoke`, which waits for the tasks it cancelled), joins, and when all have joined the
partitions are dealt out. `SessionEnds` is the group's decision that a worker is gone, which the
worker learns later: it then revokes the partitions it believed to have, which are another's by
now. A task passes `running`, `stored` (its transaction is committed) and `acked`; a
cancellation takes effect at the task's next step and may come after what was sent was done.
How the client rejoins and calls the listener is aiokafka's behaviour, external here.

### ProposalSweeps

A segment is its id and `wanting`, `settled` or not there; an attempt settles it or not
(`LabelProposals` has the rest). `FindPage` is one snapshot, `ScanSegment` a step of the page,
`NextBatch` what `SweepLabelProposals` repeats until a batch finds no page. Around it
`execute_job`, `serve` and `run_job_once`: a tick, a failure, a signal, the cancellation and the
ten seconds' wait, after which the engine is disposed.

### Requests: SignIn, Devices, FocusSessions, LabelConfirmations, UnitOfWork, BatchAdmission

In each of them a request is a record with a step, and concurrent requests interleave between the
statements that wait or show something to others: row locks (`FOR UPDATE`), unique keys (an
insert waits for another of the same key), the timeline lock, the commit. Every transaction may
fail at any step. What an open transaction wrote is seen by no other one.

`SignIn` names state, challenge, verifier and code of an attempt by the attempt; they are random in
the code. Two logins share the browser's cookies. `FocusSessions` takes a record for its event id
and content; a session's row is locked by whoever completes it and by every record that
links to it; a device of another account is refused before any row is asked for. In `LabelConfirmations` a segment may change between the checks and the write, as on
the Kafka path; clocks differ between requests. `UnitOfWork` is one session over several
transactions: what it loaded stays loaded after a commit (`expire_on_commit=False`), and events
are numbered as they are raised, by the use case or by a handler, which may change rows too.

`ActivityContract` takes a JSON object as a record of the keys it has: the models' rules (required
and optional fields, no other keys, discriminators, the validators), the values parsed, and
what is written again, so that `DecodedAsSent` can compare the consumer's batch with
the API's. A text is its length in bytes, a fingerprint what it is taken of. JSON that does not parse
is left out. `BatchAdmission` leaves clocks out: a time limit may end at any step it covers. The
outer one, where the batch is published, covers the whole request; the inner one covers receiving the
body and sending the 413 for one that is too long (`refusing`). Both have one length and the outer one
begins first, so the inner one ends a request on the legacy path only, which has no other. A
response has started when its head is given to `send`, as `response_started` counts it; what the server
does of a second one is left out.

### StopGate and AgentReports

The gate formats, compares the tree with the fingerprints it knows, checks, takes the fingerprint
and then loads and saves a file all sessions share, without a lock: seven steps between which
other sessions edit and stop. A work tree is named by its text. In `AgentReports` a hook stamps
a line and appends it later; a report takes its window's end and then reads the log. Reports
are compared as consecutive windows.

## 3. Runs

| Run | Shows | Bounds |
|---|---|---|
| `proposals` | types, one owner, newest attempt undisturbed, settled rows stay, the user's choice wins, refinement of `ProposalOutcomes` | 2 workers, 1 segment, 1 version that comes and goes, 1 label, 3 attempts, delays 1 and 5, lease 2 |
| `proposals_legacy` | the lock holds the version; writes are for the current version and an active label | 1 worker, 2 versions, legacy path |
| `proposals_liveness` | a version that stays wanted is settled | 2 workers, 2 attempts, under `FairSpec` |
| `proposals_kafka` (violation) | the lock does not hold the version on the Kafka path | 1 worker |
| `proposals_waiting` (violation) | a superseded version that returns waits for ever | 1 worker, under `FairSpec` |
| `timeline` | table checks, the fold groups by the rules, replays are exact, ids are kept, days are told once, versions stand | device 1: 3 records at 0..3; device 2: 2 records at 1..2; batches of one or two; clocks 1 and 9; four histories; reads at 2, 3, 9; days from 0, 2, 4 |
| `timeline_ties` (violation) | records of two devices at one instant break the replay | the same devices, single records |
| `delivery` | types, nothing acknowledged is lost, one open writer, the first batch is known, refinement of `BatchEffects` | 2 requests, 2 workers, 3 faults; a batch with two contents, another one, a refused one; symmetry of requests and workers |
| `delivery_liveness` | an accepted batch is processed | the same, 1 fault, under `FairSpec` |
| `requests` | one account with its labels, codes redeemed once and by the right app, sessions that cover their records, answers that stand, batches all or none, changes in order, fresh reads, events handled before the commit, true answers, messages decoded as sent | 2 sign-ins of 2 users in a browser, 2 exchanges; 3 calls on a session with 3 devices; 2 requests with 2 segments, 2 versions, a label; a session with 2 rows and 3 events; one request with one of 24 bodies; 3 registrations with 2 keys |
| `processes` | no message passed over, clean exits, sweeps that visit all, a gate that judges all, reports that add up, stops that end | 2 workers, 2 partitions, 3 messages, 1 rebalance; 4 segments in pages of 2, batches of 3 scanned and 1 attempt, 1 change; 2 sessions with 2 edits and 3 stops; 2 metric lines at 2 instants |
| `processes_session_loss` (violation) | a lost session makes the process pass a message over | the same |

`requests` and `processes` each check several components that share no state: `live`
says at the start which of them runs, and the others rest in one initial state. The
behaviours are those of each component alone; nothing is interleaved that would multiply
them. So a property of, say, `SignIn` is checked in every reachable state of `SignIn`.

The bounds of `requests`: two sign-ins in one browser are the least that mix cookies, with two users so
that the wrong one could be signed in; two exchanges redeem one code. Three calls are a start,
a completion and a record (or a retry of either) that overlap. Two confirmations of two segments
overlap, repeat and contradict each other. Instants are few, but every order of two of them
occurs. The batches have a captured, absent, unavailable and redacted field, cut texts and times
of every precision; those refused break one rule each.
Those of `processes`: one rebalance moves partitions in both directions; a message before and after
the moved one shows a skipped one; four ids, pages of two and batches of three make a batch
end inside a page; three stops pass the limit of two blocks (three in the code: its value
is a parameter); two metric lines of two hooks are appended out of order, on either side of a
report and of a window's edge, and name one session, one model or one reviewer twice.
`MaxSegment`, `MaxRebalances`, `MaxChanges`, `MaxEdits`, `MaxStops`, `MaxLines`, `LastInstant`,
`MaxTime`, `MaxVersion`, `MaxEvents` and `MaxReprojections` bound what the environment does;
`MaxProcessed`, `MaxScanned`, `PageSize`, `MaxBlocks`, `MaxRecords`, `Limit` and `TrendDays` are
the code's own limits with smaller values. These runs do not check deadlock: requests are answered and
processes exit, and then nothing is left to do.

Two requests are enough for a repeated, a conflicting or a blocked batch and for two different
ones in either order; two workers for an old owner and a new one; three faults for an expired
session, a crash that orphans a transaction and a lost offset in one behaviour. Faults are
bounded by `MaxFaults`; a worker's normal steps are not. Deadlock is not checked in these two
runs: when every request is answered and processed, only faults remain, and their number is
bounded.

The bounds of the proposals are enough for the cases that matter: a second worker is needed
to take over an expired lease, the constants of the source (three attempts, lease of two
minutes, retries after one and five) fit unscaled, one version with `NoVersion` gives leave
and return, two versions a change while the model is asked. In the timeline, `MaxGap` 1 with
instants 0..3 has records that join, records too far apart and late records that bridge or
split; five records on two devices are the least that make a partial replay with a converging
suffix; clock 1 leaves the last segment open, clock 9 closes it by silence.
The days begin at instants of records, so that segments lie before, across and after a midnight.

`timeline` states two properties where no tie disturbs them. `ReplayIsExact` supposes
`StartsAreCuts`, no segment starting at an instant at which the segment before also has a
record, because the code misses that case (`timeline_ties`), and a timeline that was exact before, or, at
the first rebuild of an account with history, one in which no row but the last is open (`OpenIsLast`; see section 5).
`IdentityKept` supposes that no
two new segments start at one instant: there `_reusable_id` can hand the id of a segment that
goes on to an earlier part of a split. Ids of segments are documented as not permanent, so
this is recorded here and not as a finding.

## 4. Fairness

`FairSpec` assumes that time passes, transactions end, the suggester answers or fails (it has a
30 s timeout), and strong fairness of discovering and claiming: a sweep runs every five minutes
over every closed segment, and neither the lock is busy at every sweep nor the process killed
at every claim. Nothing is assumed of suggestions, crashes and lock timeouts otherwise: they
may happen at every attempt, which then fails for the last time, an outcome too.

`BatchDelivery.FairSpec` assumes weak fairness of a worker's progress (the service manager
starts it again, the group assigns the partition, the broker tells a worker what it lost, the
task runs on) and of the database server's end of each transaction. Clients, the API and the
producer may stop at any point. `AcceptedIsProcessed` exempts a batch behind a refused message
(`BlockedBefore`): a refused message is never acknowledged, the worker fails on it at every start, and
`BatchFailureHandler`, the policy for it, is documented as not implemented.

`SupervisorFairness` assumes that the event loop runs what is ready: `run` goes on when its event is
set, its wait is over or its thirty seconds are, and a delivered cancellation ends a task. Nothing is assumed of
the transactions and acknowledgements themselves, so a stop ends although they hang.
`SweepFairness` assumes the same of the batch process, and nothing of its job, which may
ignore its cancellation: the wait for it has a limit. The other modules state no fairness.

## 5. Findings

1. `ProposalAttempts` promises that the segment version cannot change between the checks and
   the write, since the caller holds the account timeline lock. The Kafka path takes no lock.
2. `proposal_state` shows a superseded proposal as waiting; when its version returns, it waits
   for ever, as superseded rows are terminal.
3. A replay starts at an instant, not at a record. Records of another device at that instant that belong to the
   segment before become a segment of their own, which a full replay does not have
   (`docs/adr/0008-order-observations-and-transition-existing-timelines.md:44`).
4. A consumer process looks an execution up by its partition. When the group took a partition from one
   of the process's workers and the other one has begun a message of it, the first worker's late
   revocation cancels that message, as one that was rightly revoked, and the other worker
   acknowledges the next one past it (`docs/adr/0006-deliver-activity-batches-through-kafka.md:44`).
   `NoMessageSkipped` holds in every behaviour in which no revocation crosses workers so.

Met while modelling, and stated in the properties as exceptions. The first two disagree with a text of the
repository, which is quoted:

- On the legacy path a second response may start. The limit of receiving a body also covers sending the
  413 for one that is too long (`src/src/mosemo/entrypoints/api/middleware.py:88-98`), and where it ends there, 503 is
  sent without asking whether a response has started (102-107): `RefusedLate` in `AnswersAreTrue`. The outer
  handler says "Never attempt a second response after headers have been sent." (line 72) and asks; the
  legacy path (56-58) has no outer handler. The test of the rule,
  `test_batch_admission_timeout_after_response_start_is_not_answered_twice`
  (`src/tests/unit/entrypoints/test_middleware.py:108`), is about the publishing path, where it holds. Without the
  exception TLC finds the 503 after the 413 in five steps.
- Sessions that save the gate's shared state file at one time lose records, so a failure may block more
  often than the limit, while `src/.codex/hooks/README.md:85-88` says "The same failure [...] is blocked at most three
  times; the fourth stop passes." `BlocksEnd` bounds the blocks of a session whose record no other one overwrote.

Nothing in the repository promises otherwise for the rest:

- An execution that another replaced in `_executions` is neither revoked nor drained; it may still run
  when `run` returns (`ExitIsClean`).
- The gate records the tree as it is after the checks: what another session edits
  meanwhile passes unseen (`CachedWasJudged`).
- The first rebuild of an account with history may converge too. A legacy timeline followed the order of arrival between
  ties, so a gap that arrived last at a tie can be its open row without being its last one. Where the rebuild's last segment
  is that gap, it converges with this row, and the rows after it stay (`ReplayIsExact`; `_rebuild_legacy_projection`,
  `src/src/mosemo/observation/application/batches.py:272` means to keep the replacement from converging before that, by
  calling it with the last record's instant). The proof of `ReplaysAreExact` found this; the runs' histories have no such ties.
- A metric line stamped before the end of a report's window and appended after the report has read the log
  is counted by no report (`ReportsAddUp`).

## 6. Proofs

`LabelProposalsProofs` proves, for all sets of workers, segments, versions and labels, any
attempt limit, delays and lease (the module's `ConstantsAssumption`):
`TypeCorrect`, `AttemptHasOneOwner`, `NewestAttemptSafe`, `SettledStays`,
`UserChoiceRespected`, `WorkersImplementOutcomes`, and `LockHoldsVersion` where no batch takes
the Kafka path.

The argument is one inductive invariant, `IInv`. `SingleOwner` alone is not inductive: that two
workers cannot own one attempt depends on tokens never being drawn twice, so `IInv` adds that
a processing row's token is its attempt count, that a worker's token is at most the attempt
count of its target, that two workers on one target hold different tokens, and what a locked transaction
knows of its worker. `InitIInv` and `NextStep` (a lemma for each action) give
`IInvHolds`; the invariants follow from it. The action properties follow from `RowWrites`,
which says in which ways a step can write a row. Refinement is one step of `ProposalOutcomes`,
or a stutter, for each of these ways (`OneRowRefines`).

`BatchDeliveryProofs` proves, for all sets of workers, requests, batches and contents and any number of
faults (`DeliveryAssumption`): `TypeCorrect`, `NothingAckedIsLost`, `SingleWriter`,
`FirstBatchIsKnown` and `DeliveryImplementsEffects`. None of the four properties is inductive.
The inductive invariant `IInv` adds, for a worker that runs or has a task (`Trusted`), that every
message below the one it handles has its receipt (`ReadOK`); for an open transaction, that it
handles the first message without a receipt (`ClaimOK`), from which `OneClaim` follows: two
transactions would be for one message, so for one key; what a worker in `claimed` or
`committing` knows of its transaction (`HoldOK`); and that `has_for_account`'s answer is
stale only for a worker whose batch has its receipt by then, so that it cannot claim (`StaleOK`).
There is a lemma for each kind of step (`LivingKeeps`, `FailKeeps`, `ClaimKeeps`, `HandlingKeeps`, `CommitKeeps`,
`BrokerWritesKeeps`, `OutsideKeeps`); `CommitAdds` says what a commit appends and is also the
only step of the refinement that is not a stutter or an arrival.

`LockedWritesCurrent` is the legacy path's half of finding 1: where every batch waits for the lock
(`~KafkaPath`), a suggestion is written for the version that is current and a label that is active.
`KafkaPath` is a constant, so the theorem supposes nothing of a behaviour.

`AccountProofs`. In `FocusSessions` the inductive invariant (`FocusInvariant`) is about the session's row lock: one open
transaction has a session's row (`OneHolder`), a transaction that links records has the rows of their sessions and the
records fit what those say (`NewFits`), and what a client was told of a start or completion is in the row
(`StartTold`, `CompletionTold`). From it follow `RecordsAreCovered` (a completed session ends after every record
linked to it), `FocusAnswersStand` and `CompletedSessionsStay`.
In `SignIn` (`SignInInvariant`), one login inserts a user's account and the others wait (`OneInserter`), a code is
determined by its attempt, whose callback has committed (`CodeOK`), and one exchange has a code's lock and knows its
row (`OneLock`, `ExchangeOK`): `LabelsCreatedOnce`, `TokensStayExclusive`, `LiveCodesAreKept`. In `Devices` (`DeviceInvariant`), a
request that inserts keeps others with its key from inserting: `RepeatsNameOneDevice`.

`LabelConfirmationsProofs`. One request has the timeline lock (`OneWriter`), and what a batch has found so far is still so in
the table (`SelectionsOK`); that is `ConfirmInvariant`. `BatchesAreHeld` and `ChangesAreLater` follow.

`RequestsProofs`. `AdmissionInvariant` says at which steps an answer has started and what has been done of the batch
then (`ArrivalOK`), the second answer of `RefusedLate` included: `BatchesAreAnsweredTruly` follows.
`SentInv`, what the publisher was given, is kept along with it;
`PublishedIsDecoded` is the round trip of the contract for every accepted body, of any shape, and not only for the 24
bodies of the run. `UnitInvariant` says that every event raised is in one place, once (`InOnePlace`), and that what a
transaction loaded is no older than its beginning (`RowsInv`): `EventsAreHandled`, `ReadsAreFresh`. `RequestsTypeCorrect` and
`RepeatsAreSafe` are about the run's composition: a step is one component's step, and the others rest.

`ProcessesProofs`. `ProcessesInvariant` has a part for each component. Of the supervisor: a worker's
positions pass only processed messages and its task's own (`PositionsCovered`), unless the worker commits nothing any more
or a revocation crossed workers, and once the process drains, every task it can find is awaited (`DrainOK`):
`OffsetsPassNothing`, `ProcessesExitCleanly`. Of the sweep: what wants a label since the sweep began was visited, or is in
the page or behind it (`StillToCome`): `SweepsAreComplete`. Of the gate: every fingerprint that a record lets pass, in the
file or in the copy a session is about to save, was judged (`RecordsAreJudged`), and blocks are counted as they were
answered (`BlocksCounted`): `GateIsSound`. Of the reports (`ReportsInv`): windows follow one another, each report
read no less of the log than the one before, and every line is of an edit, a stop or a review: `ReportsAreConsistent`.
What a report counts is a fold over the lines of its window. `PartsAdd` says that such counts of disjoint finite parts add up to the count
of their union, `WindowsCover` and `CountedOnce` that the windows are such parts of the log but for the late lines,
`NewOnce` that a session is new in one window at most, and `ReviewsKept` that the reviews are those of the lines, in
the order of time. `TrendCounts`, `DaysAdd` and `RevsAdd` are the same argument by day and by revision. The order of lines is `InTime`, an
operator of the module: the prover cannot expand the library's sorting.

`TimelineProofs`. A fold is a recursive function on the number of records, and a property of it needs
induction on them. No induction theorem of the library can be used, as it takes an operator as a parameter; the
lemmas of `SequenceLemmas` go round that: a set of naturals that is not empty has a least element (`LeastNumber`), so
that a claim that fails has a first number at which it fails. The same module shows that the recursive functions
and the library's folds (`StepsDefined`, `FoldDefined`) are what their definitions say, and what sorting a finite set by a rank gives
(`OrderedSet`, `Ranks`). With these:

- `FoldFollowsRules`: for every finite set of observations, what `Fed` and `finish` produce is the grouping the product's rules
  define (`FoldGroups`). `Told` says what the fold has told after `n` records, closed segments and the open one;
  `FoldTells` is the step from `n` to `n + 1`.
- `TimelineInvariant`: records keep one row for one device and sequence, and the stored rows are
  made of stored records, have a segment's shape, and no two of them share an id or a first event, through any number of batches (`RowsOK`). Each way in which a
  transaction writes has its lemma: `AppendKeeps`, `ReplayKeeps`, `RebuildKeeps`, `LegacyRows`. Those rest on what the fold produces
  from any state (`ProjectSound`), on a replay whose suffix converges (`CutsAgree`, `ConvergedRow`) and on ids that `_reusable_id`
  hands on no more than once (`FreshId`, `ReusedId`, `RowsWritten`).
- `SegmentsStayWellFormed`: the table's checks, from it.
- `SeenVersionsStand`: newer records only append to the last segment, which silence has closed for the reader
  where the projection closes it.
- `ReplaysAreExact`. `FoldGoesOn`: from a record that opens a segment (`OpensWindow`, which is what the instant of a replay's
  start is where `StartsAreCuts`), the fold tells the same segments whether it began there or at the first record.
  `ReplayExact` joins the rows before the start, the segments told up to the page where the replay stops, and the rows from the
  converged one on; `AppendExact` and `RebuildExact` are the other two ways of a batch.
- `IdsAreHandedOn`. `_reusable_id` compares instants, and takes the first row that is free. `Inherits`: where no two
  segments start at one instant, a row may hand its id on to a segment just where its first record falls in that segment
  and is of its kind; a row at the instant where the next segment starts would also pass, but for the silence there is between two
  segments of one kind (`SilenceBetween`). As records fall in one segment each (`PieceFound`, `PiecesApart`), no row is continued by two (`Heirs`),
  so the order in which ids are served does not matter: a segment gets the id of the first row it continues, or a new one
  (`IdsHandedOn`), which is what `LiveOn` asks (`HandedLiveOn`). `ReplayHands` and `AppendHands` are the two ways of a batch; neither
  supposes that the rows were exact.
- `DaysAreTold`, also from it. `ShownInDay`: the database's condition on the stored end and the reader's on the end that
  silence gives let pass, together, what has an instant in the day. `LabelIsChosen`: no confirmation of another row is found, as first
  events are unique. `ItemsGrouped`: after `n` entries, one after the other, the items are these entries, and there is one for each
  that does not join the one before it.

What the proofs suppose of the constants, beyond what was named above (each assumption is in the
module that declares the constant, and TLC evaluates all of them): `FocusAssumption`, `SignInAssumption`,
`ConfirmationsAssumption`, `GateAssumption` and `SupervisorAssumption` give the kinds of values and keep the values
that mean "nothing" apart from the others, as `None` is in the code; the supervisor has a partition;
`ReportsAssumption` has finitely many hooks and finitely many facts a line can state, and
entry points whose kinds are the reports'; `InputsAssumption` has batches and histories that are finite and hold each
device's sequence once, as `tables.py`'s key has it, and a finite clock; `ReadsAssumption` has days of some length.

Left to TLC is liveness, which the prover cannot do: `EveryVersionSettles`, `AcceptedIsProcessed` and
`StopEnds`, and `WaitingIsServed`, which a run refutes (section 5). Every other property of the passing runs is the statement of a theorem.

## 7. Not modelled

- Repository validators, documentation and coverage scripts, `protect_main`: single passes over
  files, each rule a predicate on text. `StopGate` has their verdict as a function of the tree.
- Migrations, OpenAPI export, logging, configuration, dependency wiring: no behaviour that a property is about.
  The tables' constraints are in the modules that rely on them.
- Routers and schemas other than those of batches, sign in and devices: one call, one answer.
  Issuing and checking access tokens keeps no state on the server.
- The model provider and Kakao are outside: any answer, or none. So are the examples retrieved for the model.
- `RecordActivity`, which stores and projects a single record, has no entry point at this commit. Its lock,
  its link to a session and its retry are in `FocusSessions`. Its projection is `ReplayOn` of one record, without
  receipt, rebuild and check of the device's order, and is no action of `ActivityTimeline`.
- Of the reports, transcripts, panel reviews and the written text; other accounts in a partition and log
  retention; an upper bound on a record's `sequence`, which the schema leaves to the column.
- JSON that does not parse, and bytes as such.
