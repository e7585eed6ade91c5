--------------------------- MODULE BatchDelivery ---------------------------
(***************************************************************************)
(* Delivery of one account's activity batches: the API publishes a batch   *)
(* and answers (platform/messaging/publisher.py), consumers of one group   *)
(* read the account's partition and process each message in a transaction  *)
(* guarded by a receipt (observation/application/batches.py), then         *)
(* acknowledge it (platform/messaging/subscriber.py).                      *)
(*                                                                         *)
(* A consumer is one of FastStream's workers, with a Kafka client of its   *)
(* own; it handles one message at a time.  What it believes (assigned) is  *)
(* kept apart from what the group coordinator decided (owner).  What a     *)
(* batch does to the timeline is the subject of ActivityTimeline.          *)
(***************************************************************************)
EXTENDS Naturals, Sequences, FiniteSets

CONSTANTS
  Batch,      \* receipt keys of the account: device and batch id
  Content,    \* fingerprints
  Sent,       \* the messages clients send
  Terminal,   \* messages the processor refuses: device not owned, time regression
  Request,    \* HTTP requests
  Consumer,   \* subscribed workers
  MaxFaults,  \* bound: crashes, expired sessions, rebalances, stops, lost offsets, failures
  NoOne,      \* no consumer
  NoClaim     \* no open transaction has inserted this receipt

Message == [batch : Batch, content : Content]

ASSUME DeliveryAssumption ==
  /\ Sent \subseteq Message
  /\ Terminal \subseteq Message
  /\ MaxFaults \in Nat
  /\ NoOne \notin Consumer
  /\ NoClaim \notin [by : Consumer \union {NoOne}, at : Nat,
                     initialized : BOOLEAN, sent : BOOLEAN]

VARIABLES
  request,    \* request[r]: the message of a request, its record and its answer
  log,        \* the partition: messages in the order the broker wrote them
  committed,  \* the group's committed offset: messages acknowledged
  owner,      \* whom the coordinator assigned the partition
  consumer,   \* consumer[c]: a worker and the message it handles
  claim,      \* claim[b]: the open transaction that has inserted receipt b
  receipts,   \* committed rows of activity_batch_receipts, in commit order
  faults      \* faults so far

vars == <<request, log, committed, owner, consumer, claim, receipts, faults>>

-----------------------------------------------------------------------------
(* State *)

(* A record is flying until the broker wrote it; one that the producer     *)
(* drops flies for ever.  The answer need not wait for it.                 *)
RequestState ==
  [record : {"none", "flying", "written"},
   answer : {"none", "waiting", "accepted", "unavailable"},
   message : Sent]

(* received: the client returned a message, its task is not yet registered *)
(* in _executions.  executing: the transaction is about to claim.          *)
(* claimed: the receipt is inserted.  committing: COMMIT was sent.         *)
(* processed: process() has returned, ack() has not.                       *)
Active == {"executing", "claimed", "committing", "processed"}

ConsumerState ==
  [status : {"down", "running", "closing"},  \* closing: _closing or the stop event
   assigned : BOOLEAN,                       \* it believes it owns the partition
   position : Nat,                           \* messages it has read
   step : {"idle", "received"} \union Active,
   at : Nat,                                 \* offset of the message it handles
   initialized : BOOLEAN]                    \* what has_for_account returned

Down == [status |-> "down", assigned |-> FALSE, position |-> 0,
         step |-> "idle", at |-> 0, initialized |-> FALSE]

Claim ==
  [by : Consumer \union {NoOne},  \* NoOne: its client is gone
   at : Nat,
   initialized : BOOLEAN,
   sent : BOOLEAN]                \* COMMIT was sent

Processed == {receipts[i] : i \in DOMAIN receipts}

HasReceipt(b) == \E m \in Processed : m.batch = b

Handled(c) == log[consumer[c].at]

Init ==
  /\ request \in [Request -> {r \in RequestState : r.record = "none" /\ r.answer = "none"}]
  /\ log = <<>>
  /\ committed = 0
  /\ owner = NoOne
  /\ consumer = [c \in Consumer |-> Down]
  /\ claim = [b \in Batch |-> NoClaim]
  /\ receipts = <<>>
  /\ faults = 0

Fault ==
  /\ faults < MaxFaults
  /\ faults' = faults + 1

-----------------------------------------------------------------------------
(* Acceptance: the API process and the producer *)

(* AcceptActivityBatch.execute hands the batch to the publisher.           *)
Publish(r) ==
  /\ request[r].answer = "none"
  /\ request' = [request EXCEPT ![r] = [@ EXCEPT !.record = "flying", !.answer = "waiting"]]
  /\ UNCHANGED <<log, committed, owner, consumer, claim, receipts, faults>>

(* The broker writes the record, once (acks=all, idempotent producer);     *)
(* this may be after the API gave up on it.                                *)
BrokerWrites(r) ==
  /\ request[r].record = "flying"
  /\ log' = Append(log, request[r].message)
  /\ request' = [request EXCEPT ![r] = [@ EXCEPT !.record = "written"]]
  /\ UNCHANGED <<committed, owner, consumer, claim, receipts, faults>>

(* publish returned within the acknowledgment timeout: 202.                *)
Accept(r) ==
  /\ request[r].answer = "waiting"
  /\ request[r].record = "written"
  /\ request' = [request EXCEPT ![r] = [@ EXCEPT !.answer = "accepted"]]
  /\ UNCHANGED <<log, committed, owner, consumer, claim, receipts, faults>>

(* DeliveryUnavailableError or the admission timeout: 503.  A timeout does *)
(* not establish that nothing was published.                               *)
GiveUp(r) ==
  /\ request[r].answer = "waiting"
  /\ request' = [request EXCEPT ![r] = [@ EXCEPT !.answer = "unavailable"]]
  /\ UNCHANGED <<log, committed, owner, consumer, claim, receipts, faults>>

-----------------------------------------------------------------------------
(* The consumer group and the life of a worker *)

Unassigned(c) == IF owner = c THEN NoOne ELSE owner

Start(c) ==
  /\ consumer[c].status = "down"
  /\ consumer' = [consumer EXCEPT ![c] = [Down EXCEPT !.status = "running"]]
  /\ UNCHANGED <<request, log, committed, owner, claim, receipts, faults>>

(* Mutant of Assign: auto_offset_reset is "latest".                        *)
AssignLatest(c) ==
  /\ owner = NoOne
  /\ consumer[c].status = "running"
  /\ ~consumer[c].assigned
  /\ owner' = c
  /\ consumer' = [consumer EXCEPT ![c] =
       [@ EXCEPT !.assigned = TRUE,
                 !.position = IF committed = 0 THEN Len(log) ELSE committed]]
  /\ UNCHANGED <<request, log, committed, claim, receipts, faults>>

(* A rebalance gives the partition to c, which resumes at the committed    *)
(* offset, or at the earliest message when there is none.                  *)
Assign(c) ==
  /\ owner = NoOne
  /\ consumer[c].status = "running"
  /\ ~consumer[c].assigned
  /\ owner' = c
  /\ consumer' = [consumer EXCEPT ![c] =
                    [@ EXCEPT !.assigned = TRUE, !.position = committed]]
  /\ UNCHANGED <<request, log, committed, claim, receipts, faults>>

(* The coordinator stopped hearing from c, which goes on as if it owned    *)
(* the partition.                                                          *)
SessionExpires(c) ==
  /\ owner = c
  /\ owner' = NoOne
  /\ Fault
  /\ UNCHANGED <<request, log, committed, consumer, claim, receipts>>

(* The transaction of a worker's task is gone when the task is cancelled   *)
(* or fails, unless its COMMIT was sent: then only the server knows.       *)
Abandoned(c) ==
  [b \in Batch |->
     IF claim[b] = NoClaim \/ claim[b].by # c THEN claim[b]
     ELSE IF claim[b].sent THEN [claim[b] EXCEPT !.by = NoOne]
     ELSE NoClaim]

(* on_partitions_revoked and revoke: the registered task is cancelled and  *)
(* awaited, then the partition is given up.  A message that was read but   *)
(* has no task yet is not found.  A worker whose session expired is told   *)
(* the same way when it next hears from the coordinator.                   *)
Revoke(c) ==
  /\ consumer[c].assigned
  /\ IF owner = c THEN Fault ELSE UNCHANGED faults
  /\ owner' = Unassigned(c)
  /\ claim' = Abandoned(c)
  /\ consumer' = [consumer EXCEPT ![c] =
     IF consumer[c].step \in Active
     THEN [@ EXCEPT !.assigned = FALSE, !.step = "idle"]
     ELSE [@ EXCEPT !.assigned = FALSE]]
  /\ UNCHANGED <<request, log, committed, receipts>>

(* The process is killed; the server sees its connection go.               *)
Crash(c) ==
  /\ consumer[c].status # "down"
  /\ Fault
  /\ consumer' = [consumer EXCEPT ![c] = Down]
  /\ owner' = Unassigned(c)
  /\ claim' = [b \in Batch |->
                 IF claim[b] = NoClaim \/ claim[b].by # c THEN claim[b]
                 ELSE [claim[b] EXCEPT !.by = NoOne]]
  /\ UNCHANGED <<request, log, committed, receipts>>

(* The stop event is set; so it is for a worker when the other worker of   *)
(* its process fails.                                                      *)
Stop(c) ==
  /\ consumer[c].status = "running"
  /\ Fault
  /\ consumer' = [consumer EXCEPT ![c] = [@ EXCEPT !.status = "closing"]]
  /\ UNCHANGED <<request, log, committed, owner, claim, receipts>>

(* _drain ran out of shutdown_timeout: the task is cancelled.              *)
DrainTimeout(c) ==
  /\ consumer[c].status = "closing"
  /\ consumer[c].step \in Active
  /\ claim' = Abandoned(c)
  /\ consumer' = [consumer EXCEPT ![c] = [@ EXCEPT !.step = "idle"]]
  /\ UNCHANGED <<request, log, committed, owner, receipts, faults>>

(* Nothing in flight any more: broker.stop() leaves the group.             *)
Exit(c) ==
  /\ consumer[c].status = "closing"
  /\ consumer[c].step \notin Active
  /\ consumer' = [consumer EXCEPT ![c] = Down]
  /\ owner' = Unassigned(c)
  /\ UNCHANGED <<request, log, committed, claim, receipts, faults>>

(* The group's offsets expire while it has no member.                      *)
OffsetsExpire ==
  /\ owner = NoOne
  /\ Fault
  /\ committed' = 0
  /\ UNCHANGED <<request, log, owner, consumer, claim, receipts>>

-----------------------------------------------------------------------------
(* Handling one message *)

(* The client returns the next message.  It fetches without asking the     *)
(* coordinator, so a worker that lost the partition may go on reading.     *)
Receive(c) ==
  /\ consumer[c].assigned
  /\ consumer[c].step = "idle"
  /\ consumer[c].position < Len(log)
  /\ consumer' = [consumer EXCEPT ![c] =
                    [@ EXCEPT !.step = "received",
                              !.position = consumer[c].position + 1,
                              !.at = consumer[c].position + 1]]
  /\ UNCHANGED <<request, log, committed, owner, claim, receipts, faults>>

(* Mutant of Handle: _closing is not checked.                              *)
HandleClosing(c) ==
  /\ consumer[c].step = "received"
  /\ consumer' = [consumer EXCEPT ![c] =
       [@ EXCEPT !.step = "executing", !.initialized = (receipts # <<>>)]]
  /\ UNCHANGED <<request, log, committed, owner, claim, receipts, faults>>

(* Mutant of Handle: has_for_account is not asked for each message.        *)
HandleRemembering(c) ==
  /\ consumer[c].step = "received"
  /\ consumer' = [consumer EXCEPT ![c] =
       IF consumer[c].status = "closing"
       THEN [@ EXCEPT !.step = "idle"]
       ELSE [@ EXCEPT !.step = "executing"]]
  /\ UNCHANGED <<request, log, committed, owner, claim, receipts, faults>>

(* handle returns at once when the process is closing.  Otherwise it       *)
(* registers the task, which reads whether the account has a receipt.      *)
Handle(c) ==
  /\ consumer[c].step = "received"
  /\ consumer' = [consumer EXCEPT ![c] =
       IF consumer[c].status = "closing"
       THEN [@ EXCEPT !.step = "idle"]
       ELSE [@ EXCEPT !.step = "executing", !.initialized = (receipts # <<>>)]]
  /\ UNCHANGED <<request, log, committed, owner, claim, receipts, faults>>

(* Mutant of ClaimReceipt: the key does not stop a committed receipt.      *)
ClaimAgain(c) ==
  LET b == Handled(c).batch IN
  /\ consumer[c].step = "executing"
  /\ claim[b] = NoClaim
  /\ claim' = [claim EXCEPT ![b] =
       [by |-> c, at |-> consumer[c].at,
        initialized |-> consumer[c].initialized, sent |-> FALSE]]
  /\ consumer' = [consumer EXCEPT ![c] = [@ EXCEPT !.step = "claimed"]]
  /\ UNCHANGED <<request, log, committed, owner, receipts, faults>>

(* INSERT ... ON CONFLICT DO NOTHING: it waits for an open transaction     *)
(* that inserted the same key.                                             *)
ClaimReceipt(c) ==
  LET b == Handled(c).batch IN
  /\ consumer[c].step = "executing"
  /\ claim[b] = NoClaim
  /\ ~HasReceipt(b)
  /\ claim' = [claim EXCEPT ![b] =
       [by |-> c, at |-> consumer[c].at,
        initialized |-> consumer[c].initialized, sent |-> FALSE]]
  /\ consumer' = [consumer EXCEPT ![c] = [@ EXCEPT !.step = "claimed"]]
  /\ UNCHANGED <<request, log, committed, owner, receipts, faults>>

(* claim returned None: the stored results of the same content.            *)
WinnerResults(c) ==
  /\ consumer[c].step = "executing"
  /\ claim[Handled(c).batch] = NoClaim
  /\ Handled(c) \in Processed
  /\ consumer' = [consumer EXCEPT ![c] = [@ EXCEPT !.step = "processed"]]
  /\ UNCHANGED <<request, log, committed, owner, claim, receipts, faults>>

(* process() returned and the unit of work sends COMMIT.                   *)
SendCommit(c) ==
  /\ consumer[c].step = "claimed"
  /\ Handled(c) \notin Terminal
  /\ claim' = [claim EXCEPT ![Handled(c).batch] = [@ EXCEPT !.sent = TRUE]]
  /\ consumer' = [consumer EXCEPT ![c] = [@ EXCEPT !.step = "committing"]]
  /\ UNCHANGED <<request, log, committed, owner, receipts, faults>>

(* The server commits; the client, if it is still there, learns of it.     *)
Commit(b) ==
  /\ claim[b] # NoClaim
  /\ claim[b].sent
  /\ receipts' = Append(receipts, log[claim[b].at])
  /\ claim' = [claim EXCEPT ![b] = NoClaim]
  /\ consumer' = [c \in Consumer |->
       IF c = claim[b].by THEN [consumer[c] EXCEPT !.step = "processed"] ELSE consumer[c]]
  /\ UNCHANGED <<request, log, committed, owner, faults>>

(* The server ends the transaction of a client that is gone.               *)
RollBack(b) ==
  /\ claim[b] # NoClaim
  /\ claim[b].by = NoOne
  /\ claim' = [claim EXCEPT ![b] = NoClaim]
  /\ UNCHANGED <<request, log, committed, owner, consumer, receipts, faults>>

(* _fail: the exception of a task sets _closing, in the step that ends the *)
(* task, so this worker handles no later message.                          *)
Fail(c) ==
  /\ claim' = Abandoned(c)
  /\ consumer' = [consumer EXCEPT ![c] =
                    [@ EXCEPT !.status = "closing", !.step = "idle"]]
  /\ UNCHANGED <<request, log, committed, owner, receipts>>

(* TerminalBatchError: a refused message (the device before the claim, the *)
(* records after it), or an id whose receipt has another fingerprint.      *)
TerminalError(c) ==
  /\ \/ /\ consumer[c].step \in {"executing", "claimed"}
        /\ Handled(c) \in Terminal
     \/ /\ consumer[c].step = "executing"
        /\ claim[Handled(c).batch] = NoClaim
        /\ HasReceipt(Handled(c).batch)
        /\ Handled(c) \notin Processed
  /\ Fail(c)
  /\ UNCHANGED faults

(* The database, the broker or the task's own cancellation.                *)
OtherError(c) ==
  /\ consumer[c].step \in Active
  /\ Fail(c)
  /\ Fault

(* Mutant of Ack: the offset is acknowledged before the commit returned.   *)
AckEarly(c) ==
  /\ consumer[c].step \in {"committing", "processed"}
  /\ consumer[c].assigned
  /\ owner = c
  /\ committed' \in {consumer[c].at, consumer[c].position}
  /\ consumer' = [consumer EXCEPT ![c] = [@ EXCEPT !.step = "idle"]]
  /\ UNCHANGED <<request, log, owner, claim, receipts, faults>>

(* Mutant of Ack: one offset too many.                                     *)
AckBeyond(c) ==
  /\ consumer[c].step = "processed"
  /\ consumer[c].assigned
  /\ owner = c
  /\ committed' = consumer[c].at + 1
  /\ consumer' = [consumer EXCEPT ![c] = [@ EXCEPT !.step = "idle"]]
  /\ UNCHANGED <<request, log, owner, claim, receipts, faults>>

(* message.ack() commits either the handled offset or all the client has   *)
(* read.                                                                   *)
Ack(c) ==
  /\ consumer[c].step = "processed"
  /\ consumer[c].assigned
  /\ owner = c
  /\ committed' \in {consumer[c].at, consumer[c].position}
  /\ consumer' = [consumer EXCEPT ![c] = [@ EXCEPT !.step = "idle"]]
  /\ UNCHANGED <<request, log, owner, claim, receipts, faults>>

(* The broker refuses the commit of a worker it took the partition from.   *)
AckRefused(c) ==
  /\ consumer[c].step = "processed"
  /\ owner # c
  /\ Fail(c)
  /\ UNCHANGED faults

(* A worker that knows it lost the partition has no offset to commit.      *)
AckNothing(c) ==
  /\ consumer[c].step = "processed"
  /\ ~consumer[c].assigned
  /\ consumer' = [consumer EXCEPT ![c] = [@ EXCEPT !.step = "idle"]]
  /\ UNCHANGED <<request, log, committed, owner, claim, receipts, faults>>

-----------------------------------------------------------------------------
Accepting(r) == Publish(r) \/ BrokerWrites(r) \/ Accept(r) \/ GiveUp(r)

Living(c) ==
  \/ Start(c) \/ Assign(c) \/ SessionExpires(c) \/ Revoke(c)
  \/ Crash(c) \/ Stop(c) \/ DrainTimeout(c) \/ Exit(c)

Handling(c) ==
  \/ Receive(c) \/ Handle(c) \/ ClaimReceipt(c) \/ WinnerResults(c)
  \/ SendCommit(c) \/ TerminalError(c) \/ OtherError(c)
  \/ Ack(c) \/ AckRefused(c) \/ AckNothing(c)

Next ==
  \/ \E r \in Request : Accepting(r)
  \/ \E c \in Consumer : Living(c) \/ Handling(c)
  \/ \E b \in Batch : Commit(b) \/ RollBack(b)
  \/ OffsetsExpire

Spec == Init /\ [][Next]_vars

(* What a worker does when nothing goes wrong, and what it is told.        *)
Progress(c) ==
  \/ Start(c) \/ Assign(c) \/ Exit(c)
  \/ owner # c /\ Revoke(c)
  \/ Receive(c) \/ Handle(c) \/ ClaimReceipt(c) \/ WinnerResults(c)
  \/ SendCommit(c) \/ TerminalError(c) \/ Ack(c) \/ AckRefused(c) \/ AckNothing(c)

(* The service manager restarts a worker's process, the group assigns the  *)
(* partition and the database answers.  Nothing is assumed of the clients, *)
(* the API or the producer.                                                *)
FairSpec ==
  /\ Spec
  /\ \A c \in Consumer : WF_vars(Progress(c))
  /\ \A b \in Batch : WF_vars(Commit(b)) /\ WF_vars(RollBack(b))

-----------------------------------------------------------------------------
(* Properties *)

(* Every variable has its type; the committed offset and what a worker has *)
(* read stay within the log.                                               *)
TypeOK ==
  /\ request \in [Request -> RequestState]
  /\ log \in Seq(Message)
  /\ committed \in 0..Len(log)
  /\ owner \in Consumer \union {NoOne}
  /\ consumer \in [Consumer -> ConsumerState]
  /\ \A c \in Consumer : consumer[c].position \in 0..Len(log)
  /\ claim \in [Batch -> Claim \union {NoClaim}]
  /\ receipts \in Seq(Message)
  /\ faults \in 0..MaxFaults

(* No acknowledged message is lost: everything below the committed offset  *)
(* has its receipt, with its own content, whichever worker acknowledged it *)
(* and whatever it knew of the group (commit before ACK, ADR 0006; a       *)
(* failed worker handles nothing behind the message it failed on).         *)
AckedIsProcessed == \A i \in 1..committed : log[i] \in Processed

(* At most one transaction that writes the account's timeline is open,     *)
(* though no lock is taken and a worker that lost the partition may still  *)
(* run beside the new owner: the partition's order and the receipt's key   *)
(* serialise them, as ActivityBatchProcessor assumes on the Kafka path.    *)
OneWriter ==
  \A b1, b2 \in Batch : claim[b1] # NoClaim /\ claim[b2] # NoClaim => b1 = b2

(* has_for_account is read before the receipt is claimed, so it may be     *)
(* stale by then; yet the transaction that holds a claim knows whether it  *)
(* is the account's first, on which the rebuild of its history depends.    *)
FirstBatchKnown ==
  \A b \in Batch :
    claim[b] # NoClaim => (claim[b].initialized <=> receipts # <<>>)

(* Batches take effect once, in log order, with their first content.       *)
Effects == INSTANCE BatchEffects WITH effects <- receipts
ImplementsEffects == Effects!Spec

(* A message the processor refuses: by its records, or because its id came *)
(* with another content before.                                            *)
Refused(n) ==
  \/ log[n] \in Terminal
  \/ \E i \in 1..(n - 1) :
       log[i].batch = log[n].batch /\ log[i].content # log[n].content

BlockedBefore(m) ==
  \E n \in DOMAIN log : Refused(n) /\ \A i \in 1..(n - 1) : log[i] # m

(* A batch the API accepted (202) is processed in the end, through         *)
(* crashes, rebalances, lost offsets and failures, unless a refused        *)
(* message stands before it (there is no failure policy yet:               *)
(* BatchFailureHandler).                                                   *)
AcceptedIsProcessed ==
  \A r \in Request :
    request[r].answer = "accepted"
      ~> \/ request[r].message \in Processed
         \/ BlockedBefore(request[r].message)
=============================================================================
