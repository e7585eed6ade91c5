------------------------- MODULE ConsumerSupervisor -------------------------
(***************************************************************************)
(* A consumer process: MessageConsumer runs two workers of one group, each *)
(* with a Kafka consumer of its own, and keeps for all of them the running *)
(* execution of each partition, which a revocation cancels and a shutdown  *)
(* waits for (platform/messaging/subscriber.py, kafka_compat.py).          *)
(*                                                                         *)
(* BatchDelivery has the contents of messages, receipts and other          *)
(* processes; here a message is its offset, and the group is this          *)
(* process's workers.                                                      *)
(***************************************************************************)
EXTENDS Naturals, FiniteSets

CONSTANTS
  Workers,
  Partitions,
  Length,         \* how many messages each partition has
  MaxRebalances,  \* bound of the rebalances
  Losable,        \* workers whose session may end while the process lives
  NoWorker        \* no execution

ASSUME SupervisorAssumption ==
  Length \in [Partitions -> Nat] /\ MaxRebalances \in Nat /\ Losable \subseteq Workers /\ NoWorker \notin Workers
  /\ Partitions # {}

VARIABLES
  phase,       \* where MessageConsumer.run is
  stopAsked,   \* the stop event
  closing,     \* _closing
  failure,     \* the exception of _failure is set
  startFailed, \* startup raised
  executions,  \* _executions: the worker of each partition's task
  revoked,     \* _revoked
  cancelling,  \* tasks with a cancellation to deliver
  awaited,     \* tasks _drain waits for
  task,        \* each worker's task
  revoking,    \* tasks each worker's revocation waits for, Nothing outside of one
  owned,       \* partitions each worker's consumer takes for its own
  position,    \* its next offset in each partition
  members,     \* members of the group
  joined,      \* members that have joined again, Nothing while none need to
  rebalances,  \* how many there were
  offset,      \* committed offset of each partition
  done,        \* messages whose transaction is committed
  lost,        \* history: an execution failed
  crossed      \* history: a revocation cancelled what another worker runs

supervisorVars == <<phase, stopAsked, closing, failure, startFailed, executions, revoked, cancelling,
  awaited, task, revoking, owned, position, members, joined, rebalances, offset, done, lost, crossed>>

runVars == <<phase, stopAsked, startFailed, awaited, crossed>>
groupVars == <<owned, position, members, joined, rebalances, revoking>>

\* No revocation, or no rebalance, is going on: a value that is no set of workers.
NotNow == {NoWorker}

Task == [step : {"none", "running", "stored", "acked", "failed", "cancelled"},
         partition : Partitions, offset : Nat]
NoTask == [step |-> "none", partition |-> CHOOSE p \in Partitions : TRUE, offset |-> 0]

SupervisorInit ==
  /\ phase = "starting"
  /\ stopAsked = FALSE /\ closing = FALSE /\ failure = FALSE /\ startFailed = FALSE
  /\ executions = [p \in Partitions |-> NoWorker]
  /\ revoked = {} /\ cancelling = {} /\ awaited = {}
  /\ task = [w \in Workers |-> NoTask]
  /\ revoking = [w \in Workers |-> NotNow]
  /\ owned = [w \in Workers |-> {}]
  /\ position = [w \in Workers |-> [p \in Partitions |-> 0]]
  /\ members = Workers /\ joined = Workers /\ rebalances = 0
  /\ offset = [p \in Partitions |-> 0]
  /\ done = {}
  /\ lost = FALSE /\ crossed = FALSE

Running(w) == task[w].step \in {"running", "stored"}
Alive == phase # "exited"

-----------------------------------------------------------------------------
(* The group *)

\* The coordinator asks the members to join again: a deployment, more partitions.
Rebalance ==
  /\ Alive /\ joined = NotNow /\ rebalances < MaxRebalances
  /\ joined' = {} /\ rebalances' = rebalances + 1
  /\ UNCHANGED <<runVars, closing, failure, executions, revoked, cancelling, task, revoking, owned,
                 position, members, offset, done, lost>>

\* The coordinator has not heard of a worker in time: the others go on without it, and it
\* does not know.
SessionEnds(w) ==
  /\ Alive /\ joined = NotNow /\ rebalances < MaxRebalances
  /\ w \in members \intersect Losable
  /\ members' = members \ {w}
  /\ joined' = {} /\ rebalances' = rebalances + 1
  /\ UNCHANGED <<runVars, closing, failure, executions, revoked, cancelling, task, revoking, owned,
                 position, offset, done, lost>>

MustJoin(w) == w \notin members \/ (joined # NotNow /\ w \notin joined)

\* revoke: what runs on a worker's partitions is cancelled, whoever runs it.
Revoke(w) ==
  LET tasks == {executions[p] : p \in owned[w]} \ {NoWorker}
  IN /\ Alive /\ MustJoin(w) /\ revoking[w] = NotNow
     /\ revoked' = revoked \union tasks
     /\ cancelling' = cancelling \union {x \in tasks : Running(x)}
     /\ revoking' = [revoking EXCEPT ![w] = tasks]
     /\ crossed' = (crossed \/ tasks \ {w} # {})
     /\ UNCHANGED <<phase, stopAsked, startFailed, awaited, closing, failure, executions, task, owned, position, members, joined,
                    rebalances, offset, done, lost>>

\* They have ended, and the worker joins.
Join(w) ==
  /\ Alive /\ revoking[w] = {}
  /\ revoking' = [revoking EXCEPT ![w] = NotNow]
  /\ owned' = [owned EXCEPT ![w] = {}]
  /\ position' = [position EXCEPT ![w] = [p \in Partitions |-> 0]]
  /\ members' = members \union {w}
  /\ joined' = IF joined = NotNow THEN {w} ELSE joined \union {w}
  /\ UNCHANGED <<runVars, closing, failure, executions, revoked, cancelling, task,
                 rebalances, offset, done, lost>>

\* The round robin of the assignor: no member has two partitions more than another.
Even(deal) ==
  LET share(w) == Cardinality({p \in Partitions : deal[p] = w})
  IN \A v, w \in members : share(v) <= share(w) + 1

\* All have joined: the partitions are dealt out, and read from their committed offsets.
AssignPartitions ==
  /\ Alive /\ joined # NotNow /\ members \subseteq joined /\ members # {}
  /\ joined' = NotNow
  /\ \E deal \in [Partitions -> members] :
       /\ Even(deal)
       /\ owned' = [w \in Workers |-> IF w \in members THEN {p \in Partitions : deal[p] = w} ELSE owned[w]]
       /\ position' = [w \in Workers |-> [p \in Partitions |->
                         IF deal[p] = w THEN offset[p] ELSE position[w][p]]]
  /\ UNCHANGED <<runVars, closing, failure, executions, revoked, cancelling, task, revoking, members,
                 rebalances, offset, done, lost>>

-----------------------------------------------------------------------------
(* A worker *)

\* Mutant of Fail: the failure is kept, and the workers go on.
FailOpen == failure' = TRUE /\ closing' = closing

\* _fail
Fail == failure' = TRUE /\ closing' = TRUE

\* The next message of a partition is there, and no rebalance holds it back.
Delivered(w, p) ==
  /\ Alive /\ task[w].step = "none" /\ revoking[w] = NotNow /\ p \in owned[w]
  /\ position[w][p] < Length[p]

\* handle: an execution begins, or none because the consumer is closing.
HandleMessage(w, p) ==
  /\ Delivered(w, p)
  /\ position' = [position EXCEPT ![w][p] = @ + 1]
  /\ IF closing \/ stopAsked THEN UNCHANGED <<task, executions>>
     ELSE /\ task' = [task EXCEPT ![w] = [step |-> "running", partition |-> p, offset |-> position[w][p]]]
          /\ executions' = [executions EXCEPT ![p] = w]
  /\ UNCHANGED <<runVars, closing, failure, revoked, cancelling, revoking, owned, members, joined,
                 rebalances, offset, done, lost>>

\* ObserveErrors: the message cannot be read at all.
RejectMessage(w, p) ==
  /\ Delivered(w, p)
  /\ position' = [position EXCEPT ![w][p] = @ + 1]
  /\ Fail
  /\ UNCHANGED <<runVars, executions, revoked, cancelling, task, revoking, owned, members, joined,
                 rebalances, offset, done, lost>>

Message(w) == <<task[w].partition, task[w].offset>>
Ended(w, step) == task' = [task EXCEPT ![w].step = step]

\* process: the message's transaction commits, or fails, or something cancels it.
Process(w) ==
  /\ task[w].step = "running" /\ w \notin cancelling
  /\ \/ Ended(w, "stored") /\ done' = done \union {Message(w)} /\ UNCHANGED lost
     \/ Ended(w, "failed") /\ lost' = TRUE /\ UNCHANGED done
     \/ Ended(w, "cancelled") /\ UNCHANGED <<done, lost>>
  /\ UNCHANGED <<runVars, groupVars, closing, failure, executions, revoked, cancelling, offset>>

\* Kafka commits the positions of the worker's partitions, all that were delivered.
CommittedBy(w) == [p \in Partitions |-> IF p \in owned[w] THEN position[w][p] ELSE offset[p]]

\* message.ack: refused once the session is over.
AckMessage(w) ==
  /\ task[w].step = "stored" /\ w \notin cancelling
  /\ IF w \in members
       THEN Ended(w, "acked") /\ offset' = CommittedBy(w) /\ UNCHANGED lost
       ELSE Ended(w, "failed") /\ lost' = TRUE /\ UNCHANGED offset
  /\ UNCHANGED <<runVars, groupVars, closing, failure, executions, revoked, cancelling, done>>

\* A cancellation is delivered; what had been sent may have been done.
Cancelled(w) ==
  /\ w \in cancelling
  /\ cancelling' = cancelling \ {w}
  /\ Ended(w, "cancelled")
  /\ done' \in {done, done \union {Message(w)}}
  /\ offset' \in {offset} \union
       (IF task[w].step = "stored" /\ w \in members THEN {CommittedBy(w)} ELSE {})
  /\ UNCHANGED <<runVars, groupVars, closing, failure, executions, revoked, lost>>

\* The end of handle: a failure, or a cancellation that nobody asked for, closes the
\* consumer; the partition's entry goes unless another task has replaced it.
FinishHandle(w) ==
  /\ task[w].step \in {"acked", "failed", "cancelled"}
  /\ IF task[w].step = "failed" \/ (task[w].step = "cancelled" /\ w \notin revoked /\ ~closing)
       THEN Fail ELSE UNCHANGED <<closing, failure>>
  /\ revoked' = revoked \ {w}
  /\ executions' = [p \in Partitions |->
       IF p = task[w].partition /\ executions[p] = w THEN NoWorker ELSE executions[p]]
  /\ task' = [task EXCEPT ![w] = NoTask]
  /\ revoking' = [x \in Workers |-> IF revoking[x] = NotNow THEN NotNow ELSE revoking[x] \ {w}]
  /\ awaited' = awaited \ {w}
  /\ UNCHANGED <<phase, stopAsked, startFailed, crossed, cancelling, owned, position, members, joined,
                 rebalances, offset, done, lost>>

-----------------------------------------------------------------------------
(* MessageConsumer.run *)

runOthers == <<crossed, failure, executions, revoked, task, groupVars, offset, done, lost>>

\* SIGTERM or SIGINT
AskStop ==
  /\ Alive /\ ~stopAsked
  /\ stopAsked' = TRUE
  /\ UNCHANGED <<runOthers, phase, closing, startFailed, awaited, cancelling>>

\* The broker is connected, or cannot be.
Started ==
  /\ phase = "starting"
  /\ \/ phase' = "running" /\ UNCHANGED <<startFailed, closing>>
     \/ phase' = "closing" /\ startFailed' = TRUE /\ closing' = TRUE
  /\ UNCHANGED <<runOthers, stopAsked, awaited, cancelling>>

\* A stop or a failure wakes the supervisor.
Wake ==
  /\ phase \in {"starting", "running"} /\ (stopAsked \/ failure)
  /\ phase' = "closing" /\ closing' = TRUE
  /\ UNCHANGED <<runOthers, stopAsked, startFailed, awaited, cancelling>>

\* _drain
Drain ==
  /\ phase = "closing"
  /\ phase' = "draining"
  /\ awaited' = {executions[p] : p \in Partitions} \ {NoWorker}
  /\ UNCHANGED <<runOthers, stopAsked, closing, startFailed, cancelling>>

\* Mutant of DrainTimesOut: the executions are waited for without a limit.
DrainPatiently == FALSE /\ UNCHANGED supervisorVars

\* Thirty seconds are over.
DrainTimesOut ==
  /\ phase = "draining"
  /\ {w \in awaited : Running(w)} \ cancelling # {}
  /\ cancelling' = cancelling \union {w \in awaited : Running(w)}
  /\ UNCHANGED <<runOthers, phase, stopAsked, startFailed, awaited, closing>>

\* Mutant of Drained: whoever is cancelled is not waited for.
DrainedUnawaited == \A w \in awaited : Running(w) => w \in cancelling

Drained == awaited = {}

\* broker.stop cancels what the workers still do, an execution another replaced, and does
\* not wait for it; the failure is raised here at the latest.
Exit ==
  /\ phase = "draining" /\ Drained
  /\ phase' = "exited"
  /\ cancelling' = cancelling \union {w \in Workers : Running(w)}
  /\ UNCHANGED <<runOthers, stopAsked, closing, startFailed, awaited>>

ExitFails == startFailed \/ failure

RunStep == AskStop \/ Started \/ Wake \/ Drain \/ DrainTimesOut \/ Exit

WorkerStep(w) ==
  \/ \E p \in Partitions : HandleMessage(w, p) \/ RejectMessage(w, p)
  \/ Process(w) \/ AckMessage(w) \/ Cancelled(w) \/ FinishHandle(w)

SupervisorNext ==
  \/ RunStep \/ Rebalance \/ AssignPartitions
  \/ \E w \in Workers : WorkerStep(w) \/ SessionEnds(w) \/ Revoke(w) \/ Join(w)

\* The event loop runs what is ready; no transaction and no acknowledgement need end.
SupervisorFairness ==
  /\ WF_supervisorVars(Wake \/ Drain \/ DrainTimesOut \/ Exit)
  /\ WF_supervisorVars(\E w \in Workers : Cancelled(w) \/ FinishHandle(w))

SupervisorSpec == SupervisorInit /\ [][SupervisorNext]_supervisorVars /\ SupervisorFairness

-----------------------------------------------------------------------------
(* Properties *)

\* The shape of the state.
SupervisorTypeOK ==
  /\ phase \in {"starting", "running", "closing", "draining", "exited"}
  /\ {stopAsked, closing, failure, startFailed, lost, crossed} \subseteq BOOLEAN
  /\ executions \in [Partitions -> Workers \union {NoWorker}]
  /\ revoked \subseteq Workers /\ cancelling \subseteq Workers /\ awaited \subseteq Workers
  /\ task \in [Workers -> Task]
  /\ revoking \in [Workers -> (SUBSET Workers) \union {NotNow}]
  /\ owned \in [Workers -> SUBSET Partitions]
  /\ \A w \in Workers, p \in Partitions : position[w][p] \in 0..Length[p]
  /\ members \subseteq Workers /\ (joined = NotNow \/ joined \subseteq Workers)
  /\ rebalances \in 0..MaxRebalances
  /\ \A p \in Partitions : offset[p] \in 0..Length[p]
  /\ done \subseteq Partitions \X Nat

NonePassed == \A p \in Partitions : \A o \in 0..(offset[p] - 1) : <<p, o>> \in done

\* Whatever is cancelled, revoked or refused, no committed offset passes a message that was
\* not processed, unless a revocation cancelled what another worker had begun since
\* (MessageConsumer.handle, revoke).
NoMessageSkipped == crossed \/ NonePassed

\* No committed offset ever passes a message that was not processed (ADR 0006: the next
\* batch is processed after the offset commit of the one before it).
BatchesInOrder == NonePassed

\* Where the process ends, an execution that has not ended is one that another replaced in
\* the dictionary, and one that failed, even in the drain, makes the process fail
\* (MessageConsumer.run, _drain).
ExecutionsEndFirst ==
  LET unfinished == {w \in Workers : task[w].step # "none"}
  IN phase = "exited" =>
       /\ \A w \in unfinished : executions[task[w].partition] # w
       /\ lost => ExitFails \/ unfinished # {}
=============================================================================
