------------------------ MODULE BatchDeliveryProofs ------------------------
(***************************************************************************)
(* Theorems about BatchDelivery, for every set of batches, messages,       *)
(* requests and consumers and any number of faults.                        *)
(***************************************************************************)
EXTENDS BatchDelivery, TLAPS

(* Everything up to offset n has its receipt.                              *)
UpTo(n) == \A i \in 1..n : log[i] \in Processed

(* A worker that is closing and has no task may have read past the message *)
(* it failed on; any other has read nothing that skips a message.          *)
Trusted(c) == consumer[c].status = "running" \/ consumer[c].step \in Active

ReadOK(c) ==
  /\ consumer[c].status = "down" => consumer[c].step = "idle" /\ ~consumer[c].assigned
  /\ consumer[c].step # "idle" => consumer[c].at \in 1..Len(log)
  /\ Trusted(c) /\ consumer[c].step # "idle" => UpTo(consumer[c].at - 1)
  /\ Trusted(c) /\ consumer[c].assigned =>
       \/ UpTo(consumer[c].position)
       \/ consumer[c].step # "idle" /\ consumer[c].position = consumer[c].at
  /\ consumer[c].step = "processed" => Handled(c) \in Processed

(* The worker inside a transaction that claimed is the one the claim names. *)
HoldOK(c) ==
  consumer[c].step \in {"claimed", "committing"} =>
    /\ claim[Handled(c).batch] # NoClaim
    /\ claim[Handled(c).batch].by = c
    /\ claim[Handled(c).batch].at = consumer[c].at

(* A claim is for the first message of the log without a receipt.          *)
ClaimOK(b) ==
  claim[b] # NoClaim =>
    /\ claim[b].at \in 1..Len(log)
    /\ log[claim[b].at].batch = b
    /\ UpTo(claim[b].at - 1)
    /\ ~HasReceipt(b)
    /\ claim[b].by # NoOne =>
         /\ consumer[claim[b].by].step \in {"claimed", "committing"}
         /\ consumer[claim[b].by].at = claim[b].at

(* What has_for_account returned is out of date only for a worker whose    *)
(* batch was processed meanwhile, and which therefore cannot claim it.     *)
StaleOK(c) ==
  consumer[c].step = "executing"
    /\ ~(consumer[c].initialized <=> receipts # <<>>) => HasReceipt(Handled(c).batch)

IInv ==
  /\ TypeOK
  /\ AckedIsProcessed
  /\ FirstBatchKnown
  /\ \A c \in Consumer : ReadOK(c) /\ HoldOK(c) /\ StaleOK(c)
  /\ \A b \in Batch : ClaimOK(b)

-----------------------------------------------------------------------------
(* Types *)

(* The record of a worker that starts.                                     *)
LEMMA DownType == Down \in ConsumerState /\ Down.position = 0
  BY DEF Down, ConsumerState

(* Claims stay claims when their client is gone.                           *)
LEMMA AbandonedType ==
  ASSUME TypeOK, NEW c \in Consumer
  PROVE  /\ Abandoned(c) \in [Batch -> Claim \union {NoClaim}]
         /\ \A b \in Batch :
              /\ Abandoned(c)[b] # NoClaim =>
                   /\ claim[b] # NoClaim
                   /\ Abandoned(c)[b].at = claim[b].at
                   /\ Abandoned(c)[b].initialized = claim[b].initialized
                   /\ Abandoned(c)[b].by # c
                   /\ Abandoned(c)[b].by # NoOne => Abandoned(c)[b].by = claim[b].by
              /\ claim[b] # NoClaim /\ claim[b].by # c => Abandoned(c)[b] = claim[b]
<1>1. ASSUME NEW b \in Batch, claim[b] # NoClaim
      PROVE  [claim[b] EXCEPT !.by = NoOne] \in Claim
  BY <1>1 DEF TypeOK, Claim
<1>2. ASSUME NEW b \in Batch
      PROVE  Abandoned(c)[b] = IF claim[b] = NoClaim \/ claim[b].by # c THEN claim[b]
                               ELSE IF claim[b].sent THEN [claim[b] EXCEPT !.by = NoOne]
                               ELSE NoClaim
  BY DEF Abandoned
<1>3. Abandoned(c) \in [Batch -> Claim \union {NoClaim}]
  BY <1>1 DEF Abandoned, TypeOK
<1>4. ASSUME NEW b \in Batch, claim[b] # NoClaim
      PROVE  LET k == [claim[b] EXCEPT !.by = NoOne] IN
             /\ k.by = NoOne /\ k.at = claim[b].at /\ k.initialized = claim[b].initialized
  BY <1>4 DEF TypeOK, Claim
<1>5. NoOne # c
  BY DeliveryAssumption
<1>6. ASSUME NEW b \in Batch
      PROVE  /\ Abandoned(c)[b] # NoClaim =>
                  /\ claim[b] # NoClaim
                  /\ Abandoned(c)[b].at = claim[b].at
                  /\ Abandoned(c)[b].initialized = claim[b].initialized
                  /\ Abandoned(c)[b].by # c
                  /\ Abandoned(c)[b].by # NoOne => Abandoned(c)[b].by = claim[b].by
             /\ claim[b] # NoClaim /\ claim[b].by # c => Abandoned(c)[b] = claim[b]
  <2>1. CASE claim[b] = NoClaim \/ claim[b].by # c
    BY <1>2, <2>1
  <2>2. CASE claim[b] # NoClaim /\ claim[b].by = c /\ claim[b].sent
    BY <1>2, <1>4, <1>5, <2>2
  <2>3. CASE claim[b] # NoClaim /\ claim[b].by = c /\ ~claim[b].sent
    BY <1>2, <2>3
  <2>4. QED
    BY <2>1, <2>2, <2>3
<1>7. QED
  BY <1>3, <1>6

(* What a worker handles and a claim names is in the log.                  *)
InLog ==
  /\ \A c \in Consumer : consumer[c].step # "idle" => consumer[c].at \in 1..Len(log)
  /\ \A c \in Consumer : HoldOK(c)
  /\ \A b \in Batch : claim[b] # NoClaim => claim[b].at \in 1..Len(log)

LEMMA TypeInductive == TypeOK /\ InLog /\ [Next]_vars => TypeOK'
<1> SUFFICES ASSUME TypeOK, InLog, [Next]_vars PROVE TypeOK'
  OBVIOUS
<1> USE DEF TypeOK
<1>1. CASE UNCHANGED vars
  BY <1>1 DEF vars
<1>2. ASSUME NEW r \in Request, Accepting(r) PROVE TypeOK'
  <2>1. request' \in [Request -> RequestState]
    <3>1. /\ [request[r] EXCEPT !.record = "flying", !.answer = "waiting"] \in RequestState
          /\ [request[r] EXCEPT !.record = "written"] \in RequestState
          /\ [request[r] EXCEPT !.answer = "accepted"] \in RequestState
          /\ [request[r] EXCEPT !.answer = "unavailable"] \in RequestState
      BY DEF RequestState
    <3>2. QED
      BY <1>2, <3>1 DEF Accepting, Publish, BrokerWrites, Accept, GiveUp
  <2>2. CASE BrokerWrites(r)
    <3>1. request[r].message \in Message
      BY DeliveryAssumption DEF RequestState
    <3>2. log' \in Seq(Message) /\ Len(log') = Len(log) + 1
      BY <2>2, <3>1 DEF BrokerWrites
    <3>3. QED
      BY <2>1, <2>2, <3>2 DEF BrokerWrites
  <2>3. CASE ~BrokerWrites(r)
    BY <1>2, <2>1, <2>3 DEF Accepting, Publish, Accept, GiveUp
  <2>4. QED
    BY <2>2, <2>3
<1>3. ASSUME NEW c \in Consumer, Living(c) PROVE TypeOK'
  <2>1. CASE Start(c)
    <3> DEFINE k == [Down EXCEPT !.status = "running"]
    <3>1. k \in ConsumerState /\ k.position = 0
      BY DownType DEF ConsumerState
    <3>2. QED
      BY <2>1, <3>1 DEF Start
  <2>2. CASE Assign(c)
    <3> DEFINE k == [consumer[c] EXCEPT !.assigned = TRUE, !.position = committed]
    <3>0. committed \in Nat
      OBVIOUS
    <3>1. k \in ConsumerState /\ k.position = committed
      BY <3>0 DEF ConsumerState
    <3>2. QED
      BY <2>2, <3>1 DEF Assign
  <2>3. CASE SessionExpires(c)
    <3>1. faults' \in 0..MaxFaults
      BY <2>3, DeliveryAssumption DEF SessionExpires, Fault
    <3>2. QED
      BY <2>3, <3>1 DEF SessionExpires
  <2>4. CASE Revoke(c)
    <3> DEFINE k == IF consumer[c].step \in Active
                    THEN [consumer[c] EXCEPT !.assigned = FALSE, !.step = "idle"]
                    ELSE [consumer[c] EXCEPT !.assigned = FALSE]
    <3>1. k \in ConsumerState /\ k.position = consumer[c].position
      BY DEF ConsumerState
    <3>2. claim' \in [Batch -> Claim \union {NoClaim}]
      BY <2>4, AbandonedType DEF Revoke
    <3>3. faults' \in 0..MaxFaults /\ owner' \in Consumer \union {NoOne}
      BY <2>4, DeliveryAssumption DEF Revoke, Fault, Unassigned
    <3>4. QED
      BY <2>4, <3>1, <3>2, <3>3 DEF Revoke
  <2>5. CASE Crash(c)
    <3>1. ASSUME NEW b \in Batch, claim[b] # NoClaim
          PROVE  [claim[b] EXCEPT !.by = NoOne] \in Claim
      BY <3>1 DEF Claim
    <3>2. claim' \in [Batch -> Claim \union {NoClaim}]
      BY <2>5, <3>1 DEF Crash
    <3>3. faults' \in 0..MaxFaults /\ owner' \in Consumer \union {NoOne}
      BY <2>5, DeliveryAssumption DEF Crash, Fault, Unassigned
    <3>4. QED
      BY <2>5, <3>2, <3>3, DownType DEF Crash
  <2>6. CASE Stop(c)
    <3> DEFINE k == [consumer[c] EXCEPT !.status = "closing"]
    <3>1. k \in ConsumerState /\ k.position = consumer[c].position
      BY DEF ConsumerState
    <3>2. QED
      BY <2>6, <3>1, DeliveryAssumption DEF Stop, Fault
  <2>7. CASE DrainTimeout(c)
    <3> DEFINE k == [consumer[c] EXCEPT !.step = "idle"]
    <3>1. k \in ConsumerState /\ k.position = consumer[c].position
      BY DEF ConsumerState
    <3>2. QED
      BY <2>7, <3>1, AbandonedType DEF DrainTimeout
  <2>8. CASE Exit(c)
    BY <2>8, DownType DEF Exit, Unassigned
  <2>9. QED
    BY <1>3, <2>1, <2>2, <2>3, <2>4, <2>5, <2>6, <2>7, <2>8 DEF Living
<1>4. ASSUME NEW c \in Consumer, Handling(c) PROVE TypeOK'
  <2>1. CASE Receive(c)
    <3> DEFINE k == [consumer[c] EXCEPT !.step = "received", !.position = consumer[c].position + 1,
                                        !.at = consumer[c].position + 1]
    <3>0. consumer[c].position + 1 \in Nat
      BY DEF ConsumerState
    <3>1. k \in ConsumerState /\ k.position = consumer[c].position + 1
      BY <3>0 DEF ConsumerState
    <3>2. QED
      BY <2>1, <3>1 DEF Receive
  <2>2. CASE Handle(c)
    <3> DEFINE k == IF consumer[c].status = "closing"
                    THEN [consumer[c] EXCEPT !.step = "idle"]
                    ELSE [consumer[c] EXCEPT !.step = "executing",
                                             !.initialized = (receipts # <<>>)]
    <3>1. k \in ConsumerState /\ k.position = consumer[c].position
      BY DEF ConsumerState, Active
    <3>2. QED
      BY <2>2, <3>1 DEF Handle
  <2>3. CASE ClaimReceipt(c)
    <3> DEFINE k == [consumer[c] EXCEPT !.step = "claimed"]
               new == [by |-> c, at |-> consumer[c].at,
                       initialized |-> consumer[c].initialized, sent |-> FALSE]
    <3>1. k \in ConsumerState /\ k.position = consumer[c].position
      BY DEF ConsumerState, Active
    <3>2. new \in Claim
      BY DEF Claim, ConsumerState
    <3>3. claim' \in [Batch -> Claim \union {NoClaim}]
      BY <2>3, <3>2 DEF ClaimReceipt
    <3>4. QED
      BY <2>3, <3>1, <3>3 DEF ClaimReceipt
  <2>4. CASE WinnerResults(c) \/ Ack(c) \/ AckNothing(c)
    <3>1. /\ [consumer[c] EXCEPT !.step = "processed"] \in ConsumerState
          /\ [consumer[c] EXCEPT !.step = "idle"] \in ConsumerState
          /\ [consumer[c] EXCEPT !.step = "processed"].position = consumer[c].position
          /\ [consumer[c] EXCEPT !.step = "idle"].position = consumer[c].position
      BY DEF ConsumerState, Active
    <3>2. Ack(c) => committed' \in 0..Len(log)
      BY DEF Ack, InLog
    <3>3. QED
      BY <2>4, <3>1, <3>2 DEF WinnerResults, Ack, AckNothing
  <2>5. CASE SendCommit(c)
    <3>1. /\ [consumer[c] EXCEPT !.step = "committing"] \in ConsumerState
          /\ [consumer[c] EXCEPT !.step = "committing"].position = consumer[c].position
      BY DEF ConsumerState, Active
    <3>2. ASSUME NEW b \in Batch, claim[b] # NoClaim
          PROVE  [claim[b] EXCEPT !.sent = TRUE] \in Claim
      BY <3>2 DEF Claim
    <3>3. claim[Handled(c).batch] # NoClaim
      BY <2>5 DEF SendCommit, InLog, HoldOK
    <3>4. consumer[c].at \in 1..Len(log)
      BY <2>5 DEF SendCommit, InLog
    <3>5. Handled(c) \in Message
      BY <3>4 DEF Handled
    <3>6. Handled(c).batch \in Batch
      BY <3>5 DEF Message
    <3>7. claim' \in [Batch -> Claim \union {NoClaim}]
      BY <2>5, <3>2, <3>3, <3>6 DEF SendCommit
    <3>8. QED
      BY <2>5, <3>1, <3>7 DEF SendCommit
  <2>6. CASE TerminalError(c) \/ OtherError(c) \/ AckRefused(c)
    <3> DEFINE k == [consumer[c] EXCEPT !.status = "closing", !.step = "idle"]
    <3>1. k \in ConsumerState /\ k.position = consumer[c].position
      BY DEF ConsumerState
    <3>2. Fail(c) /\ faults' \in 0..MaxFaults
      BY <2>6, DeliveryAssumption DEF TerminalError, OtherError, AckRefused, Fault
    <3>3. QED
      BY <3>1, <3>2, AbandonedType DEF Fail
  <2>7. QED
    BY <1>4, <2>1, <2>2, <2>3, <2>4, <2>5, <2>6 DEF Handling
<1>5. ASSUME NEW b \in Batch, Commit(b) PROVE TypeOK'
  <2>1. ASSUME NEW c \in Consumer
        PROVE  /\ [consumer[c] EXCEPT !.step = "processed"] \in ConsumerState
               /\ [consumer[c] EXCEPT !.step = "processed"].position = consumer[c].position
    BY DEF ConsumerState, Active
  <2>2. consumer' \in [Consumer -> ConsumerState]
        /\ \A c \in Consumer : consumer'[c].position = consumer[c].position
    BY <1>5, <2>1 DEF Commit
  <2>3. log[claim[b].at] \in Message
    BY <1>5 DEF Commit, InLog
  <2>4. receipts' \in Seq(Message)
    BY <1>5, <2>3 DEF Commit
  <2>5. claim' \in [Batch -> Claim \union {NoClaim}]
    BY <1>5 DEF Commit
  <2>6. QED
    BY <1>5, <2>2, <2>4, <2>5 DEF Commit
<1>6. ASSUME NEW b \in Batch, RollBack(b) PROVE TypeOK'
  BY <1>6 DEF RollBack
<1>7. CASE OffsetsExpire
  BY <1>7, DeliveryAssumption DEF OffsetsExpire, Fault
<1>8. QED
  BY <1>1, <1>2, <1>3, <1>4, <1>5, <1>6, <1>7 DEF Next

-----------------------------------------------------------------------------
(* The invariant is inductive *)

LEMMA InLogHolds == IInv => InLog
  BY DEF IInv, InLog, ReadOK, ClaimOK

(* Two claims would both be for the first message without a receipt.       *)
LEMMA OneClaim == IInv => OneWriter
<1> SUFFICES ASSUME IInv, NEW b1 \in Batch, NEW b2 \in Batch,
                    claim[b1] # NoClaim, claim[b2] # NoClaim, b1 # b2
             PROVE  FALSE
  BY DEF OneWriter
<1>1. ClaimOK(b1) /\ ClaimOK(b2)
  BY DEF IInv
<1> DEFINE i == claim[b1].at
           j == claim[b2].at
<1>2. i \in 1..Len(log) /\ j \in 1..Len(log) /\ log[i].batch = b1 /\ log[j].batch = b2
  BY <1>1 DEF ClaimOK
<1>3. ~(i < j)
  <2>1. ASSUME i < j PROVE log[i] \in Processed
    <3>1. UpTo(j - 1) /\ i \in 1..(j - 1)
      BY <1>1, <1>2, <2>1 DEF ClaimOK
    <3>2. QED
      BY <3>1 DEF UpTo
  <2>2. QED
    BY <1>1, <1>2, <2>1 DEF ClaimOK, HasReceipt
<1>4. ~(j < i)
  <2>1. ASSUME j < i PROVE log[j] \in Processed
    <3>1. UpTo(i - 1) /\ j \in 1..(i - 1)
      BY <1>1, <1>2, <2>1 DEF ClaimOK
    <3>2. QED
      BY <3>1 DEF UpTo
  <2>2. QED
    BY <1>1, <1>2, <2>1 DEF ClaimOK, HasReceipt
<1>5. i # j
  BY <1>2
<1>6. i \in Nat /\ j \in Nat
  BY <1>2
<1>7. QED
  BY <1>3, <1>4, <1>5, <1>6

(* The invariant, but for what it says of worker c and the offset.         *)
OthersOK(c) ==
  /\ FirstBatchKnown
  /\ \A d \in Consumer \ {c} : ReadOK(d) /\ HoldOK(d) /\ StaleOK(d)
  /\ \A b \in Batch : ClaimOK(b)

(* What a step of worker c that leaves the log and the receipts alone must *)
(* do to keep what the invariant says of everything else: open no claim,   *)
(* end none of another worker, and keep its own only inside a transaction. *)
LEMMA WorkerStep ==
  ASSUME IInv, NEW c \in Consumer,
         \A d \in Consumer \ {c} : consumer'[d] = consumer[d],
         log' = log, receipts' = receipts,
         \A b \in Batch : claim'[b] # NoClaim =>
           /\ claim[b] # NoClaim
           /\ claim'[b].at = claim[b].at
           /\ claim'[b].initialized = claim[b].initialized
           /\ claim'[b].by # NoOne => claim'[b].by = claim[b].by
           /\ claim'[b].by = c => /\ consumer'[c].step \in {"claimed", "committing"}
                                  /\ consumer'[c].at = consumer[c].at,
         \A b \in Batch : claim[b] # NoClaim /\ claim[b].by # c => claim'[b] = claim[b]
  PROVE  OthersOK(c)'
<1>1. TypeOK
  BY DEF IInv
<1>2. FirstBatchKnown'
  BY DEF IInv, FirstBatchKnown
<1>3. ASSUME NEW d \in Consumer \ {c} PROVE (ReadOK(d) /\ HoldOK(d) /\ StaleOK(d))'
  <2>1. ReadOK(d) /\ HoldOK(d) /\ StaleOK(d) /\ consumer'[d] = consumer[d]
    BY DEF IInv
  <2>2. Handled(d)' = Handled(d) /\ Processed' = Processed
    BY <2>1 DEF Handled, Processed
  <2>3. ReadOK(d)'
    BY <2>1, <2>2 DEF ReadOK, Trusted, UpTo
  <2>4. StaleOK(d)'
    BY <2>1, <2>2 DEF StaleOK, HasReceipt
  <2>5. CASE consumer[d].step \in {"claimed", "committing"}
    <3>1. consumer[d].at \in 1..Len(log)
      BY <2>1, <2>5 DEF ReadOK
    <3>2. Handled(d) \in Message
      BY <1>1, <3>1 DEF Handled, TypeOK
    <3>3. Handled(d).batch \in Batch
      BY <3>2 DEF Message
    <3>4. claim'[Handled(d).batch] = claim[Handled(d).batch]
      BY <2>1, <2>5, <3>3 DEF HoldOK
    <3>5. HoldOK(d)'
      BY <2>1, <2>2, <2>5, <3>4 DEF HoldOK
    <3>6. QED
      BY <2>3, <2>4, <3>5
  <2>6. CASE consumer[d].step \notin {"claimed", "committing"}
    BY <2>1, <2>3, <2>4, <2>6 DEF HoldOK
  <2>7. QED
    BY <2>5, <2>6
<1>4. ASSUME NEW b \in Batch PROVE ClaimOK(b)'
  <2>1. ClaimOK(b) /\ Processed' = Processed
    BY DEF IInv, Processed
  <2>2. CASE claim'[b] = NoClaim
    BY <2>2 DEF ClaimOK
  <2>3. CASE claim'[b] # NoClaim
    <3>1. /\ claim[b] # NoClaim
          /\ claim'[b].at = claim[b].at
          /\ claim'[b].by # NoOne => claim'[b].by = claim[b].by
      BY <2>3
    <3>2. /\ claim'[b].at \in 1..Len(log') /\ log'[claim'[b].at].batch = b
          /\ UpTo(claim[b].at - 1)' /\ ~HasReceipt(b)'
      BY <2>1, <3>1 DEF ClaimOK, UpTo, HasReceipt
    <3>3. claim[b].by \in Consumer \union {NoOne}
      BY <1>1, <3>1 DEF TypeOK, Claim
    <3>4. ASSUME claim'[b].by # NoOne
          PROVE  /\ consumer'[claim'[b].by].step \in {"claimed", "committing"}
                 /\ consumer'[claim'[b].by].at = claim'[b].at
      <4>1. CASE claim'[b].by = c
        BY <2>1, <2>3, <3>1, <3>4, <4>1 DEF ClaimOK
      <4>2. CASE claim'[b].by # c
        BY <2>1, <3>1, <3>3, <3>4, <4>2 DEF ClaimOK
      <4>3. QED
        BY <4>1, <4>2
    <3>5. QED
      BY <3>1, <3>2, <3>4 DEF ClaimOK
  <2>4. QED
    BY <2>2, <2>3
<1>5. QED
  BY <1>2, <1>3, <1>4 DEF OthersOK

(* A step of worker c that changes no claim.                               *)
LEMMA QuietStep ==
  ASSUME IInv, NEW c \in Consumer,
         \A d \in Consumer \ {c} : consumer'[d] = consumer[d],
         log' = log, receipts' = receipts, claim' = claim,
         \/ consumer[c].step \notin {"claimed", "committing"}
         \/ consumer'[c].step = consumer[c].step /\ consumer'[c].at = consumer[c].at
  PROVE  OthersOK(c)'
<1>1. ASSUME NEW b \in Batch, claim[b] # NoClaim, claim[b].by = c
      PROVE  consumer[c].step \in {"claimed", "committing"}
  <2>1. claim[b].by # NoOne
    BY <1>1, DeliveryAssumption
  <2>2. QED
    BY <1>1, <2>1 DEF IInv, ClaimOK
<1>2. QED
  BY <1>1, WorkerStep

(* The end of worker c's task, by an exception or a cancellation.          *)
LEMMA AbandonStep ==
  ASSUME IInv, NEW c \in Consumer,
         \A d \in Consumer \ {c} : consumer'[d] = consumer[d],
         log' = log, receipts' = receipts, claim' = Abandoned(c)
  PROVE  OthersOK(c)'
<1>1. TypeOK
  BY DEF IInv
<1>2. QED
  BY <1>1, AbandonedType, WorkerStep

(* What is left to show of a step of worker c.                             *)
LEMMA Assemble ==
  ASSUME NEW c \in Consumer,
         TypeOK', AckedIsProcessed', OthersOK(c)',
         ReadOK(c)', HoldOK(c)', StaleOK(c)'
  PROVE  IInv'
  BY DEF IInv, OthersOK

LEMMA LivingKeeps ==
  ASSUME IInv, TypeOK', NEW c \in Consumer, Living(c)
  PROVE  IInv'
<1>1. TypeOK /\ consumer[c] \in ConsumerState /\ ReadOK(c) /\ HoldOK(c) /\ StaleOK(c)
  BY DEF IInv, TypeOK
<1>2. log' = log /\ receipts' = receipts /\ Processed' = Processed
  BY DEF Living, Start, Assign, SessionExpires, Revoke, Crash, Stop, DrainTimeout, Exit,
         Processed
<1>3. AckedIsProcessed'
  BY <1>2 DEF Living, Start, Assign, SessionExpires, Revoke, Crash, Stop, DrainTimeout,
              Exit, IInv, AckedIsProcessed
<1>4. \A d \in Consumer \ {c} : consumer'[d] = consumer[d]
  BY <1>1 DEF TypeOK, Living, Start, Assign, SessionExpires, Revoke, Crash, Stop,
              DrainTimeout, Exit
<1> USE DEF ReadOK, Trusted, Active
<1>5. CASE Start(c)
  <2>1. /\ consumer'[c].step = "idle" /\ ~consumer'[c].assigned
        /\ consumer'[c].status = "running"
    BY <1>1, <1>5 DEF Start, TypeOK, Down, ConsumerState
  <2>2. OthersOK(c)'
    BY <1>1, <1>2, <1>4, <1>5, QuietStep DEF Start
  <2>3. ReadOK(c)' /\ HoldOK(c)' /\ StaleOK(c)'
    BY <2>1 DEF HoldOK, StaleOK
  <2>4. QED
    BY <1>3, <2>2, <2>3, Assemble
<1>6. CASE Assign(c)
  <2>1. /\ consumer'[c].step = consumer[c].step /\ consumer'[c].at = consumer[c].at
        /\ consumer'[c].status = consumer[c].status
        /\ consumer'[c].initialized = consumer[c].initialized
        /\ consumer'[c].position = committed
    BY <1>1, <1>6 DEF Assign, TypeOK, ConsumerState
  <2>2. OthersOK(c)'
    BY <1>2, <1>4, <1>6, <2>1, QuietStep DEF Assign
  <2>3. Handled(c)' = Handled(c) /\ claim' = claim
    BY <1>2, <1>6, <2>1 DEF Assign, Handled
  <2>4. UpTo(committed)
    BY DEF IInv, AckedIsProcessed, UpTo
  <2>5. ReadOK(c)'
    BY <1>1, <1>2, <1>6, <2>1, <2>3, <2>4 DEF Assign, UpTo
  <2>6. HoldOK(c)' /\ StaleOK(c)'
    BY <1>1, <1>2, <2>1, <2>3 DEF HoldOK, StaleOK, HasReceipt
  <2>7. QED
    BY <1>3, <2>2, <2>5, <2>6, Assemble
<1>7. CASE SessionExpires(c)
  <2>1. consumer' = consumer /\ claim' = claim
    BY <1>7 DEF SessionExpires
  <2>2. OthersOK(c)'
    BY <1>2, <1>4, <2>1, QuietStep
  <2>3. Handled(c)' = Handled(c)
    BY <1>2, <2>1 DEF Handled
  <2>4. ReadOK(c)' /\ HoldOK(c)' /\ StaleOK(c)'
    BY <1>1, <1>2, <2>1, <2>3 DEF HoldOK, StaleOK, HasReceipt, UpTo
  <2>5. QED
    BY <1>3, <2>2, <2>4, Assemble
<1>8. CASE Revoke(c)
  <2>1. /\ consumer'[c].step \in {"idle", "received"}
        /\ consumer'[c].step = "received" => consumer[c].step = "received"
        /\ consumer'[c].at = consumer[c].at
        /\ consumer'[c].status = consumer[c].status
        /\ ~consumer'[c].assigned
    BY <1>1, <1>8 DEF Revoke, TypeOK, ConsumerState
  <2>2. OthersOK(c)'
    BY <1>2, <1>4, <1>8, AbandonStep DEF Revoke
  <2>3. ReadOK(c)' /\ HoldOK(c)' /\ StaleOK(c)'
    BY <1>1, <1>2, <1>8, <2>1 DEF Revoke, HoldOK, StaleOK, UpTo
  <2>4. QED
    BY <1>3, <2>2, <2>3, Assemble
<1>9. CASE Crash(c)
  <2>1. consumer'[c].step = "idle" /\ consumer'[c].status = "down" /\ ~consumer'[c].assigned
    BY <1>1, <1>9 DEF Crash, TypeOK, Down
  <2>2. ASSUME NEW b \in Batch, claim[b] # NoClaim
        PROVE  LET k == [claim[b] EXCEPT !.by = NoOne] IN
               /\ k.by = NoOne /\ k.at = claim[b].at /\ k.initialized = claim[b].initialized
    BY <1>1, <2>2 DEF TypeOK, Claim
  <2>3. NoOne # c
    BY DeliveryAssumption
  <2>4. ASSUME NEW b \in Batch
        PROVE  /\ claim'[b] # NoClaim =>
                    /\ claim[b] # NoClaim
                    /\ claim'[b].at = claim[b].at
                    /\ claim'[b].initialized = claim[b].initialized
                    /\ claim'[b].by # NoOne => claim'[b].by = claim[b].by
                    /\ claim'[b].by # c
               /\ claim[b] # NoClaim /\ claim[b].by # c => claim'[b] = claim[b]
    <3>1. CASE claim[b] = NoClaim \/ claim[b].by # c
      BY <1>9, <3>1 DEF Crash
    <3>2. CASE claim[b] # NoClaim /\ claim[b].by = c
      BY <1>9, <2>2, <2>3, <3>2 DEF Crash
    <3>3. QED
      BY <3>1, <3>2
  <2>5. OthersOK(c)'
    BY <1>2, <1>4, <2>4, WorkerStep
  <2>6. ReadOK(c)' /\ HoldOK(c)' /\ StaleOK(c)'
    BY <2>1 DEF HoldOK, StaleOK
  <2>7. QED
    BY <1>3, <2>5, <2>6, Assemble
<1>10. CASE Stop(c)
  <2>1. /\ consumer'[c].step = consumer[c].step /\ consumer'[c].at = consumer[c].at
        /\ consumer'[c].status = "closing"
        /\ consumer'[c].initialized = consumer[c].initialized
        /\ consumer'[c].assigned = consumer[c].assigned
        /\ consumer'[c].position = consumer[c].position
    BY <1>1, <1>10 DEF Stop, TypeOK, ConsumerState
  <2>2. OthersOK(c)'
    BY <1>2, <1>4, <1>10, <2>1, QuietStep DEF Stop
  <2>3. Handled(c)' = Handled(c) /\ claim' = claim
    BY <1>2, <1>10, <2>1 DEF Stop, Handled
  <2>4. ReadOK(c)' /\ HoldOK(c)' /\ StaleOK(c)'
    BY <1>1, <1>2, <2>1, <2>3 DEF HoldOK, StaleOK, HasReceipt, UpTo
  <2>5. QED
    BY <1>3, <2>2, <2>4, Assemble
<1>11. CASE DrainTimeout(c)
  <2>1. consumer'[c].step = "idle" /\ consumer'[c].status = "closing"
    BY <1>1, <1>11 DEF DrainTimeout, TypeOK, ConsumerState
  <2>2. OthersOK(c)'
    BY <1>2, <1>4, <1>11, AbandonStep DEF DrainTimeout
  <2>3. ReadOK(c)' /\ HoldOK(c)' /\ StaleOK(c)'
    BY <2>1 DEF HoldOK, StaleOK
  <2>4. QED
    BY <1>3, <2>2, <2>3, Assemble
<1>12. CASE Exit(c)
  <2>1. consumer'[c].step = "idle" /\ consumer'[c].status = "down" /\ ~consumer'[c].assigned
    BY <1>1, <1>12 DEF Exit, TypeOK, Down
  <2>2. OthersOK(c)'
    BY <1>2, <1>4, <1>12, QuietStep DEF Exit
  <2>3. ReadOK(c)' /\ HoldOK(c)' /\ StaleOK(c)'
    BY <2>1 DEF HoldOK, StaleOK
  <2>4. QED
    BY <1>3, <2>2, <2>3, Assemble
<1>13. QED
  BY <1>5, <1>6, <1>7, <1>8, <1>9, <1>10, <1>11, <1>12 DEF Living

LEMMA FailKeeps ==
  ASSUME IInv, TypeOK', NEW c \in Consumer, Fail(c)
  PROVE  IInv'
<1>1. consumer[c] \in ConsumerState /\ consumer \in [Consumer -> ConsumerState]
  BY DEF IInv, TypeOK
<1>2. AckedIsProcessed'
  BY DEF Fail, IInv, AckedIsProcessed, Processed
<1>3. /\ \A d \in Consumer \ {c} : consumer'[d] = consumer[d]
      /\ consumer'[c].step = "idle" /\ consumer'[c].status = "closing"
  BY <1>1 DEF Fail, ConsumerState
<1>4. OthersOK(c)'
  BY <1>3, AbandonStep DEF Fail
<1>5. ReadOK(c)' /\ HoldOK(c)' /\ StaleOK(c)'
  BY <1>3 DEF ReadOK, HoldOK, StaleOK, Trusted, Active
<1>6. QED
  BY <1>2, <1>4, <1>5, Assemble

(* The insert that claims: the message is the first without a receipt, and *)
(* what the worker read of the account's receipts is not out of date.      *)
LEMMA ClaimKeeps ==
  ASSUME IInv, TypeOK', NEW c \in Consumer, ClaimReceipt(c)
  PROVE  IInv'
<1>1. TypeOK /\ consumer[c] \in ConsumerState /\ ReadOK(c) /\ StaleOK(c)
  BY DEF IInv, TypeOK
<1>2. /\ \A d \in Consumer \ {c} : consumer'[d] = consumer[d]
      /\ consumer[c].step = "executing" /\ consumer'[c].step = "claimed"
      /\ consumer'[c].status = consumer[c].status
      /\ consumer'[c].assigned = consumer[c].assigned
      /\ consumer'[c].position = consumer[c].position
      /\ consumer'[c].at = consumer[c].at
  BY <1>1 DEF ClaimReceipt, TypeOK, ConsumerState
<1>3. log' = log /\ receipts' = receipts /\ Processed' = Processed /\ Handled(c)' = Handled(c)
  BY <1>2 DEF ClaimReceipt, Processed, Handled
<1>4. AckedIsProcessed'
  BY <1>3 DEF IInv, AckedIsProcessed, ClaimReceipt
<1>5. consumer[c].at \in 1..Len(log) /\ UpTo(consumer[c].at - 1)
  BY <1>1, <1>2 DEF ReadOK, Trusted, Active
<1>6. Handled(c) \in Message
  BY <1>1, <1>5 DEF Handled, TypeOK
<1>7. PICK b \in Batch : b = Handled(c).batch
  BY <1>6 DEF Message
<1>8. /\ claim[b] = NoClaim /\ ~HasReceipt(b)
      /\ \A a \in Batch \ {b} : claim'[a] = claim[a]
      /\ claim'[b] = [by |-> c, at |-> consumer[c].at,
                      initialized |-> consumer[c].initialized, sent |-> FALSE]
  BY <1>1, <1>7 DEF ClaimReceipt, TypeOK
<1>9. claim'[b] # NoClaim
  <2>1. claim'[b] \in Claim
    BY <1>1, <1>8 DEF Claim, ConsumerState
  <2>2. QED
    BY <2>1, DeliveryAssumption DEF Claim
<1>10. ReadOK(c)' /\ HoldOK(c)' /\ StaleOK(c)'
  BY <1>1, <1>2, <1>3, <1>7, <1>8, <1>9 DEF ReadOK, HoldOK, StaleOK, Trusted, Active, UpTo
<1>11. FirstBatchKnown'
  <2>1. consumer[c].initialized <=> receipts # <<>>
    BY <1>1, <1>2, <1>7, <1>8 DEF StaleOK
  <2>2. \A a \in Batch \ {b} :
          claim'[a] # NoClaim => (claim'[a].initialized <=> receipts' # <<>>)
    BY <1>3, <1>8 DEF IInv, FirstBatchKnown
  <2>3. claim'[b].initialized <=> receipts' # <<>>
    BY <1>3, <1>8, <2>1
  <2>4. QED
    BY <2>2, <2>3 DEF FirstBatchKnown
<1>12. ASSUME NEW d \in Consumer \ {c} PROVE (ReadOK(d) /\ HoldOK(d) /\ StaleOK(d))'
  <2>1. ReadOK(d) /\ HoldOK(d) /\ StaleOK(d) /\ consumer'[d] = consumer[d]
    BY <1>2 DEF IInv
  <2>2. Handled(d)' = Handled(d)
    BY <1>3, <2>1 DEF Handled
  <2>3. ReadOK(d)' /\ StaleOK(d)'
    BY <1>3, <2>1, <2>2 DEF ReadOK, StaleOK, Trusted, UpTo, HasReceipt
  <2>4. ASSUME consumer[d].step \in {"claimed", "committing"}
        PROVE  claim'[Handled(d).batch] = claim[Handled(d).batch]
    <3>1. consumer[d].at \in 1..Len(log)
      BY <2>1, <2>4 DEF ReadOK
    <3>2. Handled(d) \in Message
      BY <1>1, <3>1 DEF Handled, TypeOK
    <3>3. Handled(d).batch \in Batch
      BY <3>2 DEF Message
    <3>4. QED
      BY <1>8, <2>1, <2>4, <3>3 DEF HoldOK
  <2>5. HoldOK(d)'
    BY <2>1, <2>2, <2>4 DEF HoldOK
  <2>6. QED
    BY <2>3, <2>5
<1>13. ClaimOK(b)'
  <2>1. log[consumer[c].at].batch = b
    BY <1>7 DEF Handled
  <2>2. QED
    BY <1>2, <1>3, <1>5, <1>8, <2>1 DEF ClaimOK, UpTo, HasReceipt
<1>14. ASSUME NEW a \in Batch \ {b} PROVE ClaimOK(a)'
  <2>1. ClaimOK(a) /\ claim'[a] = claim[a]
    BY <1>8 DEF IInv
  <2>2. claim[a] # NoClaim => claim[a].by \in Consumer \union {NoOne}
    BY <1>1 DEF TypeOK, Claim
  <2>3. claim[a] # NoClaim => claim[a].by # c
    BY <1>2, <2>1, DeliveryAssumption DEF ClaimOK
  <2>4. QED
    BY <1>2, <1>3, <2>1, <2>2, <2>3 DEF ClaimOK, UpTo, HasReceipt
<1>15. (\A a \in Batch : ClaimOK(a))'
  <2>1. ASSUME NEW a \in Batch PROVE ClaimOK(a)'
    <3>1. CASE a = b
      BY <1>13, <3>1
    <3>2. CASE a # b
      BY <1>14, <3>2
    <3>3. QED
      BY <3>1, <3>2
  <2>2. QED
    BY <2>1
<1>16. OthersOK(c)'
  BY <1>11, <1>12, <1>15 DEF OthersOK
<1>17. QED
  BY <1>4, <1>10, <1>16, Assemble

LEMMA HandlingKeeps ==
  ASSUME IInv, TypeOK', NEW c \in Consumer, Handling(c)
  PROVE  IInv'
<1>1. TypeOK /\ consumer[c] \in ConsumerState /\ ReadOK(c) /\ HoldOK(c) /\ StaleOK(c)
  BY DEF IInv, TypeOK
<1> USE DEF ReadOK, Trusted, Active
<1>2. CASE ClaimReceipt(c)
  BY <1>2, ClaimKeeps
<1>3. CASE TerminalError(c) \/ OtherError(c) \/ AckRefused(c)
  BY <1>3, FailKeeps DEF TerminalError, OtherError, AckRefused
<1>4. ASSUME log' = log, receipts' = receipts, committed' = committed
      PROVE  AckedIsProcessed' /\ Processed' = Processed
  BY <1>4 DEF IInv, AckedIsProcessed, Processed
<1>5. CASE Receive(c)
  <2>1. /\ \A d \in Consumer \ {c} : consumer'[d] = consumer[d]
        /\ consumer'[c].step = "received" /\ consumer'[c].status = consumer[c].status
        /\ consumer'[c].assigned
        /\ consumer'[c].position = consumer[c].position + 1
        /\ consumer'[c].at = consumer[c].position + 1
    BY <1>1, <1>5 DEF Receive, TypeOK, ConsumerState
  <2>2. OthersOK(c)' /\ AckedIsProcessed' /\ Processed' = Processed
    BY <1>4, <1>5, <2>1, QuietStep DEF Receive
  <2>3. consumer[c].position \in 0..Len(log) /\ Len(log) \in Nat
    BY <1>1 DEF TypeOK
  <2>4. Trusted(c) => UpTo(consumer[c].position)
    BY <1>1, <1>5 DEF Receive
  <2>5. consumer'[c].at \in 1..Len(log') /\ consumer'[c].at - 1 = consumer[c].position
    BY <1>5, <2>1, <2>3 DEF Receive
  <2>6. ReadOK(c)'
    BY <1>1, <1>5, <2>1, <2>2, <2>4, <2>5 DEF Receive, UpTo
  <2>7. HoldOK(c)' /\ StaleOK(c)'
    BY <2>1 DEF HoldOK, StaleOK
  <2>8. QED
    BY <2>2, <2>6, <2>7, Assemble
<1>6. CASE Handle(c)
  <2>1. /\ \A d \in Consumer \ {c} : consumer'[d] = consumer[d]
        /\ consumer[c].step = "received"
        /\ consumer'[c].step = IF consumer[c].status = "closing" THEN "idle" ELSE "executing"
        /\ consumer'[c].status = consumer[c].status
        /\ consumer'[c].assigned = consumer[c].assigned
        /\ consumer'[c].position = consumer[c].position
        /\ consumer'[c].at = consumer[c].at
    BY <1>1, <1>6 DEF Handle, TypeOK, ConsumerState
  <2>2. consumer'[c].step = "executing" => (consumer'[c].initialized <=> receipts' # <<>>)
    BY <1>1, <1>6 DEF Handle, TypeOK, ConsumerState
  <2>3. OthersOK(c)' /\ AckedIsProcessed' /\ Processed' = Processed
    BY <1>4, <1>6, <2>1, QuietStep DEF Handle
  <2>4. consumer[c].status \in {"running", "closing"}
    BY <1>1, <2>1 DEF ConsumerState
  <2>5. ReadOK(c)'
    <3>1. CASE consumer[c].status = "closing"
      BY <1>1, <2>1, <3>1
    <3>2. CASE consumer[c].status = "running"
      <4>1. log' = log /\ consumer'[c].step = "executing"
        BY <1>6, <2>1, <3>2 DEF Handle
      <4>2. QED
        BY <1>1, <2>1, <2>3, <3>2, <4>1 DEF UpTo
    <3>3. QED
      BY <2>4, <3>1, <3>2
  <2>6. HoldOK(c)' /\ StaleOK(c)'
    BY <2>1, <2>2 DEF HoldOK, StaleOK
  <2>7. QED
    BY <2>3, <2>5, <2>6, Assemble
<1>7. CASE WinnerResults(c)
  <2>1. /\ \A d \in Consumer \ {c} : consumer'[d] = consumer[d]
        /\ consumer[c].step = "executing" /\ consumer'[c].step = "processed"
        /\ consumer'[c].status = consumer[c].status
        /\ consumer'[c].assigned = consumer[c].assigned
        /\ consumer'[c].position = consumer[c].position
        /\ consumer'[c].at = consumer[c].at
    BY <1>1, <1>7 DEF WinnerResults, TypeOK, ConsumerState
  <2>2. OthersOK(c)' /\ AckedIsProcessed' /\ Processed' = Processed
    BY <1>4, <1>7, <2>1, QuietStep DEF WinnerResults
  <2>3. Handled(c)' = Handled(c)
    BY <1>7, <2>1 DEF WinnerResults, Handled
  <2>4. ReadOK(c)'
    BY <1>1, <1>7, <2>1, <2>2, <2>3 DEF WinnerResults, UpTo
  <2>5. HoldOK(c)' /\ StaleOK(c)'
    BY <2>1 DEF HoldOK, StaleOK
  <2>6. QED
    BY <2>2, <2>4, <2>5, Assemble
<1>8. CASE SendCommit(c)
  <2> DEFINE b == Handled(c).batch
  <2>1. /\ \A d \in Consumer \ {c} : consumer'[d] = consumer[d]
        /\ consumer[c].step = "claimed" /\ consumer'[c].step = "committing"
        /\ consumer'[c].status = consumer[c].status
        /\ consumer'[c].assigned = consumer[c].assigned
        /\ consumer'[c].position = consumer[c].position
        /\ consumer'[c].at = consumer[c].at
    BY <1>1, <1>8 DEF SendCommit, TypeOK, ConsumerState
  <2>2. AckedIsProcessed' /\ Processed' = Processed
    BY <1>4, <1>8 DEF SendCommit
  <2>3. Handled(c)' = Handled(c)
    BY <1>8, <2>1 DEF SendCommit, Handled
  <2>4. consumer[c].at \in 1..Len(log)
    BY <1>1, <2>1
  <2>5. Handled(c) \in Message
    BY <1>1, <2>4 DEF Handled, TypeOK
  <2>6. b \in Batch
    BY <2>5 DEF Message
  <2>7. claim[b] # NoClaim /\ claim[b].by = c /\ claim[b].at = consumer[c].at
    BY <1>1, <2>1 DEF HoldOK
  <2>8. claim[b] \in Claim
    BY <1>1, <2>6, <2>7 DEF TypeOK
  <2>9. /\ \A a \in Batch \ {b} : claim'[a] = claim[a]
        /\ claim'[b] = [claim[b] EXCEPT !.sent = TRUE]
    BY <1>1, <1>8, <2>6 DEF SendCommit, TypeOK
  <2>10. /\ claim'[b] \in Claim
         /\ claim'[b].by = claim[b].by /\ claim'[b].at = claim[b].at
         /\ claim'[b].initialized = claim[b].initialized
    BY <2>8, <2>9 DEF Claim
  <2>11. claim'[b] # NoClaim
    BY <2>10, DeliveryAssumption DEF Claim
  <2>12. ASSUME NEW a \in Batch, claim'[a] # NoClaim
         PROVE  /\ claim[a] # NoClaim
                /\ claim'[a].at = claim[a].at
                /\ claim'[a].initialized = claim[a].initialized
                /\ claim'[a].by # NoOne => claim'[a].by = claim[a].by
    BY <2>7, <2>9, <2>10, <2>12
  <2>13. OthersOK(c)'
    BY <1>8, <2>1, <2>7, <2>9, <2>12, WorkerStep DEF SendCommit
  <2>14. ReadOK(c)'
    BY <1>1, <1>8, <2>1, <2>2, <2>3 DEF SendCommit, UpTo
  <2>15. HoldOK(c)' /\ StaleOK(c)'
    BY <2>1, <2>3, <2>7, <2>10, <2>11 DEF HoldOK, StaleOK
  <2>16. QED
    BY <2>2, <2>13, <2>14, <2>15, Assemble
<1>9. CASE Ack(c)
  <2>1. /\ \A d \in Consumer \ {c} : consumer'[d] = consumer[d]
        /\ consumer[c].step = "processed" /\ consumer'[c].step = "idle"
        /\ consumer'[c].status = consumer[c].status
        /\ consumer'[c].assigned /\ consumer[c].assigned
        /\ consumer'[c].position = consumer[c].position
    BY <1>1, <1>9 DEF Ack, TypeOK, ConsumerState
  <2>2. OthersOK(c)'
    BY <1>9, <2>1, QuietStep DEF Ack
  <2>3. consumer[c].at \in 1..Len(log) /\ UpTo(consumer[c].at - 1) /\ log[consumer[c].at] \in Processed
    BY <1>1, <2>1 DEF Handled
  <2>4. UpTo(consumer[c].at)
    <3>1. ASSUME NEW i \in 1..consumer[c].at, i # consumer[c].at
          PROVE  i \in 1..(consumer[c].at - 1)
      BY <2>3, <3>1
    <3>2. QED
      BY <2>3, <3>1 DEF UpTo
  <2>5. UpTo(consumer[c].position)
    BY <1>1, <2>1, <2>4
  <2>6. Processed' = Processed /\ log' = log
    BY <1>9 DEF Ack, Processed
  <2>7. AckedIsProcessed'
    BY <1>9, <2>4, <2>5, <2>6 DEF Ack, AckedIsProcessed, UpTo
  <2>8. ReadOK(c)' /\ HoldOK(c)' /\ StaleOK(c)'
    BY <1>1, <2>1, <2>5, <2>6 DEF UpTo, HoldOK, StaleOK
  <2>9. QED
    BY <2>2, <2>7, <2>8, Assemble
<1>10. CASE AckNothing(c)
  <2>1. /\ \A d \in Consumer \ {c} : consumer'[d] = consumer[d]
        /\ consumer[c].step = "processed" /\ consumer'[c].step = "idle"
        /\ consumer'[c].status = consumer[c].status
        /\ ~consumer'[c].assigned
    BY <1>1, <1>10 DEF AckNothing, TypeOK, ConsumerState
  <2>2. OthersOK(c)' /\ AckedIsProcessed'
    BY <1>4, <1>10, <2>1, QuietStep DEF AckNothing
  <2>3. ReadOK(c)' /\ HoldOK(c)' /\ StaleOK(c)'
    BY <1>1, <2>1 DEF HoldOK, StaleOK
  <2>4. QED
    BY <2>2, <2>3, Assemble
<1>11. QED
  BY <1>2, <1>3, <1>5, <1>6, <1>7, <1>8, <1>9, <1>10 DEF Handling

(* A committed receipt adds its message to the processed ones.             *)
LEMMA CommitAdds ==
  ASSUME IInv, NEW b \in Batch, Commit(b)
  PROVE  /\ claim[b].at \in 1..Len(log) /\ log[claim[b].at].batch = b
         /\ UpTo(claim[b].at - 1)
         /\ ~HasReceipt(b)
         /\ receipts' = Append(receipts, log[claim[b].at])
         /\ Processed' = Processed \union {log[claim[b].at]}
         /\ receipts' # <<>> /\ log' = log
         /\ \A a \in Batch : claim'[a] = NoClaim
<1>1. TypeOK /\ ClaimOK(b) /\ claim[b] # NoClaim
  BY DEF IInv, Commit
<1>2. claim[b].at \in 1..Len(log) /\ log[claim[b].at].batch = b
      /\ UpTo(claim[b].at - 1) /\ ~HasReceipt(b)
  BY <1>1 DEF ClaimOK
<1>3. log[claim[b].at] \in Message /\ receipts \in Seq(Message)
  BY <1>1, <1>2 DEF TypeOK
<1>4. /\ receipts' = Append(receipts, log[claim[b].at])
      /\ log' = log
      /\ claim' = [claim EXCEPT ![b] = NoClaim]
  BY DEF Commit
<1>5. /\ DOMAIN receipts = 1..Len(receipts) /\ Len(receipts) \in Nat
      /\ DOMAIN receipts' = 1..(Len(receipts) + 1)
      /\ \A i \in 1..Len(receipts) : receipts'[i] = receipts[i]
      /\ receipts'[Len(receipts) + 1] = log[claim[b].at]
  BY <1>3, <1>4
<1>6. Processed' = Processed \union {log[claim[b].at]}
  BY <1>5 DEF Processed
<1>7. receipts' # <<>>
  BY <1>3, <1>4
<1>8. ASSUME NEW a \in Batch PROVE claim'[a] = NoClaim
  BY <1>1, <1>4, OneClaim DEF OneWriter, TypeOK
<1>9. QED
  BY <1>2, <1>4, <1>6, <1>7, <1>8

LEMMA CommitKeeps ==
  ASSUME IInv, TypeOK', NEW b \in Batch, Commit(b)
  PROVE  IInv'
<1> DEFINE m == log[claim[b].at]
<1>1. /\ TypeOK /\ claim[b] # NoClaim
      /\ claim[b].at \in 1..Len(log) /\ m.batch = b /\ UpTo(claim[b].at - 1)
      /\ ~HasReceipt(b) /\ Processed' = Processed \union {m}
      /\ receipts' # <<>> /\ log' = log /\ committed' = committed
      /\ \A a \in Batch : claim'[a] = NoClaim
  BY CommitAdds DEF IInv, Commit
<1>2. AckedIsProcessed' /\ FirstBatchKnown' /\ (\A a \in Batch : ClaimOK(a))'
  BY <1>1 DEF IInv, AckedIsProcessed, FirstBatchKnown, ClaimOK
<1>3. HasReceipt(b)'
  BY <1>1 DEF HasReceipt
<1>4. ASSUME NEW x, HasReceipt(x) PROVE HasReceipt(x)'
  BY <1>1, <1>4 DEF HasReceipt
<1>5. ASSUME NEW d \in Consumer PROVE (ReadOK(d) /\ HoldOK(d) /\ StaleOK(d))'
  <2>1. ReadOK(d) /\ HoldOK(d) /\ StaleOK(d) /\ ClaimOK(b) /\ consumer[d] \in ConsumerState
    BY <1>1 DEF IInv, TypeOK
  <2>2. CASE d = claim[b].by
    <3>1. /\ consumer'[d].step = "processed"
          /\ consumer'[d].status = consumer[d].status
          /\ consumer'[d].assigned = consumer[d].assigned
          /\ consumer'[d].position = consumer[d].position
          /\ consumer'[d].at = consumer[d].at
      BY <2>1, <2>2 DEF Commit, ConsumerState
    <3>2. consumer[d].step \in {"claimed", "committing"} /\ consumer[d].at = claim[b].at
      BY <1>1, <2>1, <2>2, DeliveryAssumption DEF ClaimOK
    <3>3. Handled(d)' \in Processed'
      BY <1>1, <3>1, <3>2 DEF Handled
    <3>4. ReadOK(d)'
      BY <1>1, <2>1, <3>1, <3>2, <3>3 DEF ReadOK, Trusted, Active, UpTo
    <3>5. QED
      BY <3>1, <3>4 DEF HoldOK, StaleOK
  <2>3. CASE d # claim[b].by
    <3>1. consumer'[d] = consumer[d] /\ Handled(d)' = Handled(d)
      BY <1>1, <2>3 DEF Commit, Handled
    <3>2. ReadOK(d)'
      BY <1>1, <2>1, <3>1 DEF ReadOK, Trusted, Active, UpTo
    <3>3. ASSUME consumer[d].step # "idle" PROVE Handled(d) \in Message
      <4>1. consumer[d].at \in 1..Len(log)
        BY <2>1, <3>3 DEF ReadOK
      <4>2. QED
        BY <1>1, <4>1 DEF Handled, TypeOK
    <3>4. HoldOK(d)'
      <4>1. CASE consumer[d].step \in {"claimed", "committing"}
        <5>1. Handled(d).batch \in Batch
          BY <3>3, <4>1 DEF Message
        <5>2. claim[Handled(d).batch] # NoClaim /\ claim[Handled(d).batch].by = d
          BY <2>1, <4>1 DEF HoldOK
        <5>3. Handled(d).batch = b
          BY <1>1, <5>1, <5>2, OneClaim DEF OneWriter
        <5>4. QED
          BY <2>3, <5>2, <5>3
      <4>2. CASE consumer[d].step \notin {"claimed", "committing"}
        BY <3>1, <4>2 DEF HoldOK
      <4>3. QED
        BY <4>1, <4>2
    <3>5. StaleOK(d)'
      <4>1. CASE consumer[d].step = "executing" /\ receipts = <<>>
        <5>1. Processed = {}
          BY <4>1 DEF Processed
        <5>2. UpTo(consumer[d].at - 1) /\ consumer[d].at \in 1..Len(log)
          BY <2>1, <4>1 DEF ReadOK, Trusted, Active
        <5>3. Len(log) \in Nat
          BY <1>1 DEF TypeOK
        <5>4. consumer[d].at = 1 /\ claim[b].at = 1
          BY <1>1, <5>1, <5>2, <5>3 DEF UpTo
        <5>5. Handled(d).batch = b
          BY <1>1, <5>4 DEF Handled
        <5>6. QED
          BY <1>3, <3>1, <5>5 DEF StaleOK
      <4>2. CASE consumer[d].step = "executing" /\ receipts # <<>>
        BY <1>1, <1>4, <2>1, <3>1, <4>2 DEF StaleOK
      <4>3. CASE consumer[d].step # "executing"
        BY <3>1, <4>3 DEF StaleOK
      <4>4. QED
        BY <4>1, <4>2, <4>3
    <3>6. QED
      BY <3>2, <3>4, <3>5
  <2>4. QED
    BY <2>2, <2>3
<1>6. QED
  BY <1>2, <1>5 DEF IInv

(* A new message at the end of the log changes nothing that was read.      *)
LEMMA BrokerWritesKeeps ==
  ASSUME IInv, TypeOK', NEW r \in Request, BrokerWrites(r)
  PROVE  IInv'
<1>1. TypeOK /\ request[r].message \in Message
  BY DeliveryAssumption DEF IInv, TypeOK, RequestState
<1>2. /\ Len(log) \in Nat /\ Len(log') = Len(log) + 1
      /\ \A i \in 1..Len(log) : log'[i] = log[i]
      /\ committed' = committed /\ consumer' = consumer /\ claim' = claim
      /\ receipts' = receipts /\ Processed' = Processed
  BY <1>1 DEF BrokerWrites, TypeOK, Processed
<1>3. \A n \in 0..Len(log) : \A i \in 1..n : log'[i] = log[i]
  BY <1>2
<1>4. AckedIsProcessed'
  <2>1. AckedIsProcessed /\ committed \in 0..Len(log)
    BY <1>1 DEF IInv, TypeOK
  <2>2. \A i \in 1..committed : log'[i] = log[i]
    BY <1>3, <2>1
  <2>3. QED
    BY <1>2, <2>1, <2>2 DEF AckedIsProcessed
<1>5. FirstBatchKnown'
  BY <1>2 DEF IInv, FirstBatchKnown
<1>6. ASSUME NEW c \in Consumer PROVE (ReadOK(c) /\ HoldOK(c) /\ StaleOK(c))'
  <2>1. ReadOK(c) /\ HoldOK(c) /\ StaleOK(c) /\ consumer[c].position \in 0..Len(log)
    BY <1>1 DEF IInv, TypeOK
  <2>2. consumer[c].step # "idle" => Handled(c)' = Handled(c)
    BY <1>2, <2>1 DEF ReadOK, Handled
  <2>3. ASSUME consumer[c].step # "idle"
        PROVE  consumer[c].at \in 1..Len(log') /\ consumer[c].at - 1 \in 0..Len(log)
    BY <1>2, <2>1, <2>3 DEF ReadOK
  <2>4. ReadOK(c)'
    <3>1. Trusted(c)' <=> Trusted(c)
      BY <1>2 DEF Trusted
    <3>2. Trusted(c) /\ consumer[c].step # "idle" => UpTo(consumer[c].at - 1)'
      BY <1>2, <1>3, <2>1, <2>3 DEF ReadOK, UpTo
    <3>3. UpTo(consumer[c].position) => UpTo(consumer[c].position)'
      BY <1>2, <1>3, <2>1 DEF UpTo
    <3>4. QED
      BY <1>2, <2>1, <2>2, <2>3, <3>1, <3>2, <3>3 DEF ReadOK
  <2>5. HoldOK(c)'
    BY <1>2, <2>1, <2>2 DEF HoldOK
  <2>6. StaleOK(c)'
    BY <1>2, <2>1, <2>2 DEF StaleOK, HasReceipt
  <2>7. QED
    BY <2>4, <2>5, <2>6
<1>7. ASSUME NEW b \in Batch PROVE ClaimOK(b)'
  <2>1. CASE claim[b] = NoClaim
    BY <1>2, <2>1 DEF ClaimOK
  <2>2. CASE claim[b] # NoClaim
    <3>1. ClaimOK(b) /\ claim[b].at \in 1..Len(log)
      BY <2>2 DEF IInv, ClaimOK
    <3>2. claim[b].at - 1 \in 0..Len(log) /\ claim[b].at \in 1..Len(log')
      BY <1>2, <3>1
    <3>3. UpTo(claim[b].at - 1)'
      BY <1>2, <1>3, <2>2, <3>1, <3>2 DEF ClaimOK, UpTo
    <3>4. QED
      BY <1>2, <2>2, <3>1, <3>2, <3>3 DEF ClaimOK, HasReceipt
  <2>3. QED
    BY <2>1, <2>2
<1>8. QED
  BY <1>4, <1>5, <1>6, <1>7 DEF IInv

(* A step that touches neither workers nor the log nor the receipts and    *)
(* opens no claim.                                                         *)
Outside ==
  /\ log' = log /\ receipts' = receipts /\ consumer' = consumer
  /\ committed' \in {0, committed}
  /\ \A b \in Batch :
       \/ claim'[b] = claim[b]
       \/ claim[b] # NoClaim /\ claim[b].by = NoOne /\ claim'[b] = NoClaim

LEMMA OutsideKeeps ==
  ASSUME IInv, TypeOK', Outside
  PROVE  IInv'
<1> USE DEF Outside
<1>1. Processed' = Processed /\ TypeOK
  BY DEF Processed, IInv
<1>2. AckedIsProcessed'
  BY <1>1 DEF IInv, AckedIsProcessed
<1>3. FirstBatchKnown'
  BY DEF IInv, FirstBatchKnown
<1>4. ASSUME NEW c \in Consumer PROVE (ReadOK(c) /\ HoldOK(c) /\ StaleOK(c))'
  <2>1. ReadOK(c) /\ HoldOK(c) /\ StaleOK(c) /\ Handled(c)' = Handled(c)
    BY DEF IInv, Handled
  <2>2. ReadOK(c)' /\ StaleOK(c)'
    BY <1>1, <2>1 DEF ReadOK, Trusted, Active, UpTo, StaleOK, HasReceipt
  <2>3. CASE consumer[c].step \in {"claimed", "committing"}
    <3>1. consumer[c].at \in 1..Len(log)
      BY <2>1, <2>3 DEF ReadOK
    <3>2. Handled(c) \in Message
      BY <1>1, <3>1 DEF Handled, TypeOK
    <3>3. Handled(c).batch \in Batch
      BY <3>2 DEF Message
    <3>4. claim'[Handled(c).batch] = claim[Handled(c).batch]
      BY <2>1, <2>3, <3>3, DeliveryAssumption DEF HoldOK
    <3>5. QED
      BY <2>1, <2>2, <2>3, <3>4 DEF HoldOK
  <2>4. CASE consumer[c].step \notin {"claimed", "committing"}
    BY <2>2, <2>4 DEF HoldOK
  <2>5. QED
    BY <2>3, <2>4
<1>5. ASSUME NEW b \in Batch PROVE ClaimOK(b)'
  BY <1>1 DEF IInv, ClaimOK, UpTo, HasReceipt
<1>6. QED
  BY <1>2, <1>3, <1>4, <1>5 DEF IInv

LEMMA InitHolds == Init => IInv
<1> SUFFICES ASSUME Init PROVE IInv
  OBVIOUS
<1>1. Down \in ConsumerState /\ Down.position = 0 /\ Down.step = "idle"
      /\ Down.status = "down" /\ ~Down.assigned
  BY DEF Down, ConsumerState
<1>2. \A c \in Consumer : consumer[c] = Down
  BY DEF Init
<1>3. TypeOK
  BY <1>1, DeliveryAssumption DEF Init, TypeOK
<1>4. AckedIsProcessed /\ FirstBatchKnown /\ \A b \in Batch : ClaimOK(b)
  BY DEF Init, AckedIsProcessed, FirstBatchKnown, ClaimOK
<1>5. ASSUME NEW c \in Consumer PROVE ReadOK(c) /\ HoldOK(c) /\ StaleOK(c)
  BY <1>1, <1>2 DEF ReadOK, HoldOK, StaleOK, Trusted, Active
<1>6. QED
  BY <1>3, <1>4, <1>5 DEF IInv

LEMMA StepKeeps == IInv /\ [Next]_vars => IInv'
<1> SUFFICES ASSUME IInv, [Next]_vars PROVE IInv'
  OBVIOUS
<1>1. TypeOK'
  BY InLogHolds, TypeInductive DEF IInv
<1>2. CASE UNCHANGED vars
  <2>1. Outside
    BY <1>2 DEF vars, Outside
  <2>2. QED
    BY <1>1, <2>1, OutsideKeeps
<1>3. ASSUME NEW r \in Request, Accepting(r) PROVE IInv'
  <2>1. CASE BrokerWrites(r)
    BY <1>1, <2>1, BrokerWritesKeeps
  <2>2. CASE Publish(r) \/ Accept(r) \/ GiveUp(r)
    <3>1. Outside
      BY <2>2 DEF Publish, Accept, GiveUp, Outside
    <3>2. QED
      BY <1>1, <3>1, OutsideKeeps
  <2>3. QED
    BY <1>3, <2>1, <2>2 DEF Accepting
<1>4. ASSUME NEW c \in Consumer, Living(c) \/ Handling(c) PROVE IInv'
  BY <1>1, <1>4, LivingKeeps, HandlingKeeps
<1>5. ASSUME NEW b \in Batch, Commit(b) PROVE IInv'
  BY <1>1, <1>5, CommitKeeps
<1>6. ASSUME NEW b \in Batch, RollBack(b) PROVE IInv'
  <2>1. claim \in [Batch -> Claim \union {NoClaim}]
    BY DEF IInv, TypeOK
  <2>2. \A a \in Batch : \/ claim'[a] = claim[a]
                         \/ claim[a] # NoClaim /\ claim[a].by = NoOne /\ claim'[a] = NoClaim
    BY <1>6, <2>1 DEF RollBack
  <2>3. Outside
    BY <1>6, <2>2 DEF RollBack, Outside
  <2>4. QED
    BY <1>1, <2>3, OutsideKeeps
<1>7. CASE OffsetsExpire
  <2>1. Outside
    BY <1>7 DEF OffsetsExpire, Outside
  <2>2. QED
    BY <1>1, <2>1, OutsideKeeps
<1>8. QED
  BY <1>2, <1>3, <1>4, <1>5, <1>6, <1>7 DEF Next

LEMMA Invariance == Spec => []IInv
  BY InitHolds, StepKeeps, PTL DEF Spec

-----------------------------------------------------------------------------
(* Theorems *)

(* Every reachable state is well typed; no worker reads past the log and   *)
(* no offset is committed beyond it.                                       *)
THEOREM TypeCorrect == Spec => []TypeOK
<1>1. IInv => TypeOK
  BY DEF IInv
<1>2. QED
  BY <1>1, Invariance, PTL

(* Whatever crashes, rebalances and late steps of displaced workers, every *)
(* acknowledged message has its receipt.                                   *)
THEOREM NothingAckedIsLost == Spec => []AckedIsProcessed
<1>1. IInv => AckedIsProcessed
  BY DEF IInv
<1>2. QED
  BY <1>1, Invariance, PTL

(* The consumer path has one writer of an account's timeline at a time,    *)
(* without a lock.                                                         *)
THEOREM SingleWriter == Spec => []OneWriter
  BY OneClaim, Invariance, PTL

(* The transaction that claims knows whether its batch is the first.       *)
THEOREM FirstBatchIsKnown == Spec => []FirstBatchKnown
<1>1. IInv => FirstBatchKnown
  BY DEF IInv
<1>2. QED
  BY <1>1, Invariance, PTL

(* Batches take effect at most once, in the order of the log, with the     *)
(* content under which their id first came: every step of the detailed     *)
(* specification is a step of BatchEffects or none.                        *)
THEOREM DeliveryImplementsEffects == Spec => ImplementsEffects
<1>1. Init => Effects!Init
  BY DEF Init, Effects!Init
<1>2. IInv /\ [Next]_vars => [Effects!Next]_(Effects!vars)
  <2> SUFFICES ASSUME IInv, [Next]_vars PROVE [Effects!Next]_(Effects!vars)
    OBVIOUS
  <2>1. ASSUME log' = log, receipts' = receipts PROVE [Effects!Next]_(Effects!vars)
    BY <2>1 DEF Effects!vars
  <2>2. CASE UNCHANGED vars
    BY <2>1, <2>2 DEF vars
  <2>3. ASSUME NEW r \in Request, Accepting(r) PROVE [Effects!Next]_(Effects!vars)
    <3>1. CASE BrokerWrites(r)
      <4>1. request[r].message \in Message
        BY DeliveryAssumption DEF IInv, TypeOK, RequestState
      <4>2. request[r].message \in Effects!Message
        BY <4>1 DEF Message, Effects!Message
      <4>3. Effects!Arrive
        BY <3>1, <4>2 DEF BrokerWrites, Effects!Arrive
      <4>4. QED
        BY <4>3 DEF Effects!Next
    <3>2. CASE Publish(r) \/ Accept(r) \/ GiveUp(r)
      BY <2>1, <3>2 DEF Publish, Accept, GiveUp
    <3>3. QED
      BY <2>3, <3>1, <3>2 DEF Accepting
  <2>4. ASSUME NEW c \in Consumer, Living(c) \/ Handling(c)
        PROVE  [Effects!Next]_(Effects!vars)
    BY <2>1, <2>4 DEF Living, Start, Assign, SessionExpires, Revoke, Crash, Stop,
         DrainTimeout, Exit, Handling, Receive, Handle, ClaimReceipt, WinnerResults,
         SendCommit, TerminalError, OtherError, Fail, Ack, AckRefused, AckNothing
  <2>5. ASSUME NEW b \in Batch, Commit(b) PROVE [Effects!Next]_(Effects!vars)
    <3> DEFINE n == claim[b].at
    <3>1. /\ n \in 1..Len(log) /\ log[n].batch = b /\ UpTo(n - 1) /\ ~HasReceipt(b)
          /\ receipts' = Append(receipts, log[n]) /\ log' = log
      BY <2>5, CommitAdds
    <3>2. Effects!Done = Processed
      BY DEF Effects!Done, Processed
    <3>3. n \in DOMAIN log
      BY <3>1 DEF IInv, TypeOK
    <3>4. /\ \A i \in 1..(n - 1) : log[i] \in Effects!Done
          /\ \A m \in Effects!Done : m.batch # log[n].batch
      BY <3>1, <3>2 DEF UpTo, HasReceipt
    <3>5. Effects!TakeEffect
      BY <3>1, <3>3, <3>4 DEF Effects!TakeEffect
    <3>6. QED
      BY <3>5 DEF Effects!Next
  <2>6. ASSUME NEW b \in Batch, RollBack(b) PROVE [Effects!Next]_(Effects!vars)
    BY <2>1, <2>6 DEF RollBack
  <2>7. CASE OffsetsExpire
    BY <2>1, <2>7 DEF OffsetsExpire
  <2>8. QED
    BY <2>2, <2>3, <2>4, <2>5, <2>6, <2>7 DEF Next
<1>3. QED
  BY <1>1, <1>2, Invariance, PTL DEF Spec, ImplementsEffects, Effects!Spec
=============================================================================
