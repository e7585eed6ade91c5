------------------------ MODULE LabelProposalsProofs ------------------------
(***************************************************************************)
(* Theorems about LabelProposals for every set of segments, versions,      *)
(* labels and workers, any attempt limit, delays and lease duration, and   *)
(* for both processing paths.                                              *)
(***************************************************************************)
EXTENDS LabelProposals, TLAPS

Key == Segment \X Version

\* The columns of a row that depend on each other.
RowOK(p) ==
  /\ p.status = "processing" => p.token = p.attempts
  /\ p.status # "processing" => p.token = 0 /\ p.lease = 0
  /\ p.status = "absent" => p.attempts = 0
  /\ p.status # "absent" => p.attempts > 0
  /\ p.status # "failed" \/ p.attempts = MaxAttempts => p.retry = 0

\* A running worker's token was drawn by an attempt that the row has counted.
TokenCounted(w) ==
  InFlight(w) => /\ attempt[w].version \in Version
                 /\ attempt[w].token \in 1..proposal[Target(w)].attempts

TokensDiffer ==
  \A w1, w2 \in Worker :
    InFlight(w1) /\ InFlight(w2) /\ Target(w1) = Target(w2) /\ w1 # w2
      => attempt[w1].token # attempt[w2].token

\* What the worker that has the lock open found when it took it still holds.
TxOK ==
  /\ tx.kind = "claim" => /\ tx.by \in Worker
                          /\ attempt[tx.by].pc = "candidate"
                          /\ attempt[tx.by].segment = tx.segment
  /\ tx.kind = "finish" => /\ tx.by \in Worker
                           /\ attempt[tx.by].pc = "answered"
                           /\ attempt[tx.by].segment = tx.segment
                           /\ Owns(tx.by)

IInv ==
  /\ TypeOK
  /\ \A k \in Key : RowOK(proposal[k])
  /\ \A w \in Worker : TokenCounted(w)
  /\ TokensDiffer
  /\ NewestAttemptUndisturbed
  /\ TxOK

-----------------------------------------------------------------------------
(* The operations of ActivityLabelProposal on one row *)

\* Facts about the attempt limit that the typing steps need.
LEMMA NoneIsAToken == 0 \in 0..MaxAttempts /\ MaxAttempts \in Nat
BY ConstantsAssumption

\* try_start_attempt keeps the row consistent and counts one more attempt, whose
\* number is the new token.
LEMMA StartedRow ==
  ASSUME NEW p \in Proposal, CanStart(p)
  PROVE  /\ Started(p) \in Proposal
         /\ RowOK(Started(p))
         /\ Started(p).attempts = p.attempts + 1
         /\ OwnedBy(Started(p), p.attempts + 1)
         /\ Started(p).token = p.attempts + 1
<1>1. p.attempts \in Nat /\ MaxAttempts \in Nat /\ p.attempts < MaxAttempts
  BY ConstantsAssumption DEF Proposal, CanStart
<1>2. p.attempts + 1 \in 0..MaxAttempts /\ p.attempts + 1 > 0 /\ LeaseDuration \in Nat
  BY <1>1, ConstantsAssumption
<1>3. Started(p) \in Proposal
  BY <1>2 DEF Proposal, Started
<1>4. /\ Started(p).status = "processing" /\ Started(p).attempts = p.attempts + 1
      /\ Started(p).token = p.attempts + 1 /\ Started(p).retry = 0
  BY DEF Proposal, Started
<1>5. QED
  BY <1>2, <1>3, <1>4 DEF RowOK, OwnedBy

\* _record_failure keeps the row consistent and its attempt count.
LEMMA FailedRow ==
  ASSUME NEW p \in Proposal, p.attempts > 0
  PROVE  /\ RecordFailure(p) \in Proposal
         /\ RowOK(RecordFailure(p))
         /\ RecordFailure(p).attempts = p.attempts
         /\ RecordFailure(p).status = "failed"
<1>1. p.attempts < MaxAttempts => RetryDelay[p.attempts] \in Nat
  BY ConstantsAssumption DEF Proposal
<1>2. RecordFailure(p) \in Proposal
  BY <1>1, NoneIsAToken DEF Proposal, RecordFailure
<1>3. /\ RecordFailure(p).status = "failed" /\ RecordFailure(p).attempts = p.attempts
      /\ RecordFailure(p).token = 0 /\ RecordFailure(p).lease = 0
      /\ p.attempts = MaxAttempts => RecordFailure(p).retry = 0
  BY ConstantsAssumption DEF Proposal, RecordFailure
<1>4. QED
  BY <1>2, <1>3 DEF RowOK

\* finish ends the attempt: the row is consistent and keeps its attempt count.
LEMMA OutcomeRow ==
  ASSUME NEW a \in Attempt, NEW seen, NEW p \in Proposal, p.attempts > 0, p.retry = 0
  PROVE  /\ Outcome(a, seen, p) \in Proposal
         /\ RowOK(Outcome(a, seen, p))
         /\ Outcome(a, seen, p).attempts = p.attempts
<1>1. Superseded(p) \in Proposal /\ RowOK(Superseded(p)) /\ Superseded(p).attempts = p.attempts
  <2>1. Superseded(p) \in Proposal
    BY NoneIsAToken DEF Proposal, Superseded
  <2>2. /\ Superseded(p).status = "superseded" /\ Superseded(p).attempts = p.attempts
        /\ Superseded(p).token = 0 /\ Superseded(p).lease = 0 /\ Superseded(p).retry = 0
    BY DEF Proposal, Superseded
  <2>3. QED
    BY <2>1, <2>2 DEF RowOK
<1>2. ASSUME a.answer # Failed
      PROVE  /\ Completed(p, a.answer) \in Proposal
             /\ RowOK(Completed(p, a.answer))
             /\ Completed(p, a.answer).attempts = p.attempts
  <2>1. a.answer \in Choice
    BY <1>2 DEF Attempt
  <2>2. Completed(p, a.answer) \in Proposal
    BY <2>1, NoneIsAToken DEF Proposal, Completed
  <2>3. /\ Completed(p, a.answer).status = "ready"
        /\ Completed(p, a.answer).attempts = p.attempts
        /\ Completed(p, a.answer).token = 0 /\ Completed(p, a.answer).lease = 0
        /\ Completed(p, a.answer).retry = 0
    BY DEF Proposal, Completed
  <2>4. QED
    BY <2>2, <2>3 DEF RowOK
<1>3. QED
  BY <1>1, <1>2, FailedRow DEF Outcome

\* A passing unit of time keeps the row, but for its lease and its retry delay.
LEMMA ElapsedRow ==
  ASSUME NEW p \in Proposal, RowOK(p),
         NEW q, q = [p EXCEPT !.lease = Elapsed(@), !.retry = Elapsed(@)]
  PROVE  /\ q \in Proposal
         /\ RowOK(q)
         /\ q.attempts = p.attempts /\ q.status = p.status /\ q.token = p.token
         /\ Settled(p) => q = p
<1>1. \A n \in Nat : Elapsed(n) \in Nat /\ (n = 0 => Elapsed(n) = 0)
  BY DEF Elapsed
<1>2. q \in Proposal /\ q.attempts = p.attempts /\ q.status = p.status /\ q.token = p.token
  BY <1>1 DEF Proposal
<1>3. RowOK(q)
  BY <1>1, <1>2 DEF Proposal, RowOK
<1>4. Settled(p) => q = p
  BY <1>1 DEF Settled, Terminal, Proposal, RowOK
<1>5. QED
  BY <1>2, <1>3, <1>4

-----------------------------------------------------------------------------
(* The steps of the system *)

\* The null transaction and the idle worker are values of their types.
LEMMA NullsTyped ==
  NoTx \in Tx /\ Idle \in Attempt /\ Idle.pc = "idle" /\ NoTx.kind = "none"
<1>1. (CHOOSE s \in Segment : TRUE) \in Segment
  BY ConstantsAssumption
<1>2. QED
  BY <1>1, NoneIsAToken DEF NoTx, Idle, Tx, Attempt, MaybeVersion, Choice

\* The part of the invariant that relates rows and workers.
Held ==
  /\ \A k \in Key : RowOK(proposal[k])
  /\ \A w \in Worker : TokenCounted(w)
  /\ TokensDiffer
  /\ NewestAttemptUndisturbed

\* A worker that leaves its attempt, or goes on with it, disturbs no row.
LEMMA LocalStep ==
  ASSUME IInv, NEW w \in Worker, NEW a \in Attempt,
         attempt' = [attempt EXCEPT ![w] = a], UNCHANGED proposal,
         \/ a.pc \in {"idle", "candidate"}
         \/ /\ InFlight(w) /\ a.segment = attempt[w].segment
            /\ a.version = attempt[w].version /\ a.token = attempt[w].token
  PROVE  Held' /\ attempt' \in [Worker -> Attempt]
<1>1. attempt' \in [Worker -> Attempt] /\ attempt'[w] = a
  BY DEF IInv, TypeOK
<1>2. ASSUME NEW u \in Worker, InFlight(u)'
      PROVE  /\ InFlight(u) /\ Target(u)' = Target(u)
             /\ attempt'[u].token = attempt[u].token
             /\ attempt'[u].version = attempt[u].version
  BY <1>1, <1>2 DEF IInv, TypeOK, InFlight, Target
<1>3. \A u \in Worker : TokenCounted(u)'
  BY <1>2 DEF IInv, TokenCounted
<1>4. TokensDiffer'
  BY <1>2 DEF IInv, TokensDiffer
<1>5. NewestAttemptUndisturbed'
  BY <1>2 DEF IInv, NewestAttemptUndisturbed
<1>6. QED
  BY <1>1, <1>3, <1>4, <1>5 DEF Held, IInv

\* The transaction that holds the lock is not touched by another worker's step.
LEMMA TxKept ==
  ASSUME IInv, NEW w \in Worker, UNCHANGED <<tx, proposal>>,
         tx.kind \in {"claim", "finish"} => tx.by # w,
         \A u \in Worker \ {w} : attempt'[u] = attempt[u]
  PROVE  TxOK'
BY DEF IInv, TxOK, Owns, InFlight, Target, OwnedBy

\* A scan that picks a candidate keeps the inductive invariant.
LEMMA DiscoverStep ==
  ASSUME IInv, NEW w \in Worker, NEW s \in Segment, Discover(w, s)
  PROVE  IInv'
<1> DEFINE a == [Idle EXCEPT !.pc = "candidate", !.segment = s]
<1>1. a \in Attempt /\ a.pc = "candidate"
  BY NullsTyped DEF Attempt
<1>2. Held' /\ attempt' \in [Worker -> Attempt]
  BY <1>1, LocalStep DEF Discover
<1>3. TxOK'
  <2>1. tx.kind \in {"claim", "finish"} => tx.by # w
    BY DEF Discover, IInv, TxOK
  <2>2. QED
    BY <2>1, TxKept DEF Discover, IInv, TypeOK
<1>4. QED
  BY <1>2, <1>3 DEF IInv, Held, TypeOK, Discover

\* Taking the lock for a claim keeps the inductive invariant.
LEMMA ClaimBeginStep ==
  ASSUME IInv, NEW w \in Worker, ClaimBegin(w)
  PROVE  IInv'
<1>1. tx' \in Tx
  BY NullsTyped DEF ClaimBegin, IInv, TypeOK, Attempt, Tx, Choice
<1>2. TxOK'
  BY DEF ClaimBegin, TxOK
<1>3. Held'
  BY DEF ClaimBegin, IInv, Held, TokenCounted, TokensDiffer, NewestAttemptUndisturbed,
         InFlight, Target
<1>4. QED
  BY <1>1, <1>2, <1>3 DEF IInv, Held, TypeOK, ClaimBegin

\* A claim that starts an attempt: its token is larger than every other worker's.
LEMMA ClaimStarts ==
  ASSUME IInv, NEW w \in Worker, tx.kind = "claim", tx.by = w,
         NEW v \in Version, tx.seen = v, CanStart(proposal[<<tx.segment, v>>]),
         proposal' = [proposal EXCEPT ![<<tx.segment, v>>] = Started(@)],
         attempt' = [attempt EXCEPT ![w] =
                       [@ EXCEPT !.pc = "claimed", !.version = v,
                                 !.token = Started(proposal[<<tx.segment, v>>]).token]]
  PROVE  Held' /\ attempt' \in [Worker -> Attempt] /\ proposal' \in [Key -> Proposal]
<1> DEFINE k == <<tx.segment, v>>
           p == proposal[k]
           a == [attempt[w] EXCEPT !.pc = "claimed", !.version = v, !.token = p.attempts + 1]
<1>1. /\ k \in Key /\ p \in Proposal /\ attempt[w] \in Attempt
      /\ attempt[w].segment = tx.segment /\ ~InFlight(w)
  BY DEF IInv, TypeOK, TxOK, Tx, Key, InFlight
<1>2. /\ Started(p) \in Proposal /\ RowOK(Started(p))
      /\ Started(p).attempts = p.attempts + 1
      /\ OwnedBy(Started(p), p.attempts + 1) /\ Started(p).token = p.attempts + 1
  BY <1>1, StartedRow
<1>3. proposal' \in [Key -> Proposal] /\ proposal'[k] = Started(p)
      /\ \A j \in Key \ {k} : proposal'[j] = proposal[j]
  BY <1>1, <1>2 DEF IInv, TypeOK, Key
<1>4. /\ attempt' \in [Worker -> Attempt] /\ attempt'[w] = a
      /\ a.segment = tx.segment /\ a.version = v
      /\ a.token = p.attempts + 1 /\ a.pc = "claimed"
      /\ \A u \in Worker \ {w} : attempt'[u] = attempt[u]
  <2>1. p.attempts + 1 \in 0..MaxAttempts
    BY <1>2 DEF Proposal
  <2>2. /\ a \in Attempt /\ a.segment = tx.segment /\ a.version = v
        /\ a.token = p.attempts + 1 /\ a.pc = "claimed"
    BY <1>1, <2>1 DEF Attempt, MaybeVersion
  <2>3. attempt' = [attempt EXCEPT ![w] = a]
    BY <1>2
  <2>4. QED
    BY <2>2, <2>3 DEF IInv, TypeOK
<1>5. Target(w)' = k /\ InFlight(w)'
  BY <1>4 DEF Target, InFlight
<1>6. ASSUME NEW u \in Worker \ {w}, InFlight(u)'
      PROVE  /\ InFlight(u) /\ Target(u)' = Target(u) /\ Target(u) \in Key
             /\ attempt'[u].token = attempt[u].token
             /\ attempt[u].token \in 1..proposal[Target(u)].attempts
             /\ attempt'[u].version \in Version
  BY <1>4, <1>6 DEF InFlight, Target, IInv, TokenCounted, TypeOK, Attempt, Key
<1>7. p.attempts \in Nat
  BY <1>1 DEF Proposal
<1>8. \A j \in Key : RowOK(proposal'[j])
  BY <1>2, <1>3 DEF IInv
<1>9. ASSUME NEW u \in Worker PROVE TokenCounted(u)'
  <2>1. CASE u = w
    BY <2>1, <1>2, <1>3, <1>4, <1>5, <1>7 DEF TokenCounted
  <2>2. CASE u # w
    <3> SUFFICES ASSUME InFlight(u)'
                 PROVE  attempt'[u].token \in 1..proposal'[Target(u)].attempts
      BY <2>2, <1>6 DEF TokenCounted
    <3>1. CASE Target(u) = k
      BY <2>2, <3>1, <1>2, <1>3, <1>7, <1>6
    <3>2. CASE Target(u) # k
      BY <2>2, <3>2, <1>3, <1>6
    <3>3. QED
      BY <3>1, <3>2
  <2>3. QED
    BY <2>1, <2>2
<1>10. ASSUME NEW u \in Worker \ {w}, InFlight(u)', Target(u) = k
       PROVE  attempt'[u].token \in 1..p.attempts /\ attempt'[u].token # p.attempts + 1
  BY <1>6, <1>7, <1>10
<1>11. TokensDiffer'
  <2> SUFFICES ASSUME NEW u1 \in Worker, NEW u2 \in Worker, InFlight(u1)', InFlight(u2)',
                      Target(u1)' = Target(u2)', u1 # u2
               PROVE  attempt'[u1].token # attempt'[u2].token
    BY DEF TokensDiffer
  <2>1. CASE u1 = w
    <3>1. u2 \in Worker \ {w} /\ Target(u2) = k
      BY <2>1, <1>5, <1>6
    <3>2. attempt'[u2].token # p.attempts + 1
      BY <3>1, <1>10
    <3>3. attempt'[w].token = p.attempts + 1
      BY <1>4
    <3>4. QED
      BY <2>1, <3>2, <3>3
  <2>2. CASE u2 = w
    <3>1. u1 \in Worker \ {w} /\ Target(u1) = k
      BY <2>2, <1>5, <1>6
    <3>2. attempt'[u1].token # p.attempts + 1
      BY <3>1, <1>10
    <3>3. attempt'[w].token = p.attempts + 1
      BY <1>4
    <3>4. QED
      BY <2>2, <3>2, <3>3
  <2>3. CASE u1 # w /\ u2 # w
    BY <2>3, <1>6 DEF IInv, TokensDiffer
  <2>4. QED
    BY <2>1, <2>2, <2>3
<1>12. NewestAttemptUndisturbed'
  <2> SUFFICES ASSUME NEW u \in Worker, InFlight(u)',
                      attempt'[u].token = proposal'[Target(u)'].attempts
               PROVE  \/ OwnedBy(proposal'[Target(u)'], attempt'[u].token)
                      \/ /\ proposal'[Target(u)'].status = "failed"
                         /\ proposal'[Target(u)'].attempts = MaxAttempts
    BY DEF NewestAttemptUndisturbed, Target
  <2>1. CASE u = w
    BY <2>1, <1>2, <1>3, <1>4, <1>5
  <2>2. CASE u # w
    <3>1. Target(u)' = Target(u) /\ Target(u) \in Key /\ InFlight(u)
          /\ attempt'[u].token = attempt[u].token
      BY <2>2, <1>6
    <3>2. Target(u) # k
      BY <2>2, <3>1, <1>2, <1>3, <1>10
    <3>3. proposal'[Target(u)] = proposal[Target(u)]
      BY <3>1, <3>2, <1>3
    <3>4. QED
      BY <3>1, <3>3 DEF IInv, NewestAttemptUndisturbed
  <2>3. QED
    BY <2>1, <2>2
<1>13. QED
  BY <1>3, <1>4, <1>8, <1>9, <1>11, <1>12 DEF Held

\* A row that is rewritten without a new attempt, when no running worker holds
\* its newest attempt or that attempt was the last one and is recorded failed.
LEMMA RowRewritten ==
  ASSUME IInv, NEW k \in Key, NEW p \in Proposal, RowOK(p),
         p.attempts = proposal[k].attempts,
         proposal' = [proposal EXCEPT ![k] = p],
         NEW w \in Worker, attempt' = [attempt EXCEPT ![w] = Idle],
         \/ \A u \in Worker \ {w} :
              InFlight(u) /\ Target(u) = k => attempt[u].token # p.attempts
         \/ p.status = "failed" /\ p.attempts = MaxAttempts
  PROVE  Held' /\ attempt' \in [Worker -> Attempt] /\ proposal' \in [Key -> Proposal]
<1>1. /\ proposal' \in [Key -> Proposal] /\ proposal'[k] = p
      /\ \A j \in Key \ {k} : proposal'[j] = proposal[j]
      /\ \A j \in Key : proposal'[j].attempts = proposal[j].attempts
  BY DEF IInv, TypeOK, Key
<1>2. attempt' \in [Worker -> Attempt] /\ attempt'[w] = Idle
      /\ \A u \in Worker \ {w} : attempt'[u] = attempt[u]
  BY NullsTyped DEF IInv, TypeOK
<1>3. ASSUME NEW u \in Worker, InFlight(u)'
      PROVE  /\ u # w /\ InFlight(u) /\ Target(u)' = Target(u) /\ Target(u) \in Key
             /\ attempt'[u] = attempt[u]
  BY <1>2, <1>3, NullsTyped DEF InFlight, Target, IInv, TokenCounted, TypeOK, Attempt, Key
<1>4. \A j \in Key : RowOK(proposal'[j])
  BY <1>1 DEF IInv
<1>5. \A u \in Worker : TokenCounted(u)'
  BY <1>1, <1>3 DEF IInv, TokenCounted
<1>6. TokensDiffer'
  BY <1>3 DEF IInv, TokensDiffer
<1>7. NewestAttemptUndisturbed'
  <2> SUFFICES ASSUME NEW u \in Worker, InFlight(u)',
                      attempt'[u].token = proposal'[Target(u)'].attempts
               PROVE  \/ OwnedBy(proposal'[Target(u)'], attempt'[u].token)
                      \/ /\ proposal'[Target(u)'].status = "failed"
                         /\ proposal'[Target(u)'].attempts = MaxAttempts
    BY DEF NewestAttemptUndisturbed, Target
  <2>1. CASE Target(u) = k
    BY <2>1, <1>1, <1>3
  <2>2. CASE Target(u) # k
    <3>1. proposal'[Target(u)] = proposal[Target(u)]
      BY <2>2, <1>1, <1>3
    <3>2. QED
      BY <3>1, <1>3 DEF IInv, NewestAttemptUndisturbed
  <2>3. QED
    BY <2>1, <2>2
<1>8. QED
  BY <1>1, <1>2, <1>4, <1>5, <1>6, <1>7 DEF Held

\* Committing a claim, with or without a started attempt, keeps it.
LEMMA ClaimCommitStep ==
  ASSUME IInv, NEW w \in Worker, ClaimCommit(w)
  PROVE  IInv'
<1> DEFINE s == tx.segment
           v == tx.seen
           k == <<s, v>>
<1>1. /\ tx.kind = "claim" /\ tx.by = w /\ tx' = NoTx
      /\ UNCHANGED <<current, active, confirmed>> /\ s \in Segment
  BY DEF ClaimCommit, IInv, TypeOK, Tx
<1>2. TxOK' /\ tx' \in Tx
  BY <1>1, NullsTyped DEF TxOK
<1>3. Held' /\ attempt' \in [Worker -> Attempt] /\ proposal' \in [Key -> Proposal]
  <2>1. CASE attempt' = [attempt EXCEPT ![w] = Idle] /\ UNCHANGED proposal
    BY <2>1, LocalStep, NullsTyped DEF IInv, TypeOK, Key
  <2>2. CASE /\ v # NoVersion /\ CanStart(proposal[k])
             /\ proposal' = [proposal EXCEPT ![k] = Started(@)]
             /\ attempt' = [attempt EXCEPT ![w] =
                              [@ EXCEPT !.pc = "claimed", !.version = v,
                                        !.token = Started(proposal[k]).token]]
    <3>1. v \in Version
      BY <2>2 DEF IInv, TypeOK, Tx, MaybeVersion
    <3>2. QED
      BY <2>2, <3>1, <1>1, ClaimStarts
  <2>3. CASE /\ v # NoVersion /\ FinalLeaseExpired(proposal[k])
             /\ proposal' = [proposal EXCEPT ![k] = RecordFailure(@)]
             /\ attempt' = [attempt EXCEPT ![w] = Idle]
    <3>1. k \in Key /\ proposal[k] \in Proposal
      BY <2>3, <1>1 DEF IInv, TypeOK, Tx, MaybeVersion, Key
    <3>2. proposal[k].attempts > 0 /\ proposal[k].attempts = MaxAttempts
      BY <2>3, <3>1, NoneIsAToken DEF FinalLeaseExpired, IInv, RowOK, Proposal
    <3>3. /\ RecordFailure(proposal[k]) \in Proposal /\ RowOK(RecordFailure(proposal[k]))
          /\ RecordFailure(proposal[k]).attempts = proposal[k].attempts
          /\ RecordFailure(proposal[k]).status = "failed"
      BY <3>1, <3>2, FailedRow
    <3>4. QED
      BY <2>3, <3>1, <3>2, <3>3, RowRewritten
  <2>4. CASE /\ v # NoVersion /\ ~FinalLeaseExpired(proposal[k])
             /\ proposal' = [proposal EXCEPT ![k] = @]
             /\ attempt' = [attempt EXCEPT ![w] = Idle]
    <3>1. proposal' = proposal
      BY <2>4 DEF IInv, TypeOK
    <3>2. QED
      BY <2>4, <3>1, LocalStep, NullsTyped DEF IInv, TypeOK, Key
  <2>5. QED
    BY <2>1, <2>2, <2>3, <2>4 DEF ClaimCommit
<1>4. QED
  BY <1>1, <1>2, <1>3 DEF IInv, Held, TypeOK, Key

\* Giving up on the lock keeps it.
LEMMA LockTimeoutStep ==
  ASSUME IInv, NEW w \in Worker, LockTimeout(w)
  PROVE  IInv'
<1>1. Held' /\ attempt' \in [Worker -> Attempt]
  BY LocalStep, NullsTyped DEF LockTimeout
<1>2. TxOK'
  BY TxKept DEF LockTimeout, IInv, TypeOK
<1>3. QED
  BY <1>1, <1>2 DEF IInv, Held, TypeOK, LockTimeout

\* A worker that goes on without the lock keeps its claim.
LEMMA OngoingStep ==
  ASSUME IInv, NEW w \in Worker, NEW a \in Attempt,
         attempt' = [attempt EXCEPT ![w] = a],
         attempt[w].pc \in {"claimed", "asking"}, a.segment = attempt[w].segment,
         a.version = attempt[w].version, a.token = attempt[w].token,
         UNCHANGED <<current, active, proposal, confirmed, tx>>
  PROVE  IInv'
<1>1. Held' /\ attempt' \in [Worker -> Attempt]
  BY LocalStep DEF InFlight
<1>2. tx.kind \in {"claim", "finish"} => tx.by # w
  BY DEF IInv, TxOK
<1>3. TxOK'
  BY <1>2, TxKept DEF IInv, TypeOK
<1>4. QED
  BY <1>1, <1>3 DEF IInv, Held, TypeOK

\* Reading the candidates without the lock keeps it.
LEMMA BuildInputsStep ==
  ASSUME IInv, NEW w \in Worker, BuildInputs(w)
  PROVE  IInv'
<1> DEFINE a == [attempt[w] EXCEPT !.pc = "asking", !.offered = active]
<1>1. attempt' = [attempt EXCEPT ![w] = a] /\ attempt[w] \in Attempt
  BY DEF BuildInputs, IInv, TypeOK
<1>2. /\ a \in Attempt /\ a.segment = attempt[w].segment
      /\ a.version = attempt[w].version /\ a.token = attempt[w].token
  BY <1>1 DEF IInv, TypeOK, Attempt
<1>3. QED
  BY <1>1, <1>2, OngoingStep DEF BuildInputs

\* The model's answer, or its failure, keeps it.
LEMMA SuggestStep ==
  ASSUME IInv, NEW w \in Worker, NEW answer \in Choice \union {Failed}, Suggest(w, answer)
  PROVE  IInv'
<1> DEFINE a == [attempt[w] EXCEPT !.pc = "answered", !.answer = answer]
<1>1. attempt' = [attempt EXCEPT ![w] = a] /\ attempt[w] \in Attempt
  BY DEF Suggest, IInv, TypeOK
<1>2. /\ a \in Attempt /\ a.segment = attempt[w].segment
      /\ a.version = attempt[w].version /\ a.token = attempt[w].token
  BY <1>1 DEF Attempt
<1>3. QED
  BY <1>1, <1>2, OngoingStep DEF Suggest

\* Taking the lock to save the outcome keeps it: the worker owns the attempt.
LEMMA FinishBeginStep ==
  ASSUME IInv, NEW w \in Worker, FinishBegin(w)
  PROVE  IInv'
<1>1. CASE UNCHANGED attempt /\ Owns(w)
           /\ tx' = [kind |-> "finish", by |-> w, segment |-> attempt[w].segment,
                     seen |-> current[attempt[w].segment], label |-> Unclassified]
  <2>1. tx' \in Tx
    BY <1>1 DEF IInv, TypeOK, Tx, Attempt, Choice
  <2>2. TxOK'
    BY <1>1 DEF FinishBegin, TxOK, Owns, InFlight, Target, OwnedBy
  <2>3. Held'
    BY <1>1 DEF FinishBegin, IInv, Held, TokenCounted, TokensDiffer,
                NewestAttemptUndisturbed, InFlight, Target
  <2>4. QED
    BY <1>1, <2>1, <2>2, <2>3 DEF IInv, Held, TypeOK, FinishBegin
<1>2. CASE attempt' = [attempt EXCEPT ![w] = Idle] /\ UNCHANGED tx
  <2>1. Held' /\ attempt' \in [Worker -> Attempt]
    BY <1>2, LocalStep, NullsTyped DEF FinishBegin
  <2>2. TxOK'
    BY <1>2 DEF FinishBegin, Locked, TxOK
  <2>3. QED
    BY <1>2, <2>1, <2>2 DEF IInv, Held, TypeOK, FinishBegin
<1>3. QED
  BY <1>1, <1>2 DEF FinishBegin, Owns, InFlight, Target

\* Saving the outcome keeps it: nobody else held the newest attempt.
LEMMA FinishCommitStep ==
  ASSUME IInv, NEW w \in Worker, FinishCommit(w)
  PROVE  IInv'
<1> DEFINE a == attempt[w]
           k == Target(w)
           p == Outcome(a, tx.seen, proposal[k])
<1>1. /\ a \in Attempt /\ Owns(w) /\ k \in Key /\ proposal[k] \in Proposal
      /\ RowOK(proposal[k]) /\ a.token = proposal[k].attempts /\ proposal[k].attempts > 0
  BY DEF FinishCommit, IInv, TypeOK, TxOK, TokenCounted, Owns, OwnedBy, Target, Key,
         Attempt, RowOK
<1>2. proposal[k].retry = 0
  BY <1>1 DEF Owns, OwnedBy, RowOK
<1>3. p \in Proposal /\ RowOK(p) /\ p.attempts = proposal[k].attempts
  BY <1>1, <1>2, OutcomeRow
<1>4. \A u \in Worker \ {w} :
        InFlight(u) /\ Target(u) = k => attempt[u].token # p.attempts
  BY <1>1, <1>3 DEF IInv, TokensDiffer, Owns
<1>5. proposal' = [proposal EXCEPT ![k] = p]
  BY DEF FinishCommit, Target
<1>6. attempt' = [attempt EXCEPT ![w] = Idle]
  BY DEF FinishCommit
<1>7. Held' /\ attempt' \in [Worker -> Attempt] /\ proposal' \in [Key -> Proposal]
  BY <1>1, <1>3, <1>4, <1>5, <1>6, RowRewritten
<1>8. TxOK' /\ tx' \in Tx
  BY NullsTyped DEF FinishCommit, TxOK
<1>9. QED
  BY <1>7, <1>8 DEF FinishCommit, IInv, Held, TypeOK, Key

\* A worker that stops anywhere keeps it.
LEMMA StopStep ==
  ASSUME IInv, NEW w \in Worker, Stop(w)
  PROVE  IInv'
<1>1. Held' /\ attempt' \in [Worker -> Attempt]
  BY LocalStep, NullsTyped DEF Stop
<1>2. TxOK' /\ tx' \in Tx
  <2>1. CASE tx.by = w
    BY <2>1, NullsTyped DEF Stop, TxOK
  <2>2. CASE tx.by # w
    BY <2>2, TxKept DEF Stop, IInv, TypeOK
  <2>3. QED
    BY <2>1, <2>2
<1>3. QED
  BY <1>1, <1>2 DEF IInv, Held, TypeOK, Stop

\* Steps of the others leave rows and workers alone.
LEMMA OthersStep ==
  ASSUME IInv, UNCHANGED <<proposal, attempt>>, TypeOK', TxOK'
  PROVE  IInv'
BY DEF IInv, TokenCounted, TokensDiffer, NewestAttemptUndisturbed, InFlight, Target

\* Taking the lock for a confirmation keeps it.
LEMMA ConfirmBeginStep ==
  ASSUME IInv, NEW s \in Segment, NEW label \in Choice, ConfirmBegin(s, label)
  PROVE  IInv'
<1>1. tx' \in Tx
  BY DEF ConfirmBegin, IInv, TypeOK, Tx
<1>2. TypeOK' /\ TxOK'
  BY <1>1 DEF ConfirmBegin, IInv, TypeOK, TxOK
<1>3. QED
  BY <1>2, OthersStep DEF ConfirmBegin

\* Saving the user's choice keeps it.
LEMMA ConfirmCommitStep == ASSUME IInv, ConfirmCommit PROVE IInv'
<1>1. [version |-> tx.seen, label |-> tx.label] \in Confirmation /\ tx.segment \in Segment
  BY DEF IInv, TypeOK, Tx, Confirmation
<1>2. TypeOK' /\ TxOK'
  BY <1>1, NullsTyped DEF ConfirmCommit, IInv, TypeOK, TxOK
<1>3. QED
  BY <1>2, OthersStep DEF ConfirmCommit

\* A rejected or cancelled choice keeps it.
LEMMA ConfirmRollbackStep == ASSUME IInv, ConfirmRollback PROVE IInv'
<1>1. TypeOK' /\ TxOK'
  BY NullsTyped DEF ConfirmRollback, IInv, TypeOK, TxOK
<1>2. QED
  BY <1>1, OthersStep DEF ConfirmRollback

\* Rewriting a segment, locked or not, keeps it.
LEMMA ReprojectStep ==
  ASSUME IInv, NEW s \in Segment, NEW v \in MaybeVersion, Reproject(s, v)
  PROVE  IInv'
<1>1. TypeOK'
  BY DEF Reproject, IInv, TypeOK
<1>2. TxOK'
  BY DEF Reproject, IInv, TxOK, Owns, InFlight, Target, OwnedBy
<1>3. QED
  BY <1>1, <1>2, OthersStep DEF Reproject

\* Archiving a label keeps it.
LEMMA ArchiveLabelStep ==
  ASSUME IInv, NEW l \in Label, ArchiveLabel(l)
  PROVE  IInv'
<1>1. TypeOK'
  BY DEF ArchiveLabel, IInv, TypeOK
<1>2. TxOK'
  BY DEF ArchiveLabel, IInv, TxOK, Owns, InFlight, Target, OwnedBy
<1>3. QED
  BY <1>1, <1>2, OthersStep DEF ArchiveLabel

\* Passing time keeps it: only leases and delays shrink.
LEMMA TickStep == ASSUME IInv, Tick PROVE IInv'
<1>1. ASSUME NEW k \in Key
      PROVE  /\ proposal'[k] \in Proposal /\ RowOK(proposal'[k])
             /\ proposal'[k].attempts = proposal[k].attempts
             /\ proposal'[k].status = proposal[k].status
             /\ proposal'[k].token = proposal[k].token
  <2>1. proposal[k] \in Proposal /\ RowOK(proposal[k])
    BY DEF IInv, TypeOK, Key
  <2>2. proposal'[k] = [proposal[k] EXCEPT !.lease = Elapsed(@), !.retry = Elapsed(@)]
    BY DEF Tick, Key
  <2>3. QED
    BY <2>1, <2>2, ElapsedRow
<1>2. TypeOK'
  <2>1. proposal' = [k \in Key |-> proposal'[k]]
    BY DEF Tick, Key
  <2>2. proposal' \in [Key -> Proposal]
    BY <1>1, <2>1
  <2>3. QED
    BY <2>2 DEF Tick, IInv, TypeOK, Key
<1>3. ASSUME NEW u \in Worker, InFlight(u)'
      PROVE  InFlight(u) /\ Target(u)' = Target(u) /\ Target(u) \in Key
             /\ attempt'[u] = attempt[u]
  BY <1>3 DEF Tick, InFlight, Target, IInv, TokenCounted, TypeOK, Attempt, Key
<1>4. \A u \in Worker : TokenCounted(u)'
  BY <1>1, <1>3 DEF IInv, TokenCounted
<1>5. TokensDiffer'
  BY <1>3 DEF IInv, TokensDiffer
<1>6. NewestAttemptUndisturbed'
  BY <1>1, <1>3 DEF IInv, NewestAttemptUndisturbed, OwnedBy
<1>7. TxOK'
  BY DEF Tick, Locked, TxOK
<1>8. QED
  BY <1>1, <1>2, <1>4, <1>5, <1>6, <1>7 DEF IInv

-----------------------------------------------------------------------------
(* The inductive invariant *)

\* Every row starts absent and every worker idle.
LEMMA InitIInv == Init => IInv
<1> SUFFICES ASSUME Init PROVE IInv
  OBVIOUS
<1>1. Absent \in Proposal /\ RowOK(Absent)
  BY NoneIsAToken DEF Absent, Proposal, RowOK, Choice
<1>2. Unconfirmed \in Confirmation
  BY DEF Unconfirmed, Confirmation, MaybeVersion, Choice
<1>3. TypeOK
  BY <1>1, <1>2, NullsTyped DEF Init, TypeOK
<1>4. \A w \in Worker : ~InFlight(w)
  BY NullsTyped DEF Init, InFlight
<1>5. (\A w \in Worker : TokenCounted(w)) /\ TokensDiffer /\ NewestAttemptUndisturbed
  BY <1>4 DEF TokenCounted, TokensDiffer, NewestAttemptUndisturbed
<1>6. TxOK
  BY NullsTyped DEF Init, TxOK
<1>7. QED
  BY <1>1, <1>3, <1>5, <1>6 DEF IInv, Init, Key

\* Every step of the workers, the user, the observation side and the clock
\* keeps the inductive invariant.
LEMMA NextStep == IInv /\ [Next]_vars => IInv'
<1> SUFFICES ASSUME IInv, [Next]_vars PROVE IInv'
  OBVIOUS
<1>1. ASSUME NEW w \in Worker, WorkerStep(w) PROVE IInv'
  BY <1>1, DiscoverStep, ClaimBeginStep, ClaimCommitStep, LockTimeoutStep, BuildInputsStep,
     SuggestStep, FinishBeginStep, FinishCommitStep, StopStep DEF WorkerStep
<1>2. ASSUME NEW s \in Segment, NEW label \in Choice, ConfirmBegin(s, label) PROVE IInv'
  BY <1>2, ConfirmBeginStep
<1>3. ASSUME ConfirmCommit \/ ConfirmRollback PROVE IInv'
  BY <1>3, ConfirmCommitStep, ConfirmRollbackStep
<1>4. ASSUME NEW s \in Segment, NEW v \in MaybeVersion, Reproject(s, v) PROVE IInv'
  BY <1>4, ReprojectStep
<1>5. ASSUME NEW l \in Label, ArchiveLabel(l) PROVE IInv'
  BY <1>5, ArchiveLabelStep
<1>6. ASSUME Tick PROVE IInv'
  BY <1>6, TickStep
<1>7. ASSUME UNCHANGED vars PROVE IInv'
  <2>1. TypeOK'
    BY <1>7 DEF vars, IInv, TypeOK
  <2>2. TxOK'
    BY <1>7 DEF vars, IInv, TxOK, Owns, InFlight, Target, OwnedBy
  <2>3. QED
    BY <1>7, <2>1, <2>2, OthersStep DEF vars
<1>8. QED
  BY <1>1, <1>2, <1>3, <1>4, <1>5, <1>6, <1>7 DEF Next

\* The inductive invariant holds in every reachable state.
LEMMA IInvHolds == Spec => []IInv
BY InitIInv, NextStep, PTL DEF Spec

-----------------------------------------------------------------------------
(* The safety invariants *)

\* Rows, confirmations, workers and the open transaction keep their types; the
\* attempt count stays within the CHECK constraint of activity_label_proposals.
THEOREM TypeCorrect == Spec => []TypeOK
<1>1. IInv => TypeOK
  BY DEF IInv
<1>2. QED
  BY <1>1, IInvHolds, PTL

\* Two running workers never both own the attempt on one proposal.
THEOREM AttemptHasOneOwner == Spec => []SingleOwner
<1>1. IInv => SingleOwner
  BY DEF IInv, TokensDiffer, SingleOwner, Owns, OwnedBy
<1>2. QED
  BY <1>1, IInvHolds, PTL

\* A worker whose lease was taken over cannot end the newer attempt.
THEOREM NewestAttemptSafe == Spec => []NewestAttemptUndisturbed
<1>1. IInv => NewestAttemptUndisturbed
  BY DEF IInv
<1>2. QED
  BY <1>1, IInvHolds, PTL

\* On the legacy path the timeline lock does hold the segment version still
\* between a transaction's checks and its write.
THEOREM LockHoldsVersion == ASSUME ~KafkaPath PROVE Spec => []VersionHeldByLock
<1>1. Init => VersionHeldByLock
  BY NullsTyped DEF Init, VersionHeldByLock, Locked
<1>2. ASSUME IInv, VersionHeldByLock, [Next]_vars PROVE VersionHeldByLock'
  <2>1. ASSUME NEW w \in Worker, WorkerStep(w) PROVE VersionHeldByLock'
    <3>1. ASSUME ClaimBegin(w) \/ FinishBegin(w) PROVE VersionHeldByLock'
      BY <1>2, <3>1 DEF ClaimBegin, FinishBegin, VersionHeldByLock, Locked
    <3>2. ASSUME ClaimCommit(w) \/ FinishCommit(w) \/ Stop(w) PROVE VersionHeldByLock'
      BY <1>2, <3>2, NullsTyped DEF ClaimCommit, FinishCommit, Stop, VersionHeldByLock, Locked
    <3>3. ASSUME UNCHANGED <<current, tx>> PROVE VersionHeldByLock'
      BY <1>2, <3>3 DEF VersionHeldByLock, Locked
    <3>4. QED
      BY <2>1, <3>1, <3>2, <3>3 DEF WorkerStep, Discover, LockTimeout, BuildInputs, Suggest
  <2>2. ASSUME NEW s \in Segment, NEW label \in Choice, ConfirmBegin(s, label)
        PROVE  VersionHeldByLock'
    BY <2>2 DEF ConfirmBegin, VersionHeldByLock
  <2>3. ASSUME ConfirmCommit \/ ConfirmRollback PROVE VersionHeldByLock'
    BY <2>3, NullsTyped DEF ConfirmCommit, ConfirmRollback, VersionHeldByLock, Locked
  <2>4. ASSUME \/ \E s \in Segment, v \in MaybeVersion : Reproject(s, v)
               \/ \E l \in Label : ArchiveLabel(l)
               \/ Tick
               \/ UNCHANGED vars
        PROVE  VersionHeldByLock'
    BY <1>2, <2>4 DEF Reproject, ArchiveLabel, Tick, vars, VersionHeldByLock, Locked
  <2>5. QED
    BY <1>2, <2>1, <2>2, <2>3, <2>4 DEF Next
<1>3. QED
  BY <1>1, <1>2, IInvHolds, PTL DEF Spec

-----------------------------------------------------------------------------
(* The action properties and the refinement *)

\* A step writes rows in one of four ways: a claim starts an attempt, a claim
\* records the final attempt's failure, a finish ends an attempt, time passes.
LEMMA RowWrites ==
  ASSUME IInv, [Next]_vars, NEW k \in Key
  PROVE  \/ proposal'[k] = proposal[k]
         \/ CanStart(proposal[k]) /\ proposal'[k] = Started(proposal[k])
         \/ FinalLeaseExpired(proposal[k]) /\ proposal'[k] = RecordFailure(proposal[k])
         \/ \E w \in Worker :
              /\ FinishCommit(w) /\ Owns(w) /\ k = Target(w)
              /\ proposal'[k] = Outcome(attempt[w], tx.seen, proposal[k])
         \/ proposal'[k] = [proposal[k] EXCEPT !.lease = Elapsed(@), !.retry = Elapsed(@)]
<1>1. proposal \in [Key -> Proposal]
  BY DEF IInv, TypeOK, Key
<1>2. ASSUME NEW w \in Worker, ClaimCommit(w), proposal'[k] # proposal[k]
      PROVE  \/ CanStart(proposal[k]) /\ proposal'[k] = Started(proposal[k])
             \/ FinalLeaseExpired(proposal[k]) /\ proposal'[k] = RecordFailure(proposal[k])
  BY <1>1, <1>2 DEF ClaimCommit
<1>3. ASSUME NEW w \in Worker, FinishCommit(w), proposal'[k] # proposal[k]
      PROVE  /\ Owns(w) /\ k = Target(w)
             /\ proposal'[k] = Outcome(attempt[w], tx.seen, proposal[k])
  BY <1>1, <1>3 DEF FinishCommit, IInv, TxOK, Target
<1>4. ASSUME Tick
      PROVE  proposal'[k] = [proposal[k] EXCEPT !.lease = Elapsed(@), !.retry = Elapsed(@)]
  BY <1>4 DEF Tick, Key
<1>5. ASSUME proposal'[k] # proposal[k]
      PROVE  Tick \/ \E w \in Worker : ClaimCommit(w) \/ FinishCommit(w)
  BY <1>5 DEF Next, WorkerStep, vars, Discover, ClaimBegin, LockTimeout, BuildInputs, Suggest,
              FinishBegin, Stop, ConfirmBegin, ConfirmCommit, ConfirmRollback, Reproject,
              ArchiveLabel
<1>6. QED
  BY <1>2, <1>3, <1>4, <1>5

\* A ready, superseded or finally failed proposal is never written again.
THEOREM SettledStays == Spec => SettledIsFinal
<1>1. ASSUME IInv, [Next]_vars, NEW k \in Key, Settled(proposal[k])
      PROVE  proposal'[k] = proposal[k]
  <2>1. proposal[k] \in Proposal /\ RowOK(proposal[k])
    BY <1>1 DEF IInv, TypeOK, Key
  <2>2. ~CanStart(proposal[k]) /\ ~FinalLeaseExpired(proposal[k])
    BY <1>1, <2>1, NoneIsAToken DEF Settled, Terminal, CanStart, FinalLeaseExpired
  <2>3. \A w \in Worker : Owns(w) => k # Target(w)
    BY <1>1 DEF Settled, Terminal, Owns, OwnedBy
  <2>4. \A q : q = [proposal[k] EXCEPT !.lease = Elapsed(@), !.retry = Elapsed(@)]
                 => q = proposal[k]
    BY <1>1, <2>1, ElapsedRow
  <2>5. QED
    BY <1>1, <2>2, <2>3, <2>4, RowWrites
<1>2. IInv /\ [Next]_vars =>
        [\A k \in Segment \X Version : Settled(proposal[k]) => proposal'[k] = proposal[k]]_vars
  BY <1>1 DEF Key
<1>3. QED
  BY <1>2, IInvHolds, PTL DEF Spec, SettledIsFinal

\* finish answers ready only when the segment is unconfirmed; it answers failed
\* or superseded otherwise, and always ends the attempt.
LEMMA OutcomeStatus ==
  ASSUME NEW a \in Attempt, NEW seen, NEW p \in Proposal
  PROVE  LET q == Outcome(a, seen, p)
         IN  /\ q.status \in {"ready", "superseded", "failed"}
             /\ q.status = "ready" => ~Applies(a.segment, a.version)
<1>1. Superseded(p).status = "superseded"
  BY DEF Superseded, Proposal
<1>2. RecordFailure(p).status = "failed"
  BY DEF RecordFailure, Proposal
<1>3. Completed(p, a.answer).status = "ready"
  BY DEF Completed, Proposal
<1>4. QED
  BY <1>1, <1>2, <1>3 DEF Outcome

\* Only finish publishes: a row becomes ready by the commit of its owner.
LEMMA ReadyByFinish ==
  ASSUME IInv, [Next]_vars, NEW k \in Key,
         proposal[k].status # "ready", proposal'[k].status = "ready"
  PROVE  \E w \in Worker :
           /\ FinishCommit(w) /\ k = Target(w)
           /\ proposal'[k] = Outcome(attempt[w], tx.seen, proposal[k])
<1>1. proposal[k] \in Proposal /\ RowOK(proposal[k])
  BY DEF IInv, TypeOK, Key
<1>2. Started(proposal[k]).status = "processing"
  BY <1>1 DEF Started, Proposal
<1>3. RecordFailure(proposal[k]).status = "failed"
  BY <1>1 DEF RecordFailure, Proposal
<1>4. \A q : q = [proposal[k] EXCEPT !.lease = Elapsed(@), !.retry = Elapsed(@)]
               => q.status = proposal[k].status
  BY <1>1, ElapsedRow
<1>5. QED
  BY <1>2, <1>3, <1>4, RowWrites

\* A suggestion is never published for a version the user has already labelled.
THEOREM UserChoiceRespected == Spec => UserChoiceWins
<1>1. ASSUME IInv, [Next]_vars, NEW s \in Segment, NEW v \in Version, BecomesReady(s, v)
      PROVE  ~Applies(s, v)
  <2> DEFINE k == <<s, v>>
  <2>1. k \in Key /\ proposal[k] \in Proposal /\ RowOK(proposal[k])
    BY <1>1 DEF IInv, TypeOK, Key
  <2>2. PICK w \in Worker : /\ k = Target(w)
                            /\ proposal'[k] = Outcome(attempt[w], tx.seen, proposal[k])
    BY <1>1, <2>1, ReadyByFinish DEF BecomesReady
  <2>3. attempt[w] \in Attempt /\ attempt[w].segment = s /\ attempt[w].version = v
    BY <1>1, <2>2 DEF IInv, TypeOK, Target
  <2>4. QED
    BY <1>1, <2>1, <2>2, <2>3, OutcomeStatus DEF BecomesReady
<1>2. IInv /\ [Next]_vars =>
        [\A s \in Segment, v \in Version : BecomesReady(s, v) => ~Applies(s, v)]_vars
  BY <1>1
<1>3. QED
  BY <1>2, IInvHolds, PTL DEF Spec, UserChoiceWins

\* finish answers ready only for the version it saw under the lock, with a label
\* that was offered and is still active.
LEMMA PublishedOutcome ==
  ASSUME NEW a \in Attempt, NEW seen, NEW p \in Proposal, Outcome(a, seen, p).status = "ready"
  PROVE  /\ seen = a.version
         /\ Outcome(a, seen, p).label \in active \union {Unclassified}
<1>1. Superseded(p).status = "superseded"
  BY DEF Superseded, Proposal
<1>2. RecordFailure(p).status = "failed"
  BY DEF RecordFailure, Proposal
<1>3. Completed(p, a.answer).label = a.answer
  BY DEF Completed, Proposal
<1>4. QED
  BY <1>1, <1>2, <1>3 DEF Outcome, SuggestsACandidate

\* On the legacy path a suggestion is published and a choice is saved only for
\* the version the segment has at that moment: both come from a transaction
\* that read the version under the lock, and the lock held it still.
THEOREM LockedWritesCurrent == ASSUME ~KafkaPath PROVE Spec => WritesForCurrentVersion
<1>1. ASSUME IInv, VersionHeldByLock, [Next]_vars,
             NEW s \in Segment, NEW v \in Version, BecomesReady(s, v)
      PROVE  /\ current[s] = v
             /\ proposal'[<<s, v>>].label \in active \union {Unclassified}
  <2> DEFINE k == <<s, v>>
  <2>1. k \in Key /\ proposal[k] \in Proposal
    BY <1>1 DEF IInv, TypeOK, Key
  <2>2. PICK w \in Worker : /\ FinishCommit(w)
                            /\ k = Target(w)
                            /\ proposal'[k] = Outcome(attempt[w], tx.seen, proposal[k])
    BY <1>1, <2>1, ReadyByFinish DEF BecomesReady
  <2>3. attempt[w] \in Attempt /\ attempt[w].segment = s /\ attempt[w].version = v
    BY <1>1, <2>2 DEF IInv, TypeOK, Target
  <2>4. tx.seen = v /\ proposal'[k].label \in active \union {Unclassified}
    BY <1>1, <2>1, <2>2, <2>3, PublishedOutcome DEF BecomesReady
  <2>5. Locked /\ tx.segment = s
    BY <1>1, <2>2, <2>3 DEF FinishCommit, IInv, TxOK, Locked
  <2>6. QED
    BY <1>1, <2>4, <2>5 DEF VersionHeldByLock
<1>2. ASSUME IInv, VersionHeldByLock, [Next]_vars,
             NEW s \in Segment, confirmed'[s] # confirmed[s]
      PROVE  confirmed'[s].version = current[s]
  <2>1. ConfirmCommit
    BY <1>2 DEF Next, WorkerStep, vars, Discover, ClaimBegin, ClaimCommit, LockTimeout,
                BuildInputs, Suggest, FinishBegin, FinishCommit, Stop, ConfirmBegin,
                ConfirmRollback, Reproject, ArchiveLabel, Tick
  <2>2. confirmed \in [Segment -> Confirmation]
    BY <1>2 DEF IInv, TypeOK
  <2>3. s = tx.segment /\ confirmed'[s] = [version |-> tx.seen, label |-> tx.label]
    BY <1>2, <2>1, <2>2 DEF ConfirmCommit
  <2>4. QED
    BY <1>2, <2>1, <2>3 DEF ConfirmCommit, VersionHeldByLock, Locked
<1>3. IInv /\ VersionHeldByLock /\ [Next]_vars =>
        [\A s \in Segment :
           /\ \A v \in Version : BecomesReady(s, v) =>
                /\ current[s] = v
                /\ proposal'[<<s, v>>].label \in active \union {Unclassified}
           /\ confirmed'[s] # confirmed[s] => confirmed'[s].version = current[s]]_vars
  BY <1>1, <1>2
<1>4. QED
  BY <1>3, IInvHolds, LockHoldsVersion, PTL DEF Spec, WritesForCurrentVersion

-----------------------------------------------------------------------------
(* The workers implement ProposalOutcomes *)

\* The refinement mapping, row by row.
OutcomeOf(p) ==
  CASE p.status = "ready" -> "answered"
    [] p.status = "superseded" -> "dropped"
    [] p.status = "failed" /\ p.attempts = MaxAttempts -> "exhausted"
    [] OTHER -> "pending"

\* The mapping says pending exactly of the rows that are not settled.
LEMMA PendingIsUnsettled ==
  ASSUME NEW p
  PROVE  /\ OutcomeOf(p) = "pending" <=> ~Settled(p)
         /\ p.status = "ready" => OutcomeOf(p) = "answered"
         /\ p.status = "superseded" => OutcomeOf(p) = "dropped"
         /\ p.status = "failed" /\ p.attempts = MaxAttempts => OutcomeOf(p) = "exhausted"
BY DEF OutcomeOf, Settled, Terminal

\* Writing one row so that it is tried once more, settles or gives up is a step
\* of the abstract specification; keeping count and outcome is a stutter.
LEMMA OneRowRefines ==
  ASSUME proposal \in [Key -> Proposal], NEW k \in Key, NEW q \in Proposal,
         proposal' = [proposal EXCEPT ![k] = q],
         LET p == proposal[k]
         IN  \/ q.attempts = p.attempts /\ OutcomeOf(q) = OutcomeOf(p)
             \/ /\ OutcomeOf(p) = "pending" /\ OutcomeOf(q) = "pending"
                /\ p.attempts < MaxAttempts /\ q.attempts = p.attempts + 1
             \/ /\ OutcomeOf(p) = "pending" /\ q.attempts = p.attempts /\ p.attempts > 0
                /\ OutcomeOf(q) \in {"answered", "dropped"}
             \/ /\ OutcomeOf(p) = "pending" /\ q.attempts = p.attempts
                /\ p.attempts = MaxAttempts /\ OutcomeOf(q) = "exhausted"
  PROVE  [Outcomes!Next]_(Outcomes!vars)
<1> DEFINE p == proposal[k]
           T == [j \in Segment \X Version |-> proposal[j].attempts]
           O == [j \in Segment \X Version |-> OutcomeOf(proposal[j])]
<1>1. proposal'[k] = q /\ \A j \in Key \ {k} : proposal'[j] = proposal[j]
  OBVIOUS
<1>2. T' = [T EXCEPT ![k] = q.attempts] /\ O' = [O EXCEPT ![k] = OutcomeOf(q)]
      /\ T[k] = p.attempts /\ O[k] = OutcomeOf(p)
  BY <1>1 DEF Key
<1>3. CASE q.attempts = p.attempts /\ OutcomeOf(q) = OutcomeOf(p)
  <2>1. T' = T /\ O' = O
    BY <1>2, <1>3
  <2>2. QED
    BY <2>1 DEF Outcomes!vars, OutcomeOf
<1>4. CASE /\ OutcomeOf(p) = "pending" /\ OutcomeOf(q) = "pending"
           /\ p.attempts < MaxAttempts /\ q.attempts = p.attempts + 1
  <2>1. O' = O /\ O[k] = "pending"
    BY <1>2, <1>4
  <2>2. q.attempts = T[k] + 1 /\ T[k] < MaxAttempts
    BY <1>2, <1>4
  <2>3. T' = [T EXCEPT ![k] = @ + 1]
    BY <1>2, <2>2
  <2>4. Outcomes!Try(k)
    BY <2>1, <2>2, <2>3 DEF Outcomes!Try, OutcomeOf
  <2>5. QED
    BY <2>4 DEF Outcomes!Next, Key
<1>5. CASE /\ OutcomeOf(p) = "pending" /\ q.attempts = p.attempts /\ p.attempts > 0
           /\ OutcomeOf(q) \in {"answered", "dropped"}
  <2>1. O' = [O EXCEPT ![k] = OutcomeOf(q)] /\ T' = T /\ O[k] = "pending" /\ T[k] > 0
    BY <1>2, <1>5
  <2>2. Outcomes!Settle(k)
    BY <1>5, <2>1 DEF Outcomes!Settle, OutcomeOf
  <2>3. QED
    BY <2>2 DEF Outcomes!Next, Key
<1>6. CASE /\ OutcomeOf(p) = "pending" /\ q.attempts = p.attempts
           /\ p.attempts = MaxAttempts /\ OutcomeOf(q) = "exhausted"
  <2>1. /\ O' = [O EXCEPT ![k] = "exhausted"] /\ T' = T
        /\ O[k] = "pending" /\ T[k] = MaxAttempts
    BY <1>2, <1>6
  <2>2. Outcomes!GiveUp(k)
    BY <2>1 DEF Outcomes!GiveUp, OutcomeOf
  <2>3. QED
    BY <2>2 DEF Outcomes!Next, Key
<1>7. QED
  BY <1>3, <1>4, <1>5, <1>6

\* Steps that keep every row's count and outcome are stutters.
LEMMA NoOutcomeChange ==
  ASSUME \A k \in Key : /\ proposal'[k].attempts = proposal[k].attempts
                        /\ OutcomeOf(proposal'[k]) = OutcomeOf(proposal[k])
  PROVE  UNCHANGED Outcomes!vars
BY DEF Outcomes!vars, OutcomeOf, Key

\* A claim starts an attempt on a pending row or gives up its last one.
LEMMA ClaimRefines ==
  ASSUME IInv, NEW w \in Worker, ClaimCommit(w)
  PROVE  [Outcomes!Next]_(Outcomes!vars)
<1> DEFINE k == <<tx.segment, tx.seen>>
           p == proposal[k]
<1>1. proposal \in [Key -> Proposal]
  BY DEF IInv, TypeOK, Key
<1>2. CASE UNCHANGED proposal
  BY <1>2, NoOutcomeChange
<1>3. CASE /\ tx.seen # NoVersion /\ CanStart(p)
           /\ proposal' = [proposal EXCEPT ![k] = Started(p)]
  <2>1. k \in Key /\ p \in Proposal
    BY <1>1, <1>3 DEF IInv, TypeOK, Tx, MaybeVersion, Key
  <2>2. Started(p) \in Proposal /\ Started(p).attempts = p.attempts + 1
        /\ Started(p).status = "processing"
    BY <1>3, <2>1, StartedRow DEF OwnedBy
  <2>3. p.attempts < MaxAttempts /\ p.attempts # MaxAttempts
    BY <1>3, <2>1, NoneIsAToken DEF CanStart, Proposal
  <2>4. OutcomeOf(p) = "pending" /\ OutcomeOf(Started(p)) = "pending"
    BY <1>3, <2>2, <2>3, PendingIsUnsettled DEF CanStart, Settled, Terminal
  <2>5. QED
    BY <1>1, <1>3, <2>1, <2>2, <2>3, <2>4, OneRowRefines
<1>4. CASE /\ tx.seen # NoVersion /\ FinalLeaseExpired(p)
           /\ proposal' = [proposal EXCEPT ![k] = RecordFailure(p)]
  <2>1. k \in Key /\ p \in Proposal
    BY <1>1, <1>4 DEF IInv, TypeOK, Tx, MaybeVersion, Key
  <2>2. p.attempts = MaxAttempts /\ p.attempts > 0 /\ p.status = "processing"
    BY <1>4, <2>1, ConstantsAssumption DEF FinalLeaseExpired, Proposal
  <2>3. /\ RecordFailure(p) \in Proposal /\ RecordFailure(p).attempts = p.attempts
        /\ RecordFailure(p).status = "failed"
    BY <2>1, <2>2, FailedRow
  <2>4. OutcomeOf(p) = "pending" /\ OutcomeOf(RecordFailure(p)) = "exhausted"
    BY <2>2, <2>3, PendingIsUnsettled DEF Settled, Terminal
  <2>5. QED
    BY <1>1, <1>4, <2>1, <2>2, <2>3, <2>4, OneRowRefines
<1>5. QED
  BY <1>1, <1>2, <1>3, <1>4 DEF ClaimCommit

\* A finish settles a pending row, gives it up or leaves it for a retry.
LEMMA FinishRefines ==
  ASSUME IInv, NEW w \in Worker, FinishCommit(w)
  PROVE  [Outcomes!Next]_(Outcomes!vars)
<1> DEFINE a == attempt[w]
           k == Target(w)
           p == proposal[k]
           q == Outcome(a, tx.seen, p)
<1>1. /\ proposal \in [Key -> Proposal] /\ a \in Attempt /\ k \in Key /\ p \in Proposal
      /\ RowOK(p) /\ p.status = "processing" /\ p.attempts > 0
  BY DEF FinishCommit, IInv, TypeOK, TxOK, TokenCounted, Owns, OwnedBy, Target, Key,
         Attempt, RowOK
<1>2. q \in Proposal /\ q.attempts = p.attempts
  BY <1>1, OutcomeRow DEF RowOK
<1>3. q.status \in {"ready", "superseded", "failed"}
  BY <1>1, OutcomeStatus
<1>4. OutcomeOf(p) = "pending"
  BY <1>1, PendingIsUnsettled DEF Settled, Terminal
<1>5. proposal' = [proposal EXCEPT ![k] = q]
  BY DEF FinishCommit, Target
<1>6. CASE q.status \in {"ready", "superseded"}
  BY <1>1, <1>2, <1>4, <1>5, <1>6, PendingIsUnsettled, OneRowRefines
<1>7. CASE q.status = "failed" /\ p.attempts = MaxAttempts
  BY <1>1, <1>2, <1>4, <1>5, <1>7, PendingIsUnsettled, OneRowRefines
<1>8. CASE q.status = "failed" /\ p.attempts # MaxAttempts
  <2>1. OutcomeOf(q) = "pending"
    BY <1>2, <1>8, PendingIsUnsettled DEF Settled, Terminal
  <2>2. QED
    BY <1>1, <1>2, <1>4, <1>5, <2>1, OneRowRefines
<1>9. QED
  BY <1>3, <1>6, <1>7, <1>8

\* The clock changes no outcome.
LEMMA TickRefines ==
  ASSUME IInv, Tick
  PROVE  UNCHANGED Outcomes!vars
<1>1. ASSUME NEW k \in Key
      PROVE  /\ proposal'[k].attempts = proposal[k].attempts
             /\ proposal'[k].status = proposal[k].status
  <2>1. proposal[k] \in Proposal /\ RowOK(proposal[k])
    BY DEF IInv, TypeOK, Key
  <2>2. proposal'[k] = [proposal[k] EXCEPT !.lease = Elapsed(@), !.retry = Elapsed(@)]
    BY DEF Tick, Key
  <2>3. QED
    BY <2>1, <2>2, ElapsedRow
<1>2. QED
  BY <1>1, NoOutcomeChange DEF OutcomeOf

\* The workers keep the promise of ProposalOutcomes: at most MaxAttempts tries,
\* and one outcome that stands.
THEOREM WorkersImplementOutcomes == Spec => ImplementsOutcomes
<1>1. Init => Outcomes!Init
  BY DEF Init, Absent, Outcomes!Init
<1>2. ASSUME IInv, [Next]_vars PROVE [Outcomes!Next]_(Outcomes!vars)
  <2>1. CASE UNCHANGED proposal
    BY <2>1, NoOutcomeChange
  <2>2. CASE \E w \in Worker : ClaimCommit(w) \/ FinishCommit(w)
    BY <1>2, <2>2, ClaimRefines, FinishRefines
  <2>3. CASE Tick
    BY <1>2, <2>3, TickRefines
  <2>4. QED
    BY <1>2, <2>1, <2>2, <2>3
       DEF Next, WorkerStep, vars, Discover, ClaimBegin, LockTimeout, BuildInputs, Suggest,
           FinishBegin, Stop, ConfirmBegin, ConfirmCommit, ConfirmRollback, Reproject,
           ArchiveLabel
<1>3. QED
  BY <1>1, <1>2, IInvHolds, PTL DEF Spec, ImplementsOutcomes, Outcomes!Spec
=============================================================================
