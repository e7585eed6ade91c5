-------------------------- MODULE ProcessesProofs --------------------------
(***************************************************************************)
(* Theorems about the processes around the API, for every number of        *)
(* workers, partitions, segments, sessions and hooks: the consumer, the    *)
(* batch process, the gate and the metrics of the repository's agents.     *)
(***************************************************************************)
EXTENDS MCProcesses, SequenceLemmas

-----------------------------------------------------------------------------
(* The gate *)

\* The trees that a session may pass unchecked.
Judged(a) == judged[a] \union unseen \union {Nothing}

\* What a session's record, or another's copy of it, lets pass was judged.
RecordsAreJudged(records) == \A a \in Agents : Known(records[a]) \subseteq Judged(a)

\* What a stop has found so far; a failure that blocks is one of the checks or of the gate.
StopOK(a, stop) ==
  /\ stop.change \in Judged(a)
  /\ stop.result = "cached" => stop.seen \in Judged(a) \ {Nothing}
  /\ stop.result = "block" => stop.verdict \in Failures
  /\ stop.step \in {"idle", "format", "compare", "check", "fingerprint"} => stop.result = "none"
  /\ stop.step = "fingerprint" => stop.seen # Nothing /\ stop.verdict \in Failures \union {Passing}
  /\ RecordsAreJudged(stop.copy)

\* A session's record has its last blocks in a row, unless another's save has lost it.
BlocksCounted ==
  \A a \in Agents \ overwritten :
    state[a].failure = blocksRun[a].failure /\ state[a].count = blocksRun[a].count

GateInv ==
  /\ GateTypeOK
  /\ judged \in [Agents -> SUBSET (Texts \union {Clean})]
  /\ blocksRun \in [Agents -> [failure : Failures \union {Nothing}, count : Nat]]
  /\ RecordsAreJudged(state)
  /\ \A a \in Agents : StopOK(a, gate[a])
  /\ BlocksCounted

-----------------------------------------------------------------------------
(* The consumer *)

\* Where the consumer has taken more messages than it will process, and so will not commit.
Halted(w) == task[w].step = "none" /\ (closing \/ stopAsked \/ revoking[w] # NotNow)

\* A worker's positions pass nothing but processed messages and its task's own.
PositionsCovered(w) ==
  \A p \in owned[w] : \A o \in 0..(position[w][p] - 1) :
    <<p, o>> \in done \/ (task[w].step # "none" /\ <<p, o>> = Message(w))

\* The tasks that are cancelled, revoked or done.
TasksOK ==
  \A w \in Workers :
    /\ w \in cancelling => Running(w)
    /\ task[w].step \in {"stored", "acked"} => Message(w) \in done
    /\ ~crossed /\ w \in revoked => w \in revoking[w]

\* From closing on no execution begins, and the drain awaits those that can be found.
DrainOK ==
  /\ phase \in {"closing", "draining", "exited"} => closing
  /\ phase \in {"draining", "exited"} => \A w \in Workers :
       task[w].step # "none" /\ executions[task[w].partition] = w => phase = "draining" /\ w \in awaited
  /\ lost => failure \/ \E w \in Workers : task[w].step = "failed"

SupervisorInv ==
  /\ SupervisorTypeOK
  /\ position \in [Workers -> [Partitions -> Nat]] /\ offset \in [Partitions -> Nat]
  /\ TasksOK
  /\ DrainOK
  /\ NoMessageSkipped
  /\ crossed \/ \A w \in Workers : PositionsCovered(w) \/ Halted(w)

-----------------------------------------------------------------------------
(* The batch process *)

\* A page is in order of its ids, after the cursor, and fits into the batch.
PageOK ==
  /\ \A i \in DOMAIN page : page[i].id > cursor
  /\ \A i, j \in DOMAIN page : i < j => page[i].id < page[j].id
  /\ page # <<>> => processed < MaxProcessed
  /\ scanned + Len(page) <= MaxScanned

\* What wants a label since the sweep began was visited, or still will be.
StillToCome ==
  \A s \in wanting \ visited :
    /\ segments[s] = "wanting"
    /\ s > cursor
    /\ (\E i \in DOMAIN page : page[i] = [id |-> s, needs |-> TRUE]) \/ \A i \in DOMAIN page : page[i].id < s

SweepInv ==
  /\ SweepTypeOK
  /\ PageOK
  /\ job = "running" => StillToCome
  /\ SweepVisitsAll
  /\ JobEndsFirst
  /\ process = "starting" => job = "none"

-----------------------------------------------------------------------------
(* The reports *)

\* The hooks that have a line to append.
Stamped == {h \in Hooks : hand[h] # Null}

\* What hooks say is of an edit, of a stop or of a review.
Events == {"edit", "stop", "review"}

EventsKnown ==
  /\ \A i \in DOMAIN log : log[i].fact.event \in Events
  /\ \A h \in Stamped : hand[h].fact.event \in Events

\* A window begins where the one before it ends, and its report reads what that one has read.
ReportsFollow ==
  /\ \A n \in DOMAIN reports : reports[n].start = IF n = 1 THEN -1 ELSE reports[n-1].end
  /\ \A n, m \in DOMAIN reports : n < m => reports[n].end <= reports[m].start /\ reports[n].read <= reports[m].read
  /\ asked # Null => asked.start = IF reports = <<>> THEN -1 ELSE Last(reports).end

ReportsInv ==
  /\ ReportsTypeOK
  /\ Len(log) + Cardinality(Stamped) <= MaxLines
  /\ reports \in Seq([start : Int, end : 0..LastInstant, read : Nat])
  /\ asked \in [start : Int, end : 0..LastInstant] \union {Null}
  /\ EventsKnown
  /\ ReportsFollow

ProcessesInv == SupervisorInv /\ SweepInv /\ GateInv /\ ReportsInv

-----------------------------------------------------------------------------
(* The gate: proofs *)

\* Whatever a stop says, the record it leaves has its shape, lets pass what was judged, and
\* counts the blocks as they are told (allow, block).
LEMMA JudgementHolds ==
  ASSUME NEW stop \in Stop, NEW record \in Record, NEW known,
         stop.result = "block" => stop.verdict \in Failures,
         stop.change \in known, Nothing \in known, Known(record) \subseteq known
  PROVE  LET j == Judgement(stop, record)
         IN /\ j.record \in Record /\ Known(j.record) \subseteq known
            /\ ~j.blocked => j.record.failure = Nothing /\ j.record.count = 0
            /\ j.blocked => /\ j.record.failure = stop.verdict /\ stop.verdict \in Failures
                            /\ j.record.count = IF record.failure = stop.verdict THEN record.count + 1 ELSE 1
<1>1. /\ record.passed \in Texts \union {Clean, Nothing} /\ record.count \in 0..MaxBlocks
      /\ stop.change \in Texts \union {Clean, Nothing} /\ record.passed \in known
      /\ record.failure \in Failures \union {Nothing}
      /\ MaxBlocks \in Nat \ {0}
  BY GateAssumption DEF Record, Stop, Known
<1>2. /\ EmptyRecord \in Record /\ DOMAIN EmptyRecord = {"passed", "failure", "change", "count"}
      /\ EmptyRecord.passed = Nothing /\ EmptyRecord.failure = Nothing
      /\ EmptyRecord.change = Nothing /\ EmptyRecord.count = 0
  BY <1>1 DEF EmptyRecord, Record
<1>3. \A passed \in (Texts \union {Clean, Nothing}) \intersect known :
        /\ Allowed(record, passed) \in Record
        /\ Known(Allowed(record, passed)) \subseteq known
        /\ Allowed(record, passed).failure = Nothing /\ Allowed(record, passed).count = 0
  BY <1>1 DEF Allowed, EmptyRecord, Record, Known
<1> DEFINE count == CountOf(record, stop.verdict)
           next == [record EXCEPT !.failure = stop.verdict, !.change = stop.change, !.count = count]
<1>4. CASE stop.result # "block"
  <2>1. Judgement(stop, record)
          = [record |-> Allowed(record, IF stop.result = "allow" THEN stop.change ELSE Nothing), blocked |-> FALSE]
    BY <1>4 DEF Judgement
  <2>2. (IF stop.result = "allow" THEN stop.change ELSE Nothing) \in (Texts \union {Clean, Nothing}) \intersect known
    BY <1>1
  <2>3. QED
    BY <1>3, <2>1, <2>2
<1>5. CASE stop.result = "block" /\ count > MaxBlocks
  <2>1. Judgement(stop, record) = [record |-> Allowed(record, Nothing), blocked |-> FALSE]
    BY <1>5 DEF Judgement
  <2>2. QED
    BY <1>3, <2>1
<1>6. CASE stop.result = "block" /\ ~(count > MaxBlocks)
  <2>1. Judgement(stop, record) = [record |-> next, blocked |-> TRUE]
    BY <1>6 DEF Judgement
  <2>2. count \in 0..MaxBlocks /\ count = IF record.failure = stop.verdict THEN record.count + 1 ELSE 1
    BY <1>1, <1>6 DEF CountOf
  <2> HIDE DEF count
  <2>3. next \in Record
    BY <1>1, <1>6, <2>2 DEF Record
  <2>4. next.failure = stop.verdict /\ next.count = count /\ next.passed = record.passed /\ next.change = stop.change
    BY DEF Record
  <2>5. Known(next) \subseteq known
    BY <1>1, <2>4 DEF Known
  <2> HIDE DEF next
  <2>6. QED
    BY <1>6, <2>1, <2>2, <2>3, <2>4, <2>5
<1>7. QED
  BY <1>4, <1>5, <1>6

LEMMA GateTypes ==
  ASSUME GateInv
  PROVE  /\ tree \in Texts \union {Clean} /\ tree # Nothing
         /\ state \in [Agents -> Record] /\ gate \in [Agents -> Stop]
         /\ edits \in 0..MaxEdits /\ stops \in 0..MaxStops /\ MaxEdits \in Nat /\ MaxStops \in Nat
         /\ judged \in [Agents -> SUBSET (Texts \union {Clean})]
         /\ Formatted \in [Texts -> Texts]
         /\ \A a \in Agents : StopOK(a, gate[a])
BY GateAssumption DEF GateInv, GateTypeOK

LEMMA EmptyIsRecord == EmptyRecord \in Record /\ Known(EmptyRecord) = {Nothing}
  /\ EmptyRecord.failure = Nothing /\ EmptyRecord.count = 0
BY GateAssumption DEF EmptyRecord, Record, Known

\* What a session starts from, and goes back to, when it does not stop.
LEMMA NoStopHolds ==
  /\ NoStop \in Stop
  /\ NoStop.step = "idle" /\ NoStop.change = Nothing /\ NoStop.result = "none" /\ NoStop.verdict = Nothing
  /\ NoStop.seen = Nothing
  /\ \A b \in Agents : NoStop.copy[b] = EmptyRecord
  /\ NoStop.copy \in [Agents -> Record]
<1>1. [a \in Agents |-> EmptyRecord] \in [Agents -> Record]
  BY EmptyIsRecord
<1>2. QED
  BY <1>1 DEF NoStop, Stop

LEMMA GateStarts == GateInit => GateInv
<1> SUFFICES ASSUME GateInit PROVE GateInv
  OBVIOUS
<1>1. GateTypeOK
  BY GateAssumption, NoStopHolds, EmptyIsRecord DEF GateInit, GateTypeOK
<1>2. /\ judged \in [Agents -> SUBSET (Texts \union {Clean})]
      /\ blocksRun \in [Agents -> [failure : Failures \union {Nothing}, count : Nat]]
  BY DEF GateInit
<1>3. RecordsAreJudged(state)
  BY EmptyIsRecord DEF GateInit, RecordsAreJudged, Judged
<1>4. ASSUME NEW a \in Agents PROVE StopOK(a, gate[a])
  <2>1. gate[a] = NoStop
    BY DEF GateInit
  <2>2. RecordsAreJudged(NoStop.copy)
    BY EmptyIsRecord, NoStopHolds DEF RecordsAreJudged, Judged
  <2>3. QED
    BY <2>1, <2>2, NoStopHolds DEF StopOK, Judged
<1>5. BlocksCounted
  BY EmptyIsRecord DEF GateInit, BlocksCounted
<1>6. QED
  BY <1>1, <1>2, <1>3, <1>4, <1>5 DEF GateInv

\* A step of a stop that leaves the file alone and forgets no verdict.
LEMMA StopMoves ==
  ASSUME GateInv, NEW a \in Agents, NEW s \in Stop, Goes(a, s), StopOK(a, s)',
         UNCHANGED <<state, blocksRun, overwritten>>,
         tree' \in Texts \union {Clean}, edits' \in 0..MaxEdits, stops' \in 0..MaxStops,
         judged' \in [Agents -> SUBSET (Texts \union {Clean})],
         \A b \in Agents : Judged(b) \subseteq Judged(b)'
  PROVE  GateInv'
<1>1. gate' = [gate EXCEPT ![a] = s] /\ gate \in [Agents -> Stop]
  BY DEF Goes, GateInv, GateTypeOK
<1>2. GateTypeOK'
  BY <1>1 DEF GateInv, GateTypeOK
<1>3. RecordsAreJudged(state)'
  BY DEF GateInv, RecordsAreJudged
<1>4. ASSUME NEW b \in Agents PROVE StopOK(b, gate[b])'
  <2>1. CASE b = a
    <3>1. gate'[a] = s
      BY <1>1
    <3>2. QED
      BY <2>1, <3>1 DEF StopOK, RecordsAreJudged
  <2>2. CASE b # a
    <3>1. gate'[b] = gate[b] /\ StopOK(b, gate[b])
      BY <1>1, <2>2 DEF GateInv
    <3>2. RecordsAreJudged(gate[b].copy)'
      BY <3>1 DEF StopOK, RecordsAreJudged
    <3>3. Judged(b) \subseteq Judged(b)'
      OBVIOUS
    <3>4. QED
      BY <3>1, <3>2, <3>3 DEF StopOK
  <2>3. QED
    BY <2>1, <2>2
<1>5. BlocksCounted'
  BY DEF GateInv, BlocksCounted
<1>6. QED
  BY <1>2, <1>3, <1>4, <1>5 DEF GateInv

\* What a session has is a stop of its shape, with what it has found.
LEMMA StopFields ==
  ASSUME GateInv, NEW a \in Agents
  PROVE  /\ gate[a] \in Stop /\ StopOK(a, gate[a]) /\ state[a] \in Record
         /\ gate[a].copy \in [Agents -> Record]
BY GateTypes DEF Stop

LEMMA GateEdits ==
  ASSUME GateInv, NEW a \in Agents, EditTree(a) PROVE GateInv'
<1>1. tree' \in Texts \union {Clean} /\ edits' \in 0..MaxEdits
  BY GateTypes DEF EditTree
<1>2. /\ UNCHANGED <<state, gate, stops, judged, unseen, blocksRun, overwritten>>
  BY DEF EditTree, historyVars
<1>3. GateTypeOK'
  BY <1>1, <1>2 DEF GateInv, GateTypeOK
<1>4. RecordsAreJudged(state)' /\ BlocksCounted'
  BY <1>2 DEF GateInv, RecordsAreJudged, Judged, BlocksCounted
<1>5. ASSUME NEW b \in Agents PROVE StopOK(b, gate[b])'
  <2>1. StopOK(b, gate[b])
    BY DEF GateInv
  <2>2. QED
    BY <1>2, <2>1 DEF StopOK, RecordsAreJudged, Judged
<1>6. QED
  BY <1>2, <1>3, <1>4, <1>5 DEF GateInv

LEMMA GateStarted ==
  ASSUME GateInv, NEW a \in Agents, AskToStop(a) PROVE GateInv'
<1> DEFINE skip == [NoStop EXCEPT !.step = "load", !.result = "skip"]
           format == [NoStop EXCEPT !.step = "format"]
           s == IF tree = Clean THEN skip ELSE format
<1>1. /\ skip \in Stop /\ format \in Stop
      /\ skip.step = "load" /\ skip.result = "skip" /\ format.step = "format" /\ format.result = "none"
      /\ skip.change = Nothing /\ format.change = Nothing
      /\ skip.copy = NoStop.copy /\ format.copy = NoStop.copy
  BY NoStopHolds DEF Stop
<1>2. UNCHANGED <<tree, state, edits, judged, unseen, blocksRun, overwritten>>
  BY DEF AskToStop, historyVars
<1>3. RecordsAreJudged(NoStop.copy)'
  BY NoStopHolds, EmptyIsRecord DEF RecordsAreJudged, Judged
<1> HIDE DEF skip, format
<1>4. StopOK(a, skip)' /\ StopOK(a, format)'
  <2>1. RecordsAreJudged(skip.copy)' /\ RecordsAreJudged(format.copy)'
    BY <1>1, <1>3
  <2>2. Nothing \in Judged(a)'
    BY DEF Judged
  <2>3. StopOK(a, skip)'
    BY <1>1, <2>1, <2>2 DEF StopOK
  <2>4. StopOK(a, format)'
    BY <1>1, <2>1, <2>2 DEF StopOK
  <2>5. QED
    BY <2>3, <2>4
<1>5. Goes(a, s) /\ s \in Stop /\ StopOK(a, s)' /\ stops' \in 0..MaxStops
  <2>1. Goes(a, s)
    BY DEF AskToStop, skip, format
  <2>2. StopOK(a, s)'
    BY <1>2, <1>4
  <2>3. QED
    BY <1>1, <2>1, <2>2, GateTypes DEF AskToStop
<1>6. \A b \in Agents : Judged(b) \subseteq Judged(b)'
  BY <1>2 DEF Judged
<1>7. QED
  BY <1>2, <1>5, <1>6, StopMoves, GateTypes

\* The steps of a stop that read the tree and tell nothing yet.
LEMMA StopKeeps ==
  ASSUME GateInv, NEW a \in Agents, NEW s \in Stop, Goes(a, s),
         s.copy = gate[a].copy, s.change \in {gate[a].change, Nothing},
         s.result = "cached" => s.seen \in Judged(a) \ {Nothing},
         s.result = "block" => s.verdict \in Failures,
         s.step \in {"idle", "format", "compare", "check", "fingerprint"} => s.result = "none",
         s.step = "fingerprint" => s.seen # Nothing /\ s.verdict \in Failures \union {Passing},
         tree' \in Texts \union {Clean}, UNCHANGED <<state, edits, stops, historyVars>>
  PROVE  GateInv'
<1>1. UNCHANGED <<state, judged, unseen, blocksRun, overwritten, edits, stops>>
  BY DEF historyVars
<1>2. \A b \in Agents : Judged(b) = Judged(b)'
  BY <1>1 DEF Judged
<1>3. StopOK(a, gate[a])
  BY StopFields
<1>4. s.change \in Judged(a)
  BY <1>3 DEF StopOK, Judged
<1>5. StopOK(a, s)'
  <2>1. RecordsAreJudged(s.copy)
    BY <1>3 DEF StopOK
  <2>2. RecordsAreJudged(s.copy)'
    BY <1>2, <2>1 DEF RecordsAreJudged
  <2>3. QED
    BY <1>2, <1>4, <2>2 DEF StopOK
<1>6. QED
  BY <1>1, <1>2, <1>5, StopMoves, GateTypes

LEMMA GateFormats ==
  ASSUME GateInv, NEW a \in Agents, FormatTree(a) PROVE GateInv'
<1> DEFINE run == [gate[a] EXCEPT !.step = "compare"]
           broke == [gate[a] EXCEPT !.step = "compare", !.verdict = Broken]
<1>1. /\ gate[a] \in Stop /\ gate[a].step = "format" /\ gate[a].result = "none"
  BY StopFields DEF FormatTree, StopOK
<1>2. /\ run \in Stop /\ run.step = "compare" /\ run.result = "none"
      /\ run.copy = gate[a].copy /\ run.change = gate[a].change
  BY <1>1 DEF Stop
<1>3. /\ broke \in Stop /\ broke.step = "compare" /\ broke.result = "none"
      /\ broke.copy = gate[a].copy /\ broke.change = gate[a].change
  <2>1. Broken \in Failures
    BY DEF Failures
  <2>2. QED
    BY <1>1, <2>1 DEF Stop
<1>4. tree' \in Texts \union {Clean}
  BY GateTypes DEF FormatTree
<1>5. Goes(a, run) \/ Goes(a, broke)
  BY DEF FormatTree
<1>6. UNCHANGED <<state, edits, stops, historyVars>>
  BY DEF FormatTree
<1> HIDE DEF run, broke
<1>7. CASE Goes(a, run)
  BY <1>2, <1>4, <1>6, <1>7, StopKeeps
<1>8. CASE Goes(a, broke)
  BY <1>3, <1>4, <1>6, <1>8, StopKeeps
<1>9. QED
  BY <1>5, <1>7, <1>8

LEMMA GateCompares ==
  ASSUME GateInv, NEW a \in Agents, Compare(a) PROVE GateInv'
<1> DEFINE cached == [gate[a] EXCEPT !.step = "load", !.seen = tree, !.verdict = Nothing, !.result = "cached"]
           new == [gate[a] EXCEPT !.step = "check"]
<1>1. /\ gate[a] \in Stop /\ gate[a].step = "compare" /\ gate[a].result = "none"
  BY StopFields DEF Compare, StopOK
<1>2. tree \in Texts \union {Clean} /\ tree # Nothing
  BY GateTypes
<1>3. /\ cached \in Stop /\ cached.step = "load" /\ cached.result = "cached" /\ cached.seen = tree
      /\ cached.copy = gate[a].copy /\ cached.change = gate[a].change
  BY <1>1, <1>2 DEF Stop
<1>4. /\ new \in Stop /\ new.step = "check" /\ new.result = "none"
      /\ new.copy = gate[a].copy /\ new.change = gate[a].change
  BY <1>1 DEF Stop
<1>5. tree' = tree /\ UNCHANGED <<state, edits, stops, historyVars>>
  BY DEF Compare
<1>6. CASE tree \in Known(state[a])
  <2>1. tree \in Judged(a)
    BY <1>6 DEF GateInv, RecordsAreJudged
  <2>2. Goes(a, cached)
    BY <1>6 DEF Compare, Fingerprint
  <2> HIDE DEF cached
  <2>3. QED
    BY <1>2, <1>3, <1>5, <2>1, <2>2, StopKeeps
<1>7. CASE tree \notin Known(state[a])
  <2>1. Goes(a, new)
    BY <1>7 DEF Compare, Fingerprint
  <2> HIDE DEF new
  <2>2. QED
    BY <1>2, <1>4, <1>5, <2>1, StopKeeps
<1>8. QED
  BY <1>6, <1>7

LEMMA GateChecks ==
  ASSUME GateInv, NEW a \in Agents, Check(a) PROVE GateInv'
<1>1. /\ gate[a] \in Stop /\ gate[a].step = "check" /\ gate[a].result = "none"
  BY StopFields DEF Check, StopOK
<1>2. tree \in Texts \union {Clean} /\ tree # Nothing
  BY GateTypes
<1>3. (IF tree = Clean THEN Passing ELSE Verdict[tree]) \in Failures \union {Passing}
  BY <1>2 DEF Failures
<1>4. Broken \in Failures
  BY DEF Failures
<1>5. PICK verdict \in Failures \union {Passing} :
        Goes(a, [gate[a] EXCEPT !.step = "fingerprint", !.seen = tree, !.verdict = verdict])
  BY <1>3, <1>4 DEF Check
<1> DEFINE s == [gate[a] EXCEPT !.step = "fingerprint", !.seen = tree, !.verdict = verdict]
<1>6. /\ s \in Stop /\ s.step = "fingerprint" /\ s.result = "none" /\ s.seen = tree /\ s.verdict = verdict
      /\ s.copy = gate[a].copy /\ s.change = gate[a].change
  BY <1>1, <1>2 DEF Stop
<1>7. tree' = tree /\ UNCHANGED <<state, edits, stops, historyVars>>
  BY DEF Check
<1>8. Goes(a, s)
  BY <1>5
<1> HIDE DEF s
<1>9. QED
  BY <1>2, <1>6, <1>7, <1>8, StopKeeps

LEMMA GateGivesUp ==
  ASSUME GateInv, NEW a \in Agents, GateBreaks(a) PROVE GateInv'
<1> DEFINE s == [gate[a] EXCEPT !.step = "load", !.verdict = Broken, !.change = Nothing, !.result = "block"]
<1>1. gate[a] \in Stop /\ Broken \in Failures
  BY StopFields DEF Failures
<1>2. /\ s \in Stop /\ s.step = "load" /\ s.result = "block" /\ s.verdict = Broken
      /\ s.copy = gate[a].copy /\ s.change = Nothing
  BY <1>1 DEF Stop
<1>3. tree' = tree /\ UNCHANGED <<state, edits, stops, historyVars>> /\ Goes(a, s)
  BY DEF GateBreaks
<1> HIDE DEF s
<1>4. QED
  BY <1>1, <1>2, <1>3, StopKeeps, GateTypes

LEMMA GateTellsVerdict ==
  ASSUME GateInv, NEW a \in Agents, TakeFingerprint(a) PROVE GateInv'
<1> DEFINE result == IF gate[a].verdict = Passing THEN "allow" ELSE "block"
           told == [gate[a] EXCEPT !.step = "load", !.change = tree, !.result = result]
<1>1. /\ gate[a] \in Stop /\ StopOK(a, gate[a]) /\ gate[a].step = "fingerprint"
      /\ gate[a].seen \in Texts \union {Clean} /\ gate[a].verdict \in Failures \union {Passing}
  BY StopFields DEF TakeFingerprint, StopOK, Stop
<1>2. tree \in Texts \union {Clean}
  BY GateTypes
<1>3. result \in {"allow", "block"} /\ (result = "block" => gate[a].verdict \in Failures)
  BY <1>1
<1>4. Goes(a, told)
  BY DEF TakeFingerprint, Fingerprint
<1> HIDE DEF result
<1>5. /\ told \in Stop /\ told.step = "load" /\ told.result = result /\ told.change = tree
      /\ told.copy = gate[a].copy /\ told.verdict = gate[a].verdict
  BY <1>1, <1>2, <1>3 DEF Stop
<1> HIDE DEF told
<1>5a. PICK s \in Stop :
         /\ Goes(a, s) /\ s.step = "load" /\ s.result \in {"allow", "block"} /\ s.change = tree
         /\ s.copy = gate[a].copy /\ (s.result = "block" => s.verdict \in Failures)
  BY <1>3, <1>4, <1>5
<1>6. /\ judged' = [judged EXCEPT ![a] = @ \union {gate[a].seen}]
      /\ unseen' = IF tree = gate[a].seen THEN unseen ELSE unseen \union {tree}
      /\ UNCHANGED <<tree, state, edits, stops, blocksRun, overwritten>>
  BY DEF TakeFingerprint
<1>7. \A b \in Agents : judged'[b] = (IF b = a THEN judged[b] \union {gate[a].seen} ELSE judged[b])
  BY <1>6, GateTypes
<1>8. judged' \in [Agents -> SUBSET (Texts \union {Clean})]
  BY <1>1, <1>6, GateTypes
<1>9. \A b \in Agents : Judged(b) \subseteq Judged(b)'
  BY <1>6, <1>7 DEF Judged
<1>10. tree \in Judged(a)'
  BY <1>6, <1>7 DEF Judged
<1>11. StopOK(a, s)'
  <2>1. RecordsAreJudged(s.copy)'
    BY <1>1, <1>5a, <1>9 DEF StopOK, RecordsAreJudged
  <2>2. QED
    BY <1>5a, <1>6, <1>10, <2>1 DEF StopOK
<1>12. QED
  BY <1>2, <1>5a, <1>6, <1>8, <1>9, <1>11, StopMoves, GateTypes

LEMMA GateLoads ==
  ASSUME GateInv, NEW a \in Agents, LoadState(a) PROVE GateInv'
<1> DEFINE none == [b \in Agents |-> EmptyRecord]
<1>1. PICK copy \in {state, none} : Goes(a, [gate[a] EXCEPT !.step = "save", !.copy = copy])
  BY DEF LoadState
<1>2. copy \in [Agents -> Record] /\ RecordsAreJudged(copy)
  <2>1. none \in [Agents -> Record] /\ RecordsAreJudged(none)
    BY EmptyIsRecord DEF RecordsAreJudged, Judged
  <2>2. state \in [Agents -> Record] /\ RecordsAreJudged(state)
    BY DEF GateInv, GateTypeOK
  <2> HIDE DEF none
  <2>3. QED
    BY <2>1, <2>2
<1> DEFINE loaded == [gate[a] EXCEPT !.step = "save", !.copy = copy]
<1>3. gate[a] \in Stop /\ StopOK(a, gate[a])
  BY StopFields
<1>4. /\ loaded \in Stop /\ loaded.step = "save" /\ loaded.copy = copy /\ loaded.result = gate[a].result
      /\ loaded.change = gate[a].change /\ loaded.verdict = gate[a].verdict /\ loaded.seen = gate[a].seen
  BY <1>2, <1>3 DEF Stop
<1>5. PICK s \in Stop :
        /\ Goes(a, s) /\ s.step = "save" /\ s.copy = copy /\ s.result = gate[a].result
        /\ s.change = gate[a].change /\ s.verdict = gate[a].verdict /\ s.seen = gate[a].seen
  BY <1>1, <1>4
<1>6. UNCHANGED <<tree, state, edits, stops, judged, unseen, blocksRun, overwritten>>
  BY DEF LoadState, historyVars
<1>7. \A b \in Agents : Judged(b) = Judged(b)'
  BY <1>6 DEF Judged
<1>8. StopOK(a, s)'
  <2>1. RecordsAreJudged(s.copy)'
    BY <1>2, <1>5, <1>7 DEF RecordsAreJudged
  <2>2. QED
    BY <1>3, <1>5, <1>7, <2>1 DEF StopOK
<1>9. QED
  BY <1>5, <1>6, <1>7, <1>8, StopMoves, GateTypes

LEMMA GateSaves ==
  ASSUME GateInv, NEW a \in Agents, SaveState(a) PROVE GateInv'
<1> DEFINE stop == gate[a]
           j == Judgement(stop, stop.copy[a])
           told == [failure |-> stop.verdict,
                    count |-> IF blocksRun[a].failure = stop.verdict THEN blocksRun[a].count + 1 ELSE 1]
           run == IF ~j.blocked THEN [failure |-> Nothing, count |-> 0] ELSE told
<1>1. /\ stop \in Stop /\ StopOK(a, stop) /\ stop.copy \in [Agents -> Record] /\ stop.copy[a] \in Record
      /\ Known(stop.copy[a]) \subseteq Judged(a) /\ Nothing \in Judged(a)
  BY StopFields DEF StopOK, RecordsAreJudged, Judged
<1>2. /\ j.record \in Record /\ Known(j.record) \subseteq Judged(a)
      /\ ~j.blocked => j.record.failure = Nothing /\ j.record.count = 0
      /\ j.blocked => /\ j.record.failure = stop.verdict /\ stop.verdict \in Failures
                      /\ j.record.count = IF stop.copy[a].failure = stop.verdict
                                            THEN stop.copy[a].count + 1 ELSE 1
  BY <1>1, JudgementHolds DEF StopOK
<1>3. /\ state' = [stop.copy EXCEPT ![a] = j.record]
      /\ overwritten' = overwritten \union {b \in Agents \ {a} : stop.copy[b] # state[b]}
                                    \union {b \in {a} : stop.copy[a] # state[a]}
      /\ blocksRun' = [blocksRun EXCEPT ![a] = run]
      /\ Goes(a, NoStop)
      /\ UNCHANGED <<tree, edits, stops, judged, unseen>>
  BY DEF SaveState
<1> HIDE DEF j
<1>4. state' \in [Agents -> Record] /\ gate' \in [Agents -> Stop] /\ gate' = [gate EXCEPT ![a] = NoStop]
  BY <1>1, <1>2, <1>3, NoStopHolds, GateTypes DEF Goes
<1>5. GateTypeOK'
  BY <1>3, <1>4 DEF GateInv, GateTypeOK
<1>6. \A b \in Agents : Judged(b) = Judged(b)'
  BY <1>3 DEF Judged
<1>7. \A b \in Agents : state'[b] = (IF b = a THEN j.record ELSE stop.copy[b])
  BY <1>1, <1>3
<1>8. RecordsAreJudged(state)'
  <2>1. RecordsAreJudged(stop.copy)
    BY <1>1 DEF StopOK
  <2>2. QED
    BY <1>2, <1>6, <1>7, <2>1 DEF RecordsAreJudged
<1>9. ASSUME NEW b \in Agents PROVE StopOK(b, gate[b])'
  <2>1. CASE b = a
    <3>1. gate'[b] = NoStop
      BY <1>4, <2>1, GateTypes
    <3>2. RecordsAreJudged(NoStop.copy)'
      BY EmptyIsRecord, NoStopHolds DEF RecordsAreJudged, Judged
    <3>3. QED
      BY <3>1, <3>2, NoStopHolds DEF StopOK, Judged
  <2>2. CASE b # a
    <3>1. gate'[b] = gate[b] /\ StopOK(b, gate[b])
      BY <1>4, <2>2, GateTypes
    <3>2. RecordsAreJudged(gate[b].copy)'
      BY <1>6, <3>1 DEF StopOK, RecordsAreJudged
    <3>3. QED
      BY <1>6, <3>1, <3>2 DEF StopOK
  <2>3. QED
    BY <2>1, <2>2
<1>10. blocksRun[a] \in [failure : Failures \union {Nothing}, count : Nat]
       /\ blocksRun \in [Agents -> [failure : Failures \union {Nothing}, count : Nat]]
  BY DEF GateInv
<1>11. /\ run \in [failure : Failures \union {Nothing}, count : Nat]
       /\ stop.copy[a] = state[a] /\ a \notin overwritten => run.failure = j.record.failure /\ run.count = j.record.count
  <2>1. CASE ~j.blocked
    BY <1>2, <2>1
  <2>2. CASE j.blocked
    <3>1. told \in [failure : Failures \union {Nothing}, count : Nat]
      BY <1>2, <1>10, <2>2
    <3>2. a \notin overwritten => state[a].failure = blocksRun[a].failure /\ state[a].count = blocksRun[a].count
      BY DEF GateInv, BlocksCounted
    <3>3. QED
      BY <1>2, <2>2, <3>1, <3>2
  <2>3. QED
    BY <2>1, <2>2
<1> HIDE DEF run
<1>12. blocksRun' \in [Agents -> [failure : Failures \union {Nothing}, count : Nat]]
  BY <1>3, <1>10, <1>11
<1>13. BlocksCounted'
  <2> SUFFICES ASSUME NEW b \in Agents, b \notin overwritten'
               PROVE  state'[b].failure = blocksRun'[b].failure /\ state'[b].count = blocksRun'[b].count
    BY DEF BlocksCounted
  <2>1. CASE b = a
    <3>1. stop.copy[a] = state[a] /\ a \notin overwritten
      BY <1>3, <2>1
    <3>2. state'[b] = j.record /\ blocksRun'[b] = run
      BY <1>3, <1>7, <1>10, <2>1
    <3>3. QED
      BY <1>11, <3>1, <3>2
  <2>2. CASE b # a
    <3>1. stop.copy[b] = state[b] /\ b \notin overwritten
      BY <1>3, <2>2
    <3>2. state'[b] = state[b] /\ blocksRun'[b] = blocksRun[b]
      BY <1>3, <1>7, <1>10, <2>2, <3>1
    <3>3. QED
      BY <3>1, <3>2 DEF GateInv, BlocksCounted
  <2>3. QED
    BY <2>1, <2>2
<1>14. QED
  BY <1>3, <1>5, <1>8, <1>9, <1>12, <1>13 DEF GateInv

LEMMA GateSteps ==
  ASSUME GateInv, [GateNext]_gateVars PROVE GateInv'
<1>1. CASE UNCHANGED gateVars
  <2>1. UNCHANGED <<tree, state, gate, edits, stops, judged, unseen, blocksRun, overwritten>>
    BY <1>1 DEF gateVars
  <2>2. \A a \in Agents : Judged(a) = Judged(a)'
    BY <2>1 DEF Judged
  <2>3. \A a \in Agents : StopOK(a, gate[a])'
    <3>1. SUFFICES ASSUME NEW a \in Agents PROVE StopOK(a, gate[a])'
      OBVIOUS
    <3>2. StopOK(a, gate[a])
      BY DEF GateInv
    <3>3. QED
      BY <2>1, <2>2, <3>2 DEF StopOK, RecordsAreJudged
  <2>4. QED
    BY <2>1, <2>2, <2>3 DEF GateInv, GateTypeOK, RecordsAreJudged, BlocksCounted
<1>2. ASSUME NEW a \in Agents, GateStep(a) PROVE GateInv'
  BY <1>2, GateEdits, GateStarted, GateFormats, GateCompares, GateChecks, GateTellsVerdict,
     GateGivesUp, GateLoads, GateSaves DEF GateStep
<1>3. QED
  BY <1>1, <1>2 DEF GateNext

\* Nothing passes that was not judged, and a failure that blocks MaxBlocks times in a row
\* blocks no more.
LEMMA GateKept == GateInv => GateHolds
<1> SUFFICES ASSUME GateInv PROVE GateHolds
  OBVIOUS
<1>1. ASSUME NEW a \in Agents, gate[a].result = "cached" PROVE gate[a].seen \in judged[a] \union unseen
  BY <1>1, StopFields DEF StopOK, Judged
<1>2. ASSUME NEW a \in Agents \ overwritten PROVE blocksRun[a].count <= MaxBlocks
  <2>1. state[a].count \in 0..MaxBlocks /\ state[a].count = blocksRun[a].count /\ MaxBlocks \in Nat
    BY StopFields, GateAssumption DEF GateInv, BlocksCounted, Record
  <2>2. QED
    BY <2>1
<1>3. QED
  BY <1>1, <1>2 DEF GateHolds, CachedWasJudged, BlocksEnd

-----------------------------------------------------------------------------
(* The batch process: proofs *)

\* How many numbers of a set are before one.
Rank(T, s) == Cardinality({x \in T : x < s})

LEMMA RanksGrow ==
  ASSUME NEW T, T \subseteq Nat, IsFiniteSet(T)
  PROVE  \A s, t \in T : /\ Rank(T, s) \in Nat /\ Rank(T, s) < Cardinality(T)
                         /\ s < t => Rank(T, s) < Rank(T, t)
<1>1. \A s \in T : IsFiniteSet({x \in T : x < s}) /\ Rank(T, s) \in Nat
  BY FS_Subset, FS_CardinalityType DEF Rank
<1>2. ASSUME NEW s \in T, NEW U, {x \in T : x < s} \subseteq U, s \in U, IsFiniteSet(U)
      PROVE  Rank(T, s) + 1 <= Cardinality(U)
  <2>1. s \notin {x \in T : x < s}
    OBVIOUS
  <2>2. /\ IsFiniteSet({x \in T : x < s} \union {s})
        /\ Cardinality({x \in T : x < s} \union {s}) = Rank(T, s) + 1
    BY <1>1, <2>1, FS_AddElement DEF Rank
  <2>3. {x \in T : x < s} \union {s} \in SUBSET U
    BY <1>2
  <2>4. QED
    BY <1>2, <2>2, <2>3, FS_Subset
<1>3. ASSUME NEW s \in T PROVE Rank(T, s) < Cardinality(T)
  <2>1. Rank(T, s) + 1 <= Cardinality(T)
    BY <1>2
  <2>2. Cardinality(T) \in Nat
    BY FS_CardinalityType
  <2>3. Rank(T, s) \in Nat
    BY <1>1
  <2>4. QED
    BY <2>1, <2>2, <2>3
<1>4. ASSUME NEW s \in T, NEW t \in T, s < t PROVE Rank(T, s) < Rank(T, t)
  <2>1. \A x \in T : x \in Nat
    OBVIOUS
  <2>1a. \A x \in T : x < s => x < t
    BY <1>4, <2>1
  <2>1b. {x \in T : x < s} \subseteq {x \in T : x < t} /\ s \in {x \in T : x < t}
    BY <1>4, <2>1a
  <2>2. Rank(T, s) + 1 <= Cardinality({x \in T : x < t})
    BY <1>1, <1>2, <2>1b
  <2>3. QED
    BY <1>1, <2>2 DEF Rank
<1>5. QED
  BY <1>1, <1>3, <1>4

LEMMA EveryRank ==
  ASSUME NEW T, T \subseteq Nat, IsFiniteSet(T), NEW i \in 1..Cardinality(T)
  PROVE  \E s \in T : Rank(T, s) = i - 1
<1> DEFINE N == Cardinality(T)
           ranks == {n \in Nat : \E s \in T : Rank(T, s) = n - 1}
<1>1. N \in Nat /\ N >= 1 /\ T # {}
  BY FS_CardinalityType, FS_EmptySet
<1>2. 1 \in ranks
  <2>1. PICK s \in T : \A t \in T : s <= t
    BY <1>1, LeastNumber
  <2>2. {x \in T : x < s} = {}
    <3>1. \A x \in T : x \in Nat /\ s <= x
      BY <2>1
    <3>2. \A x \in T : ~(x < s)
      BY <3>1
    <3>3. QED
      BY <3>2
  <2>3. Rank(T, s) = 0
    BY <2>2, FS_EmptySet DEF Rank
  <2>4. QED
    BY <2>3
<1>3. ASSUME NEW n \in 1..N, n \in ranks, n < N PROVE n + 1 \in ranks
  <2>1. PICK s \in T : Rank(T, s) = n - 1
    BY <1>3
  <2> DEFINE below == {x \in T : x < s}
             above == {x \in T : x > s}
  <2>2. above # {}
    <3>1. SUFFICES ASSUME above = {} PROVE FALSE
      OBVIOUS
    <3>2. T = below \union {s} /\ s \notin below
      <4>1. \A x \in T : x \in Nat /\ ~(x > s)
        BY <3>1
      <4>2. \A x \in T : x < s \/ x = s
        BY <4>1
      <4>3. ~(s < s)
        BY <4>1
      <4>4. QED
        BY <4>2, <4>3
    <3>3. IsFiniteSet(below)
      BY FS_Subset
    <3>4. Cardinality(T) = Cardinality(below) + 1
      <4> HIDE DEF below
      <4>1. QED
        BY <3>2, <3>3, FS_AddElement
    <3>5. QED
      BY <1>1, <1>3, <2>1, <3>4 DEF Rank
  <2>3. above \subseteq Nat
    OBVIOUS
  <2>4. PICK t \in above : \A x \in above : t <= x
    BY <2>2, <2>3, LeastNumber
  <2>5. {x \in T : x < t} = below \union {s} /\ s \notin below /\ IsFiniteSet(below)
    <3>1. \A x \in T : x < t <=> x < s \/ x = s
      <4>1. \A x \in T : x \in Nat /\ (x > s => x \in above)
        OBVIOUS
      <4>2. t \in Nat /\ s \in Nat /\ t > s
        OBVIOUS
      <4> HIDE DEF above
      <4>3. QED
        BY <2>4, <4>1, <4>2
    <3>2. ~(s < s)
      OBVIOUS
    <3>3. {x \in T : x < t} = below \union {s} /\ s \notin below
      BY <3>1, <3>2
    <3>4. QED
      BY <3>3, FS_Subset
  <2>6. Rank(T, t) = n
    <3>1. Cardinality(below) = n - 1
      BY <2>1 DEF Rank
    <3> HIDE DEF below
    <3>2. QED
      BY <2>5, <3>1, FS_AddElement DEF Rank
  <2>7. QED
    BY <2>6
<1> HIDE DEF ranks
<1>4. \A n \in 1..N : n \in ranks
  BY <1>1, <1>2, <1>3, Upwards
<1>5. QED
  BY <1>4 DEF ranks

\* A page has the first ids, in their order, and leaves only later ones.
LEMMA InOrderHolds ==
  ASSUME NEW T, T \subseteq Nat, IsFiniteSet(T), NEW limit \in Nat
  PROVE  LET o == InOrder(T, limit)
         IN /\ o \in Seq(T) /\ Len(o) <= limit
            /\ \A i, j \in DOMAIN o : i < j => o[i] < o[j]
            /\ \A s \in T : (\E i \in DOMAIN o : o[i] = s) \/ \A i \in DOMAIN o : o[i] < s
<1> DEFINE n == IF Cardinality(T) < limit THEN Cardinality(T) ELSE limit
           o == InOrder(T, limit)
<1>1. Cardinality(T) \in Nat /\ n \in Nat /\ n <= limit /\ n <= Cardinality(T)
  BY FS_CardinalityType
<1>2. o = [i \in 1..n |-> CHOOSE s \in T : Rank(T, s) = i - 1]
  BY DEF InOrder, Rank
<1>3. n = Cardinality(T) \/ n = limit
  OBVIOUS
<1> HIDE DEF n, o
<1>4. \A i \in 1..n : o[i] \in T /\ Rank(T, o[i]) = i - 1
  <2>1. SUFFICES ASSUME NEW i \in 1..n PROVE o[i] \in T /\ Rank(T, o[i]) = i - 1
    OBVIOUS
  <2>2. \E s \in T : Rank(T, s) = i - 1
    <3>1. i \in 1..Cardinality(T)
      BY <1>1
    <3>2. QED
      BY <3>1, EveryRank
  <2>3. o[i] = CHOOSE s \in T : Rank(T, s) = i - 1
    BY <1>2
  <2>4. QED
    BY <2>2, <2>3
<1>5. o \in Seq(T) /\ Len(o) = n /\ DOMAIN o = 1..n
  BY <1>1, <1>2, <1>4
<1>6. ASSUME NEW i \in 1..n, NEW s \in T, i - 1 < Rank(T, s) PROVE o[i] < s
  <2>1. o[i] \in Nat /\ s \in Nat /\ (s < o[i] => Rank(T, s) < Rank(T, o[i])) /\ Rank(T, s) \in Nat
    BY <1>4, RanksGrow
  <2>2. Rank(T, o[i]) = i - 1
    BY <1>4
  <2>3. QED
    BY <1>6, <2>1, <2>2
<1>7. \A i, j \in DOMAIN o : i < j => o[i] < o[j]
  <2>1. \A j \in 1..n : o[j] \in T /\ Rank(T, o[j]) = j - 1
    BY <1>4
  <2>2. \A i, j \in 1..n : i < j => i - 1 < j - 1
    BY <1>1
  <2>3. QED
    BY <1>5, <1>6, <2>1, <2>2
<1>8. ASSUME NEW s \in T PROVE (\E i \in DOMAIN o : o[i] = s) \/ \A i \in DOMAIN o : o[i] < s
  <2>1. Rank(T, s) \in Nat
    BY RanksGrow
  <2>2. CASE Rank(T, s) < n
    <3> DEFINE i == Rank(T, s) + 1
    <3>1. i \in 1..n /\ i - 1 = Rank(T, s)
      BY <1>1, <2>1, <2>2
    <3>2. o[i] \in T /\ Rank(T, o[i]) = Rank(T, s)
      BY <1>4, <3>1
    <3>3. o[i] = s
      <4>1. o[i] \in Nat /\ s \in Nat
        BY <3>2
      <4>2. ~(o[i] < s) /\ ~(s < o[i])
        <5>1. \A u, v \in T : u < v => Rank(T, u) < Rank(T, v)
          BY RanksGrow
        <5>2. Rank(T, s) \in Nat /\ ~(Rank(T, s) < Rank(T, s))
          BY <2>1
        <5>3. QED
          BY <3>2, <5>1, <5>2
      <4>3. QED
        BY <4>1, <4>2
    <3>4. QED
      BY <1>5, <3>1, <3>3
  <2>3. CASE Rank(T, s) >= n
    BY <1>1, <1>5, <1>6, <2>1, <2>3
  <2>4. QED
    BY <1>1, <2>1, <2>2, <2>3
<1>9. QED
  BY <1>1, <1>5, <1>7, <1>8 DEF o

LEMMA SweepTypes ==
  ASSUME SweepInv
  PROVE  /\ MaxSegment \in Nat /\ PageSize \in Nat /\ MaxProcessed \in Nat /\ MaxScanned \in Nat /\ MaxChanges \in Nat
         /\ MaxProcessed > 0
         /\ cursor \in 0..MaxSegment /\ processed \in 0..MaxProcessed /\ scanned \in 0..MaxScanned
         /\ page \in Seq([id : Ids, needs : BOOLEAN]) /\ Len(page) \in Nat /\ DOMAIN page = 1..Len(page)
         /\ Len(page) <= PageSize
         /\ \A i \in 1..Len(page) : page[i] \in [id : Ids, needs : BOOLEAN] /\ page[i].id \in Nat
         /\ segments \in [Ids -> {"none", "settled", "wanting"}]
         /\ Ids \subseteq Nat /\ wanting \subseteq Ids /\ visited \subseteq Ids
<1>1. /\ MaxSegment \in Nat /\ PageSize \in Nat /\ MaxProcessed \in Nat /\ MaxScanned \in Nat /\ MaxChanges \in Nat
      /\ MaxProcessed > 0
  BY SweepsAssumption
<1>2. SweepTypeOK
  BY DEF SweepInv
<1>3. page \in Seq([id : Ids, needs : BOOLEAN]) /\ Len(page) \in Nat /\ DOMAIN page = 1..Len(page)
  BY <1>2 DEF SweepTypeOK
<1>4. \A i \in 1..Len(page) : page[i] \in [id : Ids, needs : BOOLEAN] /\ page[i].id \in Nat
  <2> DEFINE entries == [id : Ids, needs : BOOLEAN]
  <2>1. \A i \in 1..Len(page) : page[i] \in entries
    <3>1. page \in Seq(entries)
      BY <1>3
    <3> HIDE DEF entries
    <3>2. QED
      BY <3>1
  <2>2. Ids \subseteq Nat
    BY <1>1 DEF Ids
  <2>3. \A e \in [id : Ids, needs : BOOLEAN] : e.id \in Ids
    OBVIOUS
  <2>4. QED
    BY <2>1, <2>2, <2>3
<1>5. QED
  BY <1>1, <1>2, <1>3, <1>4 DEF SweepTypeOK, Ids

LEMMA SweepStarts == SweepInit => SweepInv
<1> SUFFICES ASSUME SweepInit PROVE SweepInv
  OBVIOUS
<1>1. page = <<>> /\ Len(page) = 0 /\ DOMAIN page = {} /\ page \in Seq([id : Ids, needs : BOOLEAN])
  BY DEF SweepInit
<1>2. SweepTypeOK
  <2>1. 0 \in 0..MaxSegment /\ 0 <= PageSize /\ 0 \in 0..MaxProcessed /\ 0 \in 0..MaxScanned /\ 0 \in 0..MaxChanges
    BY SweepsAssumption
  <2>2. segments \in [Ids -> {"none", "settled", "wanting"}]
    BY DEF SweepInit
  <2>3. QED
    BY <1>1, <2>1, <2>2 DEF SweepInit, SweepTypeOK
<1>3. PageOK
  BY <1>1, SweepsAssumption DEF SweepInit, PageOK
<1>4. QED
  BY <1>2, <1>3 DEF SweepInit, SweepInv, SweepVisitsAll, JobEndsFirst

\* What happens to the process and its job, while the sweep stays where it is.
LEMMA SweepRests ==
  ASSUME SweepInv, UNCHANGED <<command, scanVars, segments, changes>>,
         process' \in {"serving", "waiting", "exited"}, signalled' \in BOOLEAN, overdue' \in BOOLEAN,
         job' \in {job, "cancelling", "failed", "cancelled", "none"},
         JobEndsFirst'
  PROVE  SweepInv'
<1>1. UNCHANGED <<command, cursor, page, processed, scanned, wanting, visited, segments, changes>>
  BY DEF scanVars
<1>2. SweepTypeOK'
  BY <1>1 DEF SweepInv, SweepTypeOK
<1>3. PageOK' /\ (StillToCome => StillToCome')
  BY <1>1 DEF SweepInv, PageOK, StillToCome
<1>4. QED
  BY <1>1, <1>2, <1>3 DEF SweepInv, SweepVisitsAll

LEMMA SweepChanged ==
  ASSUME SweepInv, NEW s \in Ids, SegmentChanges(s) PROVE SweepInv'
<1>1. /\ UNCHANGED <<command, process, signalled, job, overdue, cursor, page, processed, scanned, visited>>
      /\ changes' = changes + 1 /\ changes < MaxChanges /\ wanting' = wanting \ {s}
  BY DEF SegmentChanges
<1>2. PICK status \in {"none", "settled", "wanting"} : segments' = [segments EXCEPT ![s] = status]
  BY DEF SegmentChanges
<1>3. SweepTypeOK'
  <2>1. changes' \in 0..MaxChanges
    BY <1>1, SweepsAssumption DEF SweepInv, SweepTypeOK
  <2>2. segments' \in [Ids -> {"none", "settled", "wanting"}]
    BY <1>2, SweepTypes
  <2>3. QED
    BY <1>1, <2>1, <2>2 DEF SweepInv, SweepTypeOK
<1>4. StillToCome => StillToCome'
  <2>1. \A t \in wanting' : t \in wanting /\ segments'[t] = segments[t]
    BY <1>1, <1>2, SweepTypes
  <2>2. QED
    BY <1>1, <2>1 DEF StillToCome
<1>5. QED
  BY <1>1, <1>3, <1>4 DEF SweepInv, PageOK, SweepVisitsAll, JobEndsFirst, JobGoes

LEMMA SweepLaunched ==
  ASSUME SweepInv, Launch PROVE SweepInv'
<1>1. UNCHANGED <<signalled, job, overdue, cursor, page, processed, scanned, wanting, visited, changes>> /\ job = "none"
  BY DEF Launch, scanVars, SweepInv
<1>2. SweepTypeOK'
  <2>1. segments' \in [Ids -> {"none", "settled", "wanting"}] /\ command' \in {"serve", "run"} /\ process' = "serving"
    BY DEF Launch
  <2>2. QED
    BY <1>1, <2>1 DEF SweepInv, SweepTypeOK
<1>3. QED
  BY <1>1, <1>2 DEF SweepInv, PageOK, SweepVisitsAll, JobEndsFirst, JobGoes, Launch

LEMMA SweepBegins ==
  ASSUME SweepInv, Begin PROVE SweepInv'
<1>1. /\ process = "serving" /\ UNCHANGED <<command, process, signalled, overdue, segments, changes>>
      /\ job' = "running" /\ cursor' = 0 /\ page' = <<>> /\ processed' = 0 /\ scanned' = 0
      /\ wanting' = {s \in Ids : segments[s] = "wanting"} /\ visited' = {}
  BY DEF Begin
<1>2. Len(page') = 0 /\ DOMAIN page' = {} /\ page' \in Seq([id : Ids, needs : BOOLEAN])
  BY <1>1
<1>3. SweepTypeOK'
  BY <1>1, <1>2, SweepsAssumption DEF SweepInv, SweepTypeOK
<1>4. PageOK'
  BY <1>1, <1>2, SweepsAssumption DEF PageOK
<1>5. StillToCome'
  <2>1. \A s \in Ids : s > 0
    BY SweepsAssumption DEF Ids
  <2>2. QED
    BY <1>1, <1>2, <2>1 DEF StillToCome
<1>6. QED
  BY <1>1, <1>3, <1>4, <1>5 DEF SweepInv, SweepVisitsAll, JobEndsFirst

LEMMA SweepFindsPage ==
  ASSUME SweepInv, FindPage PROVE SweepInv'
<1> DEFINE o == InOrder(After, Limit)
<1>1. /\ job = "running" /\ page = <<>> /\ ~BatchFull
      /\ page' = [i \in DOMAIN o |-> [id |-> o[i], needs |-> segments[o[i]] = "wanting"]]
      /\ UNCHANGED <<command, process, signalled, job, overdue, cursor, processed, scanned, segments,
                     changes, wanting, visited>>
  BY DEF FindPage
<1>2. /\ After \subseteq Ids /\ IsFiniteSet(After) /\ After \subseteq Nat
      /\ Limit \in Nat /\ Limit <= PageSize /\ Limit <= MaxScanned - scanned
  <2>1. After \subseteq Ids
    BY DEF After
  <2>2. IsFiniteSet(Ids)
    BY SweepTypes, FS_Interval DEF Ids
  <2>3. IsFiniteSet(After)
    BY <2>1, <2>2, FS_Subset
  <2>4. Limit \in Nat /\ Limit <= PageSize /\ Limit <= MaxScanned - scanned
    BY SweepTypes DEF Limit
  <2>5. QED
    BY <2>1, <2>3, <2>4, SweepTypes
<1>3. /\ o \in Seq(After) /\ Len(o) <= Limit
      /\ \A i, j \in DOMAIN o : i < j => o[i] < o[j]
      /\ \A s \in After : (\E i \in DOMAIN o : o[i] = s) \/ \A i \in DOMAIN o : o[i] < s
  BY <1>2, InOrderHolds
<1> HIDE DEF o
<1>4. /\ Len(o) \in Nat /\ DOMAIN o = 1..Len(o) /\ \A i \in DOMAIN o : o[i] \in After
  BY <1>3
<1>5. /\ DOMAIN page' = DOMAIN o /\ Len(page') = Len(o) /\ page' \in Seq([id : Ids, needs : BOOLEAN])
      /\ \A i \in DOMAIN o : page'[i] = [id |-> o[i], needs |-> segments[o[i]] = "wanting"] /\ page'[i].id = o[i]
  <2> DEFINE e(i) == [id |-> o[i], needs |-> segments[o[i]] = "wanting"]
  <2>1. \A i \in DOMAIN o : e(i) \in [id : Ids, needs : BOOLEAN] /\ e(i).id = o[i]
    BY <1>2, <1>4
  <2>2. page' = [i \in DOMAIN o |-> e(i)]
    BY <1>1
  <2>3. DOMAIN page' = DOMAIN o /\ \A i \in DOMAIN o : page'[i] = e(i)
    BY <2>2
  <2> HIDE DEF e
  <2>4. page' \in Seq([id : Ids, needs : BOOLEAN]) /\ Len(page') = Len(o)
    BY <1>4, <2>1, <2>2
  <2>5. QED
    BY <2>1, <2>3, <2>4 DEF e
<1>6. SweepTypeOK'
  BY <1>1, <1>2, <1>3, <1>4, <1>5, SweepTypes DEF SweepInv, SweepTypeOK
<1>7. PageOK'
  <2>1. \A i \in DOMAIN page' : page'[i].id > cursor'
    BY <1>1, <1>4, <1>5 DEF After
  <2>2. \A i, j \in DOMAIN page' : i < j => page'[i].id < page'[j].id
    BY <1>3, <1>5
  <2>3. processed' < MaxProcessed
    BY <1>1, SweepTypes DEF BatchFull
  <2>4. scanned' + Len(page') <= MaxScanned
    BY <1>1, <1>2, <1>3, <1>4, <1>5, SweepTypes
  <2>5. QED
    BY <2>1, <2>2, <2>3, <2>4 DEF PageOK
<1>8. StillToCome'
  <2>1. SUFFICES ASSUME NEW s \in wanting \ visited
                 PROVE  /\ segments[s] = "wanting" /\ s > cursor
                        /\ \/ \E i \in DOMAIN page' : page'[i] = [id |-> s, needs |-> TRUE]
                           \/ \A i \in DOMAIN page' : page'[i].id < s
    BY <1>1 DEF StillToCome
  <2>2. segments[s] = "wanting" /\ s > cursor
    BY <1>1 DEF SweepInv, StillToCome
  <2>3. s \in After
    BY <2>2, SweepTypes DEF After
  <2>4. CASE \E i \in DOMAIN o : o[i] = s
    <3>1. PICK i \in DOMAIN o : o[i] = s
      BY <2>4
    <3>2. page'[i] = [id |-> s, needs |-> segments[s] = "wanting"]
      BY <1>5, <3>1
    <3>3. page'[i] = [id |-> s, needs |-> TRUE]
      BY <2>2, <3>2
    <3>4. QED
      BY <1>5, <2>2, <3>1, <3>3
  <2>5. CASE \A i \in DOMAIN o : o[i] < s
    BY <1>5, <2>2, <2>5
  <2>6. QED
    BY <1>3, <2>2, <2>3, <2>4, <2>5
<1>9. QED
  BY <1>1, <1>6, <1>7, <1>8 DEF SweepInv, SweepVisitsAll, JobEndsFirst, JobGoes

LEMMA SweepCompletes ==
  ASSUME SweepInv, Complete PROVE SweepInv'
<1>1. /\ UNCHANGED <<command, process, signalled, overdue, cursor, page, processed, scanned, wanting, visited,
                     segments, changes>>
      /\ job = "running" /\ job' = "completed" /\ page = <<>> /\ After = {}
  BY DEF Complete, scanVars
<1>2. wanting \subseteq visited
  <2>1. SUFFICES ASSUME NEW s \in wanting \ visited PROVE FALSE
    OBVIOUS
  <2>2. segments[s] = "wanting" /\ s > cursor
    BY <1>1 DEF SweepInv, StillToCome
  <2>3. QED
    BY <1>1, <2>2, SweepTypes DEF After
<1>3. QED
  BY <1>1, <1>2 DEF SweepInv, SweepTypeOK, PageOK, SweepVisitsAll, JobEndsFirst, JobGoes

LEMMA SweepScans ==
  ASSUME SweepInv, ScanSegment PROVE SweepInv'
<1> DEFINE h == page[1]
           n == Len(page)
<1>1. PICK attempted \in {TRUE, FALSE} :
        /\ attempted => Head(page).needs /\ segments[Head(page).id] = "wanting"
        /\ processed' = processed + (IF attempted THEN 1 ELSE 0)
        /\ page' = IF processed' = MaxProcessed THEN <<>> ELSE Tail(page)
        /\ cursor' = NextCursor(processed' = MaxProcessed)
        /\ segments' \in {segments} \union
             (IF attempted THEN {[segments EXCEPT ![Head(page).id] = "settled"]} ELSE {})
  BY DEF ScanSegment
<1>2. /\ job = "running" /\ page # <<>> /\ scanned' = scanned + 1
      /\ visited' = visited \union (IF h.needs THEN {h.id} ELSE {})
      /\ UNCHANGED <<command, process, signalled, job, overdue, changes, wanting>>
      /\ Head(page) = h
  BY DEF ScanSegment
<1>3. n \in Nat /\ n >= 1 /\ 1 \in DOMAIN page /\ h \in [id : Ids, needs : BOOLEAN] /\ h.id \in Ids
  BY <1>2, SweepTypes
<1>4. /\ Tail(page) \in Seq([id : Ids, needs : BOOLEAN]) /\ Len(Tail(page)) = n - 1
      /\ DOMAIN Tail(page) = 1..(n - 1)
      /\ \A i \in 1..(n - 1) : Tail(page)[i] = page[i + 1] /\ i + 1 \in 1..n
  BY <1>2, SweepTypes
<1>5. PageOK /\ DOMAIN page = 1..n
  BY SweepTypes DEF SweepInv
<1>6. /\ processed' \in 0..MaxProcessed /\ scanned' \in 0..MaxScanned /\ cursor' = h.id /\ cursor' \in 0..MaxSegment
  <2>1. processed < MaxProcessed /\ scanned + n <= MaxScanned
    BY <1>2, <1>5 DEF PageOK
  <2>2. cursor' = h.id
    BY <1>1, <1>2 DEF NextCursor
  <2>3. cursor' \in 0..MaxSegment
    BY <1>3, <2>2, SweepTypes DEF Ids
  <2>4. scanned' \in 0..MaxScanned
    BY <1>2, <1>3, <2>1, SweepTypes
  <2>5. processed' \in 0..MaxProcessed
    BY <1>1, <2>1, SweepTypes
  <2>6. QED
    BY <2>2, <2>3, <2>4, <2>5
<1>7. /\ segments' \in [Ids -> {"none", "settled", "wanting"}]
      /\ \A s \in Ids : s # h.id => segments'[s] = segments[s]
      /\ ~h.needs => segments' = segments
  <2>1. segments' = segments \/ (h.needs /\ segments' = [segments EXCEPT ![h.id] = "settled"])
    BY <1>1, <1>2
  <2>2. segments \in [Ids -> {"none", "settled", "wanting"}]
    BY SweepTypes
  <2> HIDE DEF h, n
  <2>3. QED
    BY <1>3, <2>1, <2>2
<1> HIDE DEF h, n
<1>8. \/ page' = <<>> /\ Len(page') = 0 /\ DOMAIN page' = {} /\ page' \in Seq([id : Ids, needs : BOOLEAN])
      \/ /\ page' = Tail(page) /\ processed' < MaxProcessed
  BY <1>1, <1>6, SweepTypes
<1>9. /\ page' \in Seq([id : Ids, needs : BOOLEAN]) /\ Len(page') \in Nat /\ Len(page') <= n - 1
      /\ DOMAIN page' \subseteq 1..(n - 1)
      /\ \A i \in DOMAIN page' : page'[i] = page[i + 1] /\ i + 1 \in 1..n /\ i \in Nat
  BY <1>3, <1>4, <1>8
<1>10. SweepTypeOK'
  <2>1. Len(page') <= PageSize
    BY <1>3, <1>9, SweepTypes DEF n
  <2>2. visited' \subseteq Ids
    BY <1>2, <1>3, SweepTypes
  <2>3. QED
    BY <1>2, <1>6, <1>7, <1>9, <2>1, <2>2 DEF SweepInv, SweepTypeOK
<1>11. \A i \in 2..n : page[i].id > h.id
  BY <1>3, <1>5 DEF PageOK, h
<1>12. PageOK'
  <2>1. \A i \in DOMAIN page' : page'[i].id > cursor'
    <3>1. \A i \in DOMAIN page' : i + 1 \in 2..n
      BY <1>3, <1>9
    <3>2. QED
      BY <1>6, <1>9, <1>11, <3>1
  <2>2. \A i, j \in DOMAIN page' : i < j => page'[i].id < page'[j].id
    <3>1. \A i, j \in DOMAIN page' : i < j => i + 1 < j + 1
      BY <1>9
    <3>2. QED
      BY <1>5, <1>9, <3>1 DEF PageOK
  <2>3. page' # <<>> => processed' < MaxProcessed
    BY <1>8
  <2>4. scanned' + Len(page') <= MaxScanned
    <3>1. scanned + n <= MaxScanned
      BY <1>5 DEF PageOK, n
    <3>2. QED
      BY <1>2, <1>3, <1>9, <3>1, SweepTypes
  <2>5. QED
    BY <2>1, <2>2, <2>3, <2>4 DEF PageOK
<1>13. StillToCome'
  <2>1. SUFFICES ASSUME NEW s \in wanting, s \notin visited'
                 PROVE  /\ segments'[s] = "wanting" /\ s > cursor'
                        /\ \/ \E i \in DOMAIN page' : page'[i] = [id |-> s, needs |-> TRUE]
                           \/ \A i \in DOMAIN page' : page'[i].id < s
    BY <1>2 DEF StillToCome
  <2>2. /\ segments[s] = "wanting" /\ s > cursor /\ s \notin visited /\ s \in Ids /\ s \in Nat
        /\ (\E i \in DOMAIN page : page[i] = [id |-> s, needs |-> TRUE]) \/ \A i \in DOMAIN page : page[i].id < s
    BY <1>2, <2>1, SweepTypes DEF SweepInv, StillToCome
  <2>3. h.needs => s # h.id
    BY <1>2, <2>1
  <2>4. segments'[s] = "wanting"
    BY <1>7, <2>2, <2>3
  <2>5. CASE \E i \in DOMAIN page : page[i] = [id |-> s, needs |-> TRUE]
    <3>1. PICK i \in 1..n : page[i] = [id |-> s, needs |-> TRUE]
      BY <1>5, <2>5
    <3>2. page[i].id = s /\ page[i].needs
      BY <3>1
    <3>3. i # 1
      BY <2>3, <3>2 DEF h
    <3>4. s > h.id
      BY <1>3, <1>11, <3>2, <3>3
    <3>5. CASE page' = <<>>
      BY <1>6, <2>4, <3>4, <3>5
    <3>6. CASE page' = Tail(page)
      <4>1. i - 1 \in 1..(n - 1) /\ (i - 1) + 1 = i
        BY <1>3, <3>3
      <4>2. i - 1 \in DOMAIN page' /\ page'[i - 1] = page[(i - 1) + 1]
        BY <1>4, <3>6, <4>1
      <4>3. page'[i - 1] = [id |-> s, needs |-> TRUE]
        BY <3>1, <4>1, <4>2
      <4>4. QED
        BY <1>6, <2>4, <3>4, <4>2, <4>3
    <3>7. QED
      BY <1>8, <3>5, <3>6
  <2>6. CASE \A i \in DOMAIN page : page[i].id < s
    <3>1. h.id < s
      BY <1>3, <2>6 DEF h
    <3>2. \A i \in DOMAIN page' : page'[i].id < s
      BY <1>5, <1>9, <2>6
    <3>3. QED
      BY <1>6, <2>4, <3>1, <3>2, <2>2
  <2>7. QED
    BY <2>2, <2>5, <2>6
<1>14. QED
  BY <1>2, <1>10, <1>12, <1>13 DEF SweepInv, SweepVisitsAll, JobEndsFirst, JobGoes

LEMMA SweepNextBatch ==
  ASSUME SweepInv, NextBatch PROVE SweepInv'
<1>1. /\ processed' = 0 /\ scanned' = 0 /\ page = <<>>
      /\ UNCHANGED <<command, process, signalled, job, overdue, cursor, page, segments, changes, wanting, visited>>
  BY DEF NextBatch
<1>2. PageOK'
  BY <1>1, SweepsAssumption DEF PageOK
<1>3. SweepTypeOK'
  BY <1>1, SweepsAssumption DEF SweepInv, SweepTypeOK
<1>4. StillToCome => StillToCome'
  BY <1>1 DEF StillToCome
<1>5. QED
  BY <1>1, <1>2, <1>3, <1>4 DEF SweepInv, SweepVisitsAll, JobEndsFirst, JobGoes

LEMMA SweepEnds ==
  ASSUME SweepInv, JobFails \/ EndStep PROVE SweepInv'
<1>1. SweepTypeOK /\ JobEndsFirst /\ (process = "starting" => job = "none")
  BY DEF SweepInv
<1>2. CASE JobFails
  BY <1>1, <1>2, SweepRests DEF JobFails, JobEnds, JobEndsFirst, JobGoes, SweepTypeOK
<1>3. CASE JobCancelled
  BY <1>1, <1>3, SweepRests DEF JobCancelled, JobEnds, JobEndsFirst, JobGoes, SweepTypeOK
<1>4. CASE Forgotten
  <2>1. UNCHANGED process /\ job' = "none" /\ UNCHANGED <<command, signalled, overdue, scanVars, segments, changes>>
    BY <1>4 DEF Forgotten, JobEnds
  <2>2. process \in {"serving", "waiting", "exited"}
    BY <1>1, <1>4 DEF Forgotten, SweepTypeOK
  <2>3. QED
    BY <1>1, <2>1, <2>2, SweepRests DEF JobEndsFirst, JobGoes, SweepTypeOK
<1>5. CASE Signal
  BY <1>1, <1>5, SweepRests DEF Signal, JobEndsFirst, JobGoes, SweepTypeOK
<1>6. CASE Shutdown
  BY <1>1, <1>6, SweepRests DEF Shutdown, JobEndsFirst, JobGoes, SweepTypeOK
<1>7. CASE WaitTimesOut
  BY <1>1, <1>7, SweepRests DEF WaitTimesOut, JobEndsFirst, JobGoes, SweepTypeOK
<1>8. CASE ProcessExits
  BY <1>1, <1>8, SweepRests DEF ProcessExits, JobEndsFirst, JobGoes, SweepTypeOK
<1>9. QED
  BY <1>2, <1>3, <1>4, <1>5, <1>6, <1>7, <1>8 DEF EndStep

LEMMA SweepSteps ==
  ASSUME SweepInv, [SweepNext]_sweepVars PROVE SweepInv'
<1>1. CASE UNCHANGED sweepVars
  <2>1. UNCHANGED <<command, process, signalled, job, overdue, cursor, page, processed, scanned, wanting, visited,
                    segments, changes>>
    BY <1>1 DEF sweepVars, scanVars
  <2>2. QED
    BY <2>1 DEF SweepInv, SweepTypeOK, PageOK, StillToCome, SweepVisitsAll, JobEndsFirst, JobGoes
<1>2. QED
  BY <1>1, SweepLaunched, SweepBegins, SweepFindsPage, SweepCompletes, SweepScans, SweepNextBatch, SweepEnds,
     SweepChanged DEF SweepNext, SweepStep

-----------------------------------------------------------------------------
(* The consumer: proofs *)

LEMMA SupervisorTypes ==
  ASSUME SupervisorInv
  PROVE  /\ phase \in {"starting", "running", "closing", "draining", "exited"}
         /\ stopAsked \in BOOLEAN /\ closing \in BOOLEAN /\ failure \in BOOLEAN /\ startFailed \in BOOLEAN
         /\ lost \in BOOLEAN /\ crossed \in BOOLEAN
         /\ executions \in [Partitions -> Workers \union {NoWorker}]
         /\ revoked \subseteq Workers /\ cancelling \subseteq Workers /\ awaited \subseteq Workers
         /\ task \in [Workers -> Task]
         /\ revoking \in [Workers -> (SUBSET Workers) \union {NotNow}]
         /\ owned \in [Workers -> SUBSET Partitions]
         /\ position \in [Workers -> [Partitions -> Nat]] /\ offset \in [Partitions -> Nat]
         /\ done \subseteq Partitions \X Nat
         /\ NoWorker \notin Workers /\ Length \in [Partitions -> Nat] /\ MaxRebalances \in Nat
<1>1. SupervisorTypeOK /\ position \in [Workers -> [Partitions -> Nat]] /\ offset \in [Partitions -> Nat]
  BY DEF SupervisorInv
<1>2. QED
  BY <1>1, SupervisorAssumption DEF SupervisorTypeOK

LEMMA TaskFields ==
  ASSUME SupervisorInv, NEW w \in Workers
  PROVE  /\ task[w] \in Task /\ DOMAIN task[w] = {"step", "partition", "offset"}
         /\ task[w].step \in {"none", "running", "stored", "acked", "failed", "cancelled"}
         /\ task[w].partition \in Partitions /\ task[w].offset \in Nat
         /\ Message(w) = <<task[w].partition, task[w].offset>> /\ Message(w) \in Partitions \X Nat
         /\ revoking[w] \in (SUBSET Workers) \union {NotNow} /\ w # NoWorker
<1>1. task[w] \in Task
  BY SupervisorTypes
<1>2. QED
  BY <1>1, SupervisorTypes DEF Task, Message

LEMMA NoTaskIsTask == NoTask \in Task /\ NoTask.step = "none"
BY SupervisorAssumption DEF NoTask, Task

LEMMA SupervisorStarts == SupervisorInit => SupervisorInv
<1> SUFFICES ASSUME SupervisorInit PROVE SupervisorInv
  OBVIOUS
<1>1. /\ position \in [Workers -> [Partitions -> Nat]] /\ offset \in [Partitions -> Nat]
      /\ \A w \in Workers, p \in Partitions : position[w][p] = 0
      /\ \A p \in Partitions : offset[p] = 0
  BY DEF SupervisorInit
<1>2. task \in [Workers -> Task] /\ \A w \in Workers : task[w].step = "none"
  BY NoTaskIsTask DEF SupervisorInit
<1>3. SupervisorTypeOK
  <2>1. \A p \in Partitions : 0 \in 0..Length[p]
    BY SupervisorAssumption
  <2>2. 0 \in 0..MaxRebalances
    BY SupervisorAssumption
  <2>3. revoking \in [Workers -> (SUBSET Workers) \union {NotNow}]
    BY DEF SupervisorInit
  <2>4. owned \in [Workers -> SUBSET Partitions] /\ executions \in [Partitions -> Workers \union {NoWorker}]
    BY DEF SupervisorInit
  <2>5. QED
    BY <1>1, <1>2, <2>1, <2>2, <2>3, <2>4 DEF SupervisorInit, SupervisorTypeOK
<1>4. TasksOK
  BY <1>2 DEF SupervisorInit, TasksOK
<1>5. DrainOK
  BY DEF SupervisorInit, DrainOK
<1>6. NoMessageSkipped
  <2>1. \A p \in Partitions : 0..(offset[p] - 1) = {}
    BY <1>1
  <2>2. QED
    BY <2>1 DEF NoMessageSkipped, NonePassed
<1>7. \A w \in Workers : PositionsCovered(w)
  BY DEF SupervisorInit, PositionsCovered
<1>8. QED
  BY <1>1, <1>3, <1>4, <1>5, <1>6, <1>7 DEF SupervisorInv

\* A step of the group or the supervisor that touches no execution.
LEMMA SupervisorRests ==
  ASSUME SupervisorInv, SupervisorTypeOK',
         UNCHANGED <<executions, revoked, task, revoking, owned, position, offset, done, lost, crossed>>,
         closing => closing', stopAsked => stopAsked', failure => failure',
         \A w \in cancelling' : Running(w), DrainOK'
  PROVE  SupervisorInv'
<1>1. TasksOK'
  BY DEF SupervisorInv, TasksOK, Running, Message
<1>2. NoMessageSkipped'
  BY DEF SupervisorInv, NoMessageSkipped, NonePassed
<1>3. ASSUME NEW w \in Workers
      PROVE  /\ PositionsCovered(w) => PositionsCovered(w)'
             /\ Halted(w) => Halted(w)'
  BY DEF PositionsCovered, Halted, Message
<1>4. QED
  BY <1>1, <1>2, <1>3 DEF SupervisorInv

LEMMA GroupRests ==
  ASSUME SupervisorInv, Rebalance \/ \E w \in Workers : SessionEnds(w) PROVE SupervisorInv'
<1>1. /\ UNCHANGED <<phase, stopAsked, startFailed, awaited, crossed, closing, failure, executions, revoked,
                     cancelling, task, revoking, owned, position, offset, done, lost>>
      /\ joined' = {} /\ rebalances' = rebalances + 1 /\ rebalances < MaxRebalances
      /\ members' \subseteq members
  BY DEF Rebalance, SessionEnds, runVars
<1>2. SupervisorTypeOK'
  <2>1. rebalances' \in 0..MaxRebalances /\ members' \subseteq Workers
    BY <1>1, SupervisorTypes DEF SupervisorInv, SupervisorTypeOK
  <2>2. QED
    BY <1>1, <2>1 DEF SupervisorInv, SupervisorTypeOK
<1>3. DrainOK'
  BY <1>1 DEF SupervisorInv, DrainOK
<1>4. QED
  BY <1>1, <1>2, <1>3, SupervisorRests DEF SupervisorInv, TasksOK, SupervisorTypeOK

LEMMA RunKeeps ==
  ASSUME SupervisorInv, RunStep PROVE SupervisorInv'
<1>1. UNCHANGED <<crossed, executions, revoked, task, offset, done, lost, owned, position, members, joined,
                  rebalances, revoking, failure>>
  BY DEF RunStep, AskStop, Started, Wake, Drain, DrainTimesOut, Exit, runOthers, groupVars
<1>2. /\ cancelling \subseteq Workers /\ \A w \in cancelling : Running(w)
      /\ awaited \subseteq Workers /\ SupervisorTypeOK /\ DrainOK
  BY DEF SupervisorInv, TasksOK, SupervisorTypeOK
<1>3. ASSUME phase' \in {"starting", "running", "closing", "draining", "exited"},
             stopAsked' \in BOOLEAN, closing' \in BOOLEAN, startFailed' \in BOOLEAN,
             cancelling' \subseteq Workers, awaited' \subseteq Workers,
             closing => closing', stopAsked => stopAsked',
             \A w \in cancelling' : Running(w), DrainOK'
      PROVE  SupervisorInv'
  <2>1. SupervisorTypeOK'
    BY <1>1, <1>2, <1>3 DEF SupervisorTypeOK
  <2>2. QED
    BY <1>1, <1>3, <2>1, SupervisorRests
<1>4. CASE AskStop
  BY <1>1, <1>2, <1>3, <1>4, SupervisorTypes DEF AskStop, DrainOK
<1>5. CASE Started
  BY <1>1, <1>2, <1>3, <1>5, SupervisorTypes DEF Started, DrainOK
<1>6. CASE Wake
  BY <1>1, <1>2, <1>3, <1>6, SupervisorTypes DEF Wake, DrainOK
<1>7. CASE Drain
  <2>1. /\ phase = "closing" /\ phase' = "draining" /\ UNCHANGED <<stopAsked, closing, startFailed, cancelling>>
        /\ awaited' = {executions[p] : p \in Partitions} \ {NoWorker}
    BY <1>7 DEF Drain
  <2>2. awaited' \subseteq Workers
    BY <2>1, SupervisorTypes
  <2>3. \A w \in Workers : executions[task[w].partition] = w => w \in awaited'
    BY <2>1, TaskFields
  <2>4. DrainOK'
    BY <1>1, <1>2, <2>1, <2>3 DEF DrainOK
  <2>5. QED
    BY <1>2, <1>3, <2>1, <2>2, <2>4, SupervisorTypes
<1>8. CASE DrainTimesOut
  BY <1>1, <1>2, <1>3, <1>8, SupervisorTypes DEF DrainTimesOut, DrainOK
<1>9. CASE Exit
  <2>1. /\ phase = "draining" /\ awaited = {} /\ phase' = "exited"
        /\ cancelling' = cancelling \union {w \in Workers : Running(w)}
        /\ UNCHANGED <<stopAsked, closing, startFailed, awaited>>
    BY <1>9 DEF Exit, Drained
  <2>2. DrainOK'
    BY <1>1, <1>2, <2>1 DEF DrainOK
  <2>3. QED
    BY <1>2, <1>3, <2>1, <2>2, SupervisorTypes
<1>10. QED
  BY <1>4, <1>5, <1>6, <1>7, <1>8, <1>9 DEF RunStep

LEMMA RevokeKeeps ==
  ASSUME SupervisorInv, NEW w \in Workers, Revoke(w) PROVE SupervisorInv'
<1> DEFINE tasks == {executions[p] : p \in owned[w]} \ {NoWorker}
<1>1. /\ revoking[w] = NotNow
      /\ revoked' = revoked \union tasks
      /\ cancelling' = cancelling \union {x \in tasks : Running(x)}
      /\ revoking' = [revoking EXCEPT ![w] = tasks]
      /\ crossed' = (crossed \/ tasks \ {w} # {})
      /\ UNCHANGED <<phase, stopAsked, startFailed, awaited, closing, failure, executions, task, owned, position,
                     members, joined, rebalances, offset, done, lost>>
  BY DEF Revoke
<1>2. tasks \subseteq Workers
  BY SupervisorTypes
<1> HIDE DEF tasks
<1>3. SupervisorTypeOK'
  <2>1. revoking' \in [Workers -> (SUBSET Workers) \union {NotNow}]
    BY <1>1, <1>2, SupervisorTypes
  <2>2. crossed' \in BOOLEAN
    BY <1>1, SupervisorTypes
  <2>3. revoked' \subseteq Workers /\ cancelling' \subseteq Workers
    BY <1>1, <1>2, SupervisorTypes
  <2>4. QED
    BY <1>1, <2>1, <2>2, <2>3 DEF SupervisorInv, SupervisorTypeOK
<1>4. TasksOK'
  <2>1. TasksOK
    BY DEF SupervisorInv
  <2>2. \A x \in Workers : x \in cancelling' => Running(x)'
    BY <1>1, <2>1 DEF TasksOK, Running
  <2>3. \A x \in Workers : task'[x].step \in {"stored", "acked"} => Message(x)' \in done'
    BY <1>1, <2>1 DEF TasksOK, Message
  <2>4. ASSUME NEW x \in Workers, ~crossed', x \in revoked' PROVE x \in revoking'[x]
    <3>1. tasks \subseteq {w} /\ ~crossed
      BY <1>1, <2>4
    <3>2. CASE x = w
      <4>1. revoking'[x] = tasks
        BY <1>1, <3>2, SupervisorTypes
      <4>2. x \notin revoked
        BY <1>1, <2>1, <3>1, <3>2, TaskFields DEF TasksOK, NotNow
      <4>3. QED
        BY <1>1, <2>4, <4>1, <4>2
    <3>3. CASE x # w
      <4>1. x \in revoked /\ revoking'[x] = revoking[x]
        BY <1>1, <2>4, <3>1, <3>3, SupervisorTypes
      <4>2. QED
        BY <2>1, <3>1, <4>1 DEF TasksOK
    <3>4. QED
      BY <3>2, <3>3
  <2>5. QED
    BY <2>2, <2>3, <2>4 DEF TasksOK
<1>5. DrainOK'
  BY <1>1 DEF SupervisorInv, DrainOK
<1>6. NoMessageSkipped'
  BY <1>1 DEF SupervisorInv, NoMessageSkipped, NonePassed
<1>7. \A x \in Workers : PositionsCovered(x) => PositionsCovered(x)'
  BY <1>1 DEF PositionsCovered, Message
<1>8. ASSUME NEW x \in Workers, Halted(x) PROVE Halted(x)'
  <2>1. tasks # NotNow
    BY <1>2, SupervisorTypes DEF NotNow
  <2>2. revoking[x] # NotNow => revoking'[x] # NotNow
    BY <1>1, <2>1, SupervisorTypes
  <2>3. QED
    BY <1>1, <1>8, <2>2 DEF Halted
<1>9. QED
  BY <1>1, <1>3, <1>4, <1>5, <1>6, <1>7, <1>8 DEF SupervisorInv

LEMMA JoinKeeps ==
  ASSUME SupervisorInv, NEW w \in Workers, Join(w) PROVE SupervisorInv'
<1>1. /\ revoking[w] = {}
      /\ revoking' = [revoking EXCEPT ![w] = NotNow]
      /\ owned' = [owned EXCEPT ![w] = {}]
      /\ position' = [position EXCEPT ![w] = [p \in Partitions |-> 0]]
      /\ members' = members \union {w}
      /\ joined' = IF joined = NotNow THEN {w} ELSE joined \union {w}
      /\ UNCHANGED <<phase, stopAsked, startFailed, awaited, crossed, closing, failure, executions, revoked,
                     cancelling, task, rebalances, offset, done, lost>>
  BY DEF Join, runVars
<1>2. /\ position' \in [Workers -> [Partitions -> Nat]]
      /\ \A x \in Workers : position'[x] = IF x = w THEN [p \in Partitions |-> 0] ELSE position[x]
  BY <1>1, SupervisorTypes
<1>3. \A x \in Workers : /\ owned'[x] = IF x = w THEN {} ELSE owned[x]
                         /\ revoking'[x] = IF x = w THEN NotNow ELSE revoking[x]
  BY <1>1, SupervisorTypes
<1>4. SupervisorTypeOK'
  <2>1. ASSUME NEW x \in Workers, NEW p \in Partitions PROVE position'[x][p] \in 0..Length[p]
    <3>1. position[x][p] \in 0..Length[p] /\ Length[p] \in Nat
      BY SupervisorTypes DEF SupervisorInv, SupervisorTypeOK
    <3>2. position'[x][p] = IF x = w THEN 0 ELSE position[x][p]
      BY <1>2
    <3>3. QED
      BY <3>1, <3>2
  <2>2. revoking' \in [Workers -> (SUBSET Workers) \union {NotNow}] /\ owned' \in [Workers -> SUBSET Partitions]
    BY <1>1, SupervisorTypes
  <2>3. members' \subseteq Workers /\ (joined' = NotNow \/ joined' \subseteq Workers)
    BY <1>1 DEF SupervisorInv, SupervisorTypeOK
  <2>4. QED
    BY <1>1, <2>1, <2>2, <2>3 DEF SupervisorInv, SupervisorTypeOK
<1>5. TasksOK'
  BY <1>1, <1>3 DEF SupervisorInv, TasksOK, Running, Message
<1>6. DrainOK'
  BY <1>1 DEF SupervisorInv, DrainOK
<1>7. NoMessageSkipped'
  BY <1>1 DEF SupervisorInv, NoMessageSkipped, NonePassed
<1>8. ASSUME NEW x \in Workers, PositionsCovered(x) \/ Halted(x) PROVE (PositionsCovered(x) \/ Halted(x))'
  <2>1. CASE x = w
    BY <1>3, <2>1 DEF PositionsCovered
  <2>2. CASE x # w
    BY <1>1, <1>2, <1>3, <1>8, <2>2 DEF PositionsCovered, Halted, Message
  <2>3. QED
    BY <2>1, <2>2
<1>9. QED
  BY <1>1, <1>2, <1>4, <1>5, <1>6, <1>7, <1>8, SupervisorTypes DEF SupervisorInv

LEMMA AssignKeeps ==
  ASSUME SupervisorInv, AssignPartitions PROVE SupervisorInv'
<1>1. UNCHANGED <<phase, stopAsked, startFailed, awaited, crossed, closing, failure, executions, revoked, cancelling,
                  task, revoking, members, rebalances, offset, done, lost>> /\ joined' = NotNow
  BY DEF AssignPartitions, runVars
<1>2. PICK deal \in [Partitions -> members] :
        /\ owned' = [w \in Workers |-> IF w \in members THEN {p \in Partitions : deal[p] = w} ELSE owned[w]]
        /\ position' = [w \in Workers |-> [p \in Partitions |->
                          IF deal[p] = w THEN offset[p] ELSE position[w][p]]]
  BY DEF AssignPartitions
<1>3. /\ position' \in [Workers -> [Partitions -> Nat]]
      /\ \A w \in Workers, p \in Partitions : position'[w][p] = IF deal[p] = w THEN offset[p] ELSE position[w][p]
  BY <1>2, SupervisorTypes
<1>4. owned' \in [Workers -> SUBSET Partitions]
  BY <1>2, SupervisorTypes
<1>5. SupervisorTypeOK'
  <2>1. \A w \in Workers, p \in Partitions : position'[w][p] \in 0..Length[p]
    <3>1. /\ \A w \in Workers, p \in Partitions : position[w][p] \in 0..Length[p]
          /\ \A p \in Partitions : offset[p] \in 0..Length[p]
      BY DEF SupervisorInv, SupervisorTypeOK
    <3>2. SUFFICES ASSUME NEW w \in Workers, NEW p \in Partitions PROVE position'[w][p] \in 0..Length[p]
      OBVIOUS
    <3>3. position'[w][p] = offset[p] \/ position'[w][p] = position[w][p]
      BY <1>3
    <3>4. QED
      BY <3>1, <3>3
  <2>2. QED
    BY <1>1, <1>4, <2>1 DEF SupervisorInv, SupervisorTypeOK
<1>6. TasksOK'
  BY <1>1 DEF SupervisorInv, TasksOK, Running, Message
<1>7. DrainOK'
  BY <1>1 DEF SupervisorInv, DrainOK
<1>8. NoMessageSkipped'
  BY <1>1 DEF SupervisorInv, NoMessageSkipped, NonePassed
<1>9. ASSUME ~crossed, NEW w \in Workers, PositionsCovered(w) \/ Halted(w) PROVE (PositionsCovered(w) \/ Halted(w))'
  <2>1. CASE w \in members
    <3>1. \A p \in owned'[w] : p \in Partitions /\ position'[w][p] = offset[p]
      BY <1>2, <1>3, <2>1
    <3>2. NonePassed
      BY <1>9 DEF SupervisorInv, NoMessageSkipped
    <3>3. QED
      BY <1>1, <3>1, <3>2 DEF NonePassed, PositionsCovered
  <2>2. CASE w \notin members
    <3>1. owned'[w] = owned[w] /\ owned[w] \subseteq Partitions
      BY <1>2, <2>2, SupervisorTypes
    <3>2. \A p \in Partitions : position'[w][p] = position[w][p]
      BY <1>2, <1>3, <2>2
    <3>3. QED
      BY <1>1, <1>9, <3>1, <3>2 DEF PositionsCovered, Halted, Message
  <2>3. QED
    BY <2>1, <2>2
<1>10. QED
  BY <1>1, <1>3, <1>5, <1>6, <1>7, <1>8, <1>9, SupervisorTypes DEF SupervisorInv

\* The next message of a partition has been taken.
LEMMA Taken ==
  ASSUME SupervisorInv, NEW w \in Workers, NEW p \in Partitions, Delivered(w, p),
         position' = [position EXCEPT ![w][p] = @ + 1]
  PROVE  /\ position' \in [Workers -> [Partitions -> Nat]]
         /\ \A x \in Workers, q \in Partitions :
              position'[x][q] = IF x = w /\ q = p THEN position[w][p] + 1 ELSE position[x][q]
         /\ \A x \in Workers, q \in Partitions : position'[x][q] \in 0..Length[q]
<1>1. position \in [Workers -> [Partitions -> Nat]] /\ position[w][p] \in Nat /\ position[w] \in [Partitions -> Nat]
  BY SupervisorTypes
<1> DEFINE row == [position[w] EXCEPT ![p] = position[w][p] + 1]
<1>2. position' = [position EXCEPT ![w] = row]
  OBVIOUS
<1>3. row \in [Partitions -> Nat] /\ \A q \in Partitions : row[q] = IF q = p THEN position[w][p] + 1 ELSE position[w][q]
  BY <1>1
<1> HIDE DEF row
<1>4. /\ position' \in [Workers -> [Partitions -> Nat]]
      /\ \A x \in Workers, q \in Partitions :
           position'[x][q] = IF x = w /\ q = p THEN position[w][p] + 1 ELSE position[x][q]
  BY <1>1, <1>2, <1>3
<1>5. \A x \in Workers, q \in Partitions : position[x][q] \in 0..Length[q]
  BY DEF SupervisorInv, SupervisorTypeOK
<1>6. position[w][p] < Length[p] /\ Length[p] \in Nat
  BY SupervisorTypes DEF Delivered
<1>7. ASSUME NEW x \in Workers, NEW q \in Partitions PROVE position'[x][q] \in 0..Length[q]
  BY <1>1, <1>4, <1>5, <1>6
<1>8. QED
  BY <1>4, <1>7

LEMMA RejectKeeps ==
  ASSUME SupervisorInv, NEW w \in Workers, NEW p \in Partitions, RejectMessage(w, p) PROVE SupervisorInv'
<1>1. /\ Delivered(w, p) /\ position' = [position EXCEPT ![w][p] = @ + 1] /\ closing' = TRUE /\ failure' = TRUE
      /\ UNCHANGED <<phase, stopAsked, startFailed, awaited, crossed, executions, revoked, cancelling, task, revoking,
                     owned, members, joined, rebalances, offset, done, lost>>
  BY DEF RejectMessage, Fail, runVars
<1>2. /\ position' \in [Workers -> [Partitions -> Nat]]
      /\ \A x \in Workers, q \in Partitions :
           position'[x][q] = IF x = w /\ q = p THEN position[w][p] + 1 ELSE position[x][q]
      /\ \A x \in Workers, q \in Partitions : position'[x][q] \in 0..Length[q]
  BY <1>1, Taken
<1>3. SupervisorTypeOK'
  BY <1>1, <1>2 DEF SupervisorInv, SupervisorTypeOK
<1>4. TasksOK' /\ DrainOK' /\ NoMessageSkipped'
  <2>1. TasksOK'
    BY <1>1 DEF SupervisorInv, TasksOK, Running, Message
  <2>2. DrainOK'
    BY <1>1 DEF SupervisorInv, DrainOK
  <2>3. NoMessageSkipped'
    BY <1>1 DEF SupervisorInv, NoMessageSkipped, NonePassed
  <2>4. QED
    BY <2>1, <2>2, <2>3
<1>5. ASSUME NEW x \in Workers, PositionsCovered(x) \/ Halted(x) PROVE (PositionsCovered(x) \/ Halted(x))'
  <2>1. CASE x = w
    BY <1>1, <2>1 DEF Halted, Delivered
  <2>2. CASE x # w
    <3>1. owned[x] \subseteq Partitions
      BY SupervisorTypes
    <3>2. QED
      BY <1>1, <1>2, <1>5, <2>2, <3>1 DEF PositionsCovered, Halted, Message
  <2>3. QED
    BY <2>1, <2>2
<1>6. QED
  BY <1>1, <1>2, <1>3, <1>4, <1>5, SupervisorTypes DEF SupervisorInv

LEMMA HandleKeeps ==
  ASSUME SupervisorInv, NEW w \in Workers, NEW p \in Partitions, HandleMessage(w, p) PROVE SupervisorInv'
<1> DEFINE begun == [step |-> "running", partition |-> p, offset |-> position[w][p]]
<1>1. /\ Delivered(w, p) /\ position' = [position EXCEPT ![w][p] = @ + 1]
      /\ IF closing \/ stopAsked THEN UNCHANGED <<task, executions>>
         ELSE task' = [task EXCEPT ![w] = begun] /\ executions' = [executions EXCEPT ![p] = w]
      /\ UNCHANGED <<phase, stopAsked, startFailed, awaited, crossed, closing, failure, revoked, cancelling, revoking,
                     owned, members, joined, rebalances, offset, done, lost>>
  BY DEF HandleMessage, runVars
<1>2. /\ position' \in [Workers -> [Partitions -> Nat]]
      /\ \A x \in Workers, q \in Partitions :
           position'[x][q] = IF x = w /\ q = p THEN position[w][p] + 1 ELSE position[x][q]
      /\ \A x \in Workers, q \in Partitions : position'[x][q] \in 0..Length[q]
  BY <1>1, Taken
<1>3. /\ begun \in Task /\ begun.step = "running" /\ begun.partition = p /\ begun.offset = position[w][p]
  BY SupervisorTypes DEF Task
<1>4. task[w].step = "none" /\ revoking[w] = NotNow
  BY <1>1 DEF Delivered
<1> HIDE DEF begun
<1>5. \A x \in Workers : owned[x] \subseteq Partitions
  BY SupervisorTypes
<1>6. NoMessageSkipped'
  BY <1>1 DEF SupervisorInv, NoMessageSkipped, NonePassed
<1>7. CASE closing \/ stopAsked
  <2>1. UNCHANGED <<task, executions>>
    BY <1>1, <1>7
  <2>2. SupervisorTypeOK'
    BY <1>1, <1>2, <2>1 DEF SupervisorInv, SupervisorTypeOK
  <2>3. TasksOK' /\ DrainOK'
    BY <1>1, <2>1 DEF SupervisorInv, TasksOK, DrainOK, Running, Message
  <2>4. ASSUME NEW x \in Workers, PositionsCovered(x) \/ Halted(x) PROVE (PositionsCovered(x) \/ Halted(x))'
    <3>1. CASE x = w
      BY <1>1, <1>4, <1>7, <2>1, <3>1 DEF Halted
    <3>2. CASE x # w
      BY <1>1, <1>2, <1>5, <2>1, <2>4, <3>2 DEF PositionsCovered, Halted, Message
    <3>3. QED
      BY <3>1, <3>2
  <2>5. QED
    BY <1>1, <1>2, <1>6, <2>2, <2>3, <2>4, SupervisorTypes DEF SupervisorInv
<1>8. CASE ~(closing \/ stopAsked)
  <2>1. task' = [task EXCEPT ![w] = begun] /\ executions' = [executions EXCEPT ![p] = w]
    BY <1>1, <1>8
  <2>2. /\ task' \in [Workers -> Task] /\ executions' \in [Partitions -> Workers \union {NoWorker}]
        /\ \A x \in Workers : task'[x] = IF x = w THEN begun ELSE task[x]
    BY <1>3, <2>1, SupervisorTypes
  <2>3. SupervisorTypeOK'
    BY <1>1, <1>2, <2>2 DEF SupervisorInv, SupervisorTypeOK
  <2>4. TasksOK'
    BY <1>1, <1>3, <1>4, <2>2 DEF SupervisorInv, TasksOK, Running, Message
  <2>5. DrainOK'
    <3>1. phase \notin {"closing", "draining", "exited"}
      BY <1>8 DEF SupervisorInv, DrainOK
    <3>2. \A x \in Workers : task[x].step = "failed" => task'[x].step = "failed"
      BY <1>4, <2>2
    <3>3. QED
      BY <1>1, <3>1, <3>2 DEF SupervisorInv, DrainOK
  <2>6. ASSUME NEW x \in Workers, PositionsCovered(x) \/ Halted(x) PROVE (PositionsCovered(x) \/ Halted(x))'
    <3>1. CASE x = w
      <4>1. PositionsCovered(w)
        BY <1>4, <1>8, <2>6, <3>1 DEF Halted
      <4>2. SUFFICES ASSUME NEW q \in owned[w], NEW o \in 0..(position'[w][q] - 1)
                     PROVE  <<q, o>> \in done \/ (task'[w].step # "none" /\ <<q, o>> = Message(w)')
        BY <1>1, <3>1 DEF PositionsCovered
      <4>3. q \in Partitions /\ position[w][q] \in Nat /\ position[w][p] \in Nat
        BY <1>5, SupervisorTypes
      <4>4. Message(w)' = <<p, position[w][p]>> /\ task'[w].step = "running"
        BY <1>3, <2>2 DEF Message
      <4>5. CASE o \in 0..(position[w][q] - 1)
        BY <1>4, <4>1, <4>5 DEF PositionsCovered
      <4>6. CASE o \notin 0..(position[w][q] - 1)
        <5>1. q = p /\ o = position[w][p]
          BY <1>2, <4>3, <4>6
        <5>2. QED
          BY <4>4, <5>1
      <4>7. QED
        BY <4>5, <4>6
    <3>2. CASE x # w
      BY <1>1, <1>2, <1>5, <2>2, <2>6, <3>2 DEF PositionsCovered, Halted, Message
    <3>3. QED
      BY <3>1, <3>2
  <2>7. QED
    BY <1>1, <1>2, <1>6, <2>3, <2>4, <2>5, <2>6, SupervisorTypes DEF SupervisorInv
<1>9. QED
  BY <1>7, <1>8

\* A task comes to another step, with its message.
LEMMA EndedTask ==
  ASSUME SupervisorInv, NEW w \in Workers,
         NEW step \in {"none", "running", "stored", "acked", "failed", "cancelled"}, Ended(w, step)
  PROVE  /\ task' \in [Workers -> Task] /\ task'[w].step = step
         /\ task'[w].partition = task[w].partition /\ Message(w)' = Message(w)
         /\ \A x \in Workers : x # w => task'[x] = task[x] /\ Message(x)' = Message(x)
<1> DEFINE t == [task[w] EXCEPT !.step = step]
<1>1. task' = [task EXCEPT ![w] = t]
  BY DEF Ended
<1>2. /\ t \in Task /\ t.step = step /\ t.partition = task[w].partition /\ t.offset = task[w].offset
  BY TaskFields DEF Task
<1> HIDE DEF t
<1>3. task' \in [Workers -> Task] /\ \A x \in Workers : task'[x] = IF x = w THEN t ELSE task[x]
  BY <1>1, <1>2, SupervisorTypes
<1>4. QED
  BY <1>2, <1>3 DEF Message

\* What a task comes to while it still is there.
LEMMA TaskGoesOn ==
  ASSUME SupervisorInv, NEW w \in Workers, NEW step \in {"stored", "acked", "failed", "cancelled"}, Ended(w, step),
         Running(w), w \notin cancelling',
         \A x \in Workers : x # w => (x \in cancelling' <=> x \in cancelling),
         cancelling' \subseteq Workers,
         UNCHANGED <<phase, stopAsked, startFailed, awaited, crossed, closing, failure, executions, revoked, revoking,
                     owned, position, members, joined, rebalances>>,
         done \subseteq done', done' \subseteq done \union {Message(w)},
         step \in {"stored", "acked"} => Message(w) \in done',
         lost' = (lost \/ step = "failed"),
         offset' \in [Partitions -> Nat], \A p \in Partitions : offset'[p] \in 0..Length[p],
         crossed \/ NonePassed'
  PROVE  SupervisorInv'
<1>1. /\ task' \in [Workers -> Task] /\ task'[w].step = step
      /\ task'[w].partition = task[w].partition /\ Message(w)' = Message(w)
      /\ \A x \in Workers : x # w => task'[x] = task[x] /\ Message(x)' = Message(x)
  BY EndedTask
<1>2. \A x \in Workers : (task'[x].step # "none" <=> task[x].step # "none")
                         /\ task'[x].partition = task[x].partition /\ Message(x)' = Message(x)
  BY <1>1 DEF Running
<1>3. SupervisorTypeOK'
  <2>1. done' \subseteq Partitions \X Nat
    BY TaskFields, SupervisorTypes
  <2>2. lost' \in BOOLEAN
    OBVIOUS
  <2>3. QED
    BY <1>1, <2>1, <2>2 DEF SupervisorInv, SupervisorTypeOK
<1>4. TasksOK'
  <2>1. TasksOK
    BY DEF SupervisorInv
  <2>2. ASSUME NEW x \in Workers, x \in cancelling' PROVE Running(x)'
    BY <1>1, <2>1, <2>2 DEF TasksOK, Running
  <2>3. ASSUME NEW x \in Workers, task'[x].step \in {"stored", "acked"} PROVE Message(x)' \in done'
    BY <1>1, <2>1, <2>3 DEF TasksOK
  <2>4. QED
    BY <2>1, <2>2, <2>3 DEF TasksOK
<1>5. DrainOK'
  <2>1. \A x \in Workers : task[x].step = "failed" => task'[x].step = "failed"
    BY <1>1 DEF Running
  <2>2. DrainOK
    BY DEF SupervisorInv
  <2>3. lost' => failure \/ \E x \in Workers : task'[x].step = "failed"
    BY <1>1, <2>1, <2>2 DEF DrainOK
  <2>4. QED
    BY <1>2, <2>2, <2>3 DEF DrainOK
<1>6. ASSUME NEW x \in Workers, PositionsCovered(x) \/ Halted(x) PROVE (PositionsCovered(x) \/ Halted(x))'
  <2>1. CASE PositionsCovered(x)
    BY <1>2, <2>1 DEF PositionsCovered
  <2>2. CASE Halted(x)
    BY <1>2, <2>2 DEF Halted
  <2>3. QED
    BY <1>6, <2>1, <2>2
<1>7. QED
  BY <1>3, <1>4, <1>5, <1>6, SupervisorTypes DEF SupervisorInv, NoMessageSkipped

LEMMA ProcessKeeps ==
  ASSUME SupervisorInv, NEW w \in Workers, Process(w) PROVE SupervisorInv'
<1>1. /\ task[w].step = "running" /\ w \notin cancelling
      /\ UNCHANGED <<phase, stopAsked, startFailed, awaited, crossed, owned, position, members, joined, rebalances,
                     revoking, closing, failure, executions, revoked, cancelling, offset>>
  BY DEF Process, runVars, groupVars
<1>2. PICK step \in {"stored", "failed", "cancelled"} :
        /\ Ended(w, step)
        /\ step = "stored" => done' = done \union {Message(w)}
        /\ step # "stored" => done' = done
        /\ lost' = (lost \/ step = "failed")
  BY SupervisorTypes DEF Process
<1>3. crossed \/ NonePassed'
  BY <1>1, <1>2 DEF SupervisorInv, NoMessageSkipped, NonePassed
<1>4. /\ offset' \in [Partitions -> Nat] /\ \A p \in Partitions : offset'[p] \in 0..Length[p]
      /\ cancelling' \subseteq Workers
  BY <1>1 DEF SupervisorInv, SupervisorTypeOK
<1>5. Running(w) /\ (step = "stored" => Message(w) \in done') /\ done \subseteq done'
      /\ done' \subseteq done \union {Message(w)}
  BY <1>1, <1>2 DEF Running
<1>6. QED
  BY <1>1, <1>2, <1>3, <1>4, <1>5, TaskGoesOn

\* What a worker commits has been processed, if it commits where its task's message is stored.
LEMMA CommitCovered ==
  ASSUME SupervisorInv, NEW w \in Workers, task[w].step = "stored"
  PROVE  /\ CommittedBy(w) \in [Partitions -> Nat]
         /\ \A p \in Partitions : CommittedBy(w)[p] \in 0..Length[p]
         /\ ~crossed => \A p \in Partitions : \A o \in 0..(CommittedBy(w)[p] - 1) : <<p, o>> \in done
<1>1. /\ \A x \in Workers, p \in Partitions : position[x][p] \in 0..Length[p]
      /\ \A p \in Partitions : offset[p] \in 0..Length[p]
  BY DEF SupervisorInv, SupervisorTypeOK
<1>2. /\ CommittedBy(w) \in [Partitions -> Nat]
      /\ \A p \in Partitions : CommittedBy(w)[p] = IF p \in owned[w] THEN position[w][p] ELSE offset[p]
  BY SupervisorTypes DEF CommittedBy
<1>3. ASSUME NEW p \in Partitions PROVE CommittedBy(w)[p] \in 0..Length[p]
  BY <1>1, <1>2
<1>4. ASSUME ~crossed, NEW p \in Partitions, NEW o \in 0..(CommittedBy(w)[p] - 1) PROVE <<p, o>> \in done
  <2>1. NonePassed /\ PositionsCovered(w) /\ Message(w) \in done
    BY <1>4 DEF SupervisorInv, NoMessageSkipped, Halted, TasksOK
  <2>2. CASE p \in owned[w]
    BY <1>2, <2>1, <2>2 DEF PositionsCovered
  <2>3. CASE p \notin owned[w]
    BY <1>2, <2>1, <2>3 DEF NonePassed
  <2>4. QED
    BY <2>2, <2>3
<1>5. QED
  BY <1>2, <1>3, <1>4

LEMMA AckKeeps ==
  ASSUME SupervisorInv, NEW w \in Workers, AckMessage(w) PROVE SupervisorInv'
<1>1. /\ task[w].step = "stored" /\ w \notin cancelling
      /\ UNCHANGED <<phase, stopAsked, startFailed, awaited, crossed, owned, position, members, joined, rebalances,
                     revoking, closing, failure, executions, revoked, cancelling, done>>
  BY DEF AckMessage, runVars, groupVars
<1>2. PICK step \in {"acked", "failed"} :
        /\ Ended(w, step)
        /\ step = "acked" => offset' = CommittedBy(w)
        /\ step # "acked" => offset' = offset
        /\ lost' = (lost \/ step = "failed")
  BY SupervisorTypes DEF AckMessage
<1>3. /\ CommittedBy(w) \in [Partitions -> Nat]
      /\ \A p \in Partitions : CommittedBy(w)[p] \in 0..Length[p]
      /\ ~crossed => \A p \in Partitions : \A o \in 0..(CommittedBy(w)[p] - 1) : <<p, o>> \in done
  BY <1>1, CommitCovered
<1>4. /\ offset \in [Partitions -> Nat] /\ \A p \in Partitions : offset[p] \in 0..Length[p]
      /\ cancelling \subseteq Workers
      /\ ~crossed => \A p \in Partitions : \A o \in 0..(offset[p] - 1) : <<p, o>> \in done
  BY DEF SupervisorInv, SupervisorTypeOK, NoMessageSkipped, NonePassed
<1>5. offset' \in {offset, CommittedBy(w)}
  BY <1>2
<1>6. crossed \/ NonePassed'
  BY <1>1, <1>3, <1>4, <1>5 DEF NonePassed
<1>7. /\ offset' \in [Partitions -> Nat] /\ \A p \in Partitions : offset'[p] \in 0..Length[p]
      /\ cancelling' \subseteq Workers
  BY <1>1, <1>3, <1>4, <1>5
<1>8. Running(w) /\ Message(w) \in done'
  BY <1>1 DEF Running, SupervisorInv, TasksOK
<1>9. QED
  BY <1>1, <1>2, <1>6, <1>7, <1>8, TaskGoesOn

LEMMA CancelledKeeps ==
  ASSUME SupervisorInv, NEW w \in Workers, Cancelled(w) PROVE SupervisorInv'
<1>1. /\ w \in cancelling /\ cancelling' = cancelling \ {w} /\ Ended(w, "cancelled")
      /\ done' \in {done, done \union {Message(w)}}
      /\ offset' \in {offset} \union
           (IF task[w].step = "stored" /\ w \in members THEN {CommittedBy(w)} ELSE {})
      /\ UNCHANGED <<phase, stopAsked, startFailed, awaited, crossed, owned, position, members, joined, rebalances,
                     revoking, closing, failure, executions, revoked, lost>>
  BY DEF Cancelled, runVars, groupVars
<1>2. Running(w) /\ cancelling \subseteq Workers
  BY <1>1 DEF SupervisorInv, TasksOK, SupervisorTypeOK
<1>3. /\ offset \in [Partitions -> Nat] /\ \A p \in Partitions : offset[p] \in 0..Length[p]
      /\ ~crossed => \A p \in Partitions : \A o \in 0..(offset[p] - 1) : <<p, o>> \in done
  BY DEF SupervisorInv, SupervisorTypeOK, NoMessageSkipped, NonePassed
<1>4. /\ offset' \in [Partitions -> Nat] /\ \A p \in Partitions : offset'[p] \in 0..Length[p]
      /\ ~crossed => \A p \in Partitions : \A o \in 0..(offset'[p] - 1) : <<p, o>> \in done
  <2>1. CASE offset' = offset
    BY <1>3, <2>1
  <2>2. CASE offset' = CommittedBy(w) /\ task[w].step = "stored"
    BY <2>2, CommitCovered
  <2>3. QED
    BY <1>1, <2>1, <2>2
<1>5. done \subseteq done' /\ done' \subseteq done \union {Message(w)}
  BY <1>1
<1>6. crossed \/ NonePassed'
  BY <1>4, <1>5 DEF NonePassed
<1>7. lost' = (lost \/ "cancelled" = "failed")
  BY <1>1, SupervisorTypes
<1>8. /\ cancelling' \subseteq Workers /\ w \notin cancelling'
      /\ \A x \in Workers : x # w => (x \in cancelling' <=> x \in cancelling)
  BY <1>1, <1>2
<1>9. QED
  BY <1>1, <1>2, <1>4, <1>5, <1>6, <1>7, <1>8, TaskGoesOn

LEMMA FinishKeeps ==
  ASSUME SupervisorInv, NEW w \in Workers, FinishHandle(w) PROVE SupervisorInv'
<1> DEFINE fails == task[w].step = "failed" \/ (task[w].step = "cancelled" /\ w \notin revoked /\ ~closing)
<1>1. /\ task[w].step \in {"acked", "failed", "cancelled"}
      /\ IF fails THEN failure' = TRUE /\ closing' = TRUE ELSE UNCHANGED <<closing, failure>>
      /\ revoked' = revoked \ {w}
      /\ executions' = [p \in Partitions |->
           IF p = task[w].partition /\ executions[p] = w THEN NoWorker ELSE executions[p]]
      /\ task' = [task EXCEPT ![w] = NoTask]
      /\ revoking' = [x \in Workers |-> IF revoking[x] = NotNow THEN NotNow ELSE revoking[x] \ {w}]
      /\ awaited' = awaited \ {w}
      /\ UNCHANGED <<phase, stopAsked, startFailed, crossed, cancelling, owned, position, members, joined,
                     rebalances, offset, done, lost>>
  BY DEF FinishHandle, Fail
<1>2. /\ task' \in [Workers -> Task] /\ \A x \in Workers : task'[x] = IF x = w THEN NoTask ELSE task[x]
      /\ NoTask.step = "none"
  BY <1>1, NoTaskIsTask, SupervisorTypes
<1>3. /\ executions' \in [Partitions -> Workers \union {NoWorker}]
      /\ \A p \in Partitions : executions'[p] = executions[p] \/ executions'[p] = NoWorker
      /\ executions[task[w].partition] = w => executions'[task[w].partition] = NoWorker
  BY <1>1, SupervisorTypes, TaskFields
<1>4. /\ closing' \in BOOLEAN /\ failure' \in BOOLEAN /\ (closing => closing') /\ (failure => failure')
      /\ fails => closing' /\ failure'
  BY <1>1, SupervisorTypes
<1> HIDE DEF fails
<1>5. ASSUME NEW x \in Workers
      PROVE  /\ revoking'[x] = IF revoking[x] = NotNow THEN NotNow ELSE revoking[x] \ {w}
             /\ revoking[x] # NotNow => revoking[x] \subseteq Workers /\ revoking'[x] # NotNow
             /\ revoking'[x] \in (SUBSET Workers) \union {NotNow}
  <2>1. revoking'[x] = IF revoking[x] = NotNow THEN NotNow ELSE revoking[x] \ {w}
    BY <1>1
  <2>2. revoking[x] # NotNow => revoking[x] \subseteq Workers /\ revoking'[x] # NotNow
    BY <2>1, TaskFields, SupervisorTypes DEF NotNow
  <2>3. QED
    BY <2>1, <2>2, TaskFields
<1>6. SupervisorTypeOK'
  <2>1. revoking' \in [Workers -> (SUBSET Workers) \union {NotNow}]
    BY <1>1, <1>5
  <2>2. awaited' \subseteq Workers /\ revoked' \subseteq Workers
    BY <1>1, SupervisorTypes
  <2>3. QED
    BY <1>1, <1>2, <1>3, <1>4, <2>1, <2>2 DEF SupervisorInv, SupervisorTypeOK
<1>7. TasksOK'
  <2>1. TasksOK
    BY DEF SupervisorInv
  <2>2. ASSUME NEW x \in Workers, x \in cancelling' PROVE Running(x)'
    <3>1. x # w
      BY <1>1, <2>1, <2>2 DEF TasksOK, Running
    <3>2. QED
      BY <1>1, <1>2, <2>1, <2>2, <3>1 DEF TasksOK, Running
  <2>3. ASSUME NEW x \in Workers, task'[x].step \in {"stored", "acked"} PROVE Message(x)' \in done'
    BY <1>1, <1>2, <2>1, <2>3 DEF TasksOK, Message
  <2>4. ASSUME NEW x \in Workers, ~crossed', x \in revoked' PROVE x \in revoking'[x]
    <3>1. x # w /\ x \in revoking[x] /\ x # NoWorker
      BY <1>1, <2>1, <2>4, SupervisorTypes DEF TasksOK
    <3>2. revoking[x] # NotNow
      BY <3>1 DEF NotNow
    <3>3. QED
      BY <1>5, <3>1, <3>2
  <2>5. QED
    BY <2>2, <2>3, <2>4 DEF TasksOK
<1>8. DrainOK'
  <2>1. DrainOK
    BY DEF SupervisorInv
  <2>2. phase' \in {"closing", "draining", "exited"} => closing'
    BY <1>1, <1>4, <2>1 DEF DrainOK
  <2>3. ASSUME phase' \in {"draining", "exited"}, NEW x \in Workers, task'[x].step # "none",
               executions'[task'[x].partition] = x
        PROVE  phase' = "draining" /\ x \in awaited'
    <3>1. x # w /\ task'[x] = task[x]
      BY <1>2, <2>3
    <3>2. executions[task[x].partition] = x
      BY <1>3, <2>3, <3>1, TaskFields
    <3>3. QED
      BY <1>1, <2>1, <2>3, <3>1, <3>2 DEF DrainOK
  <2>4. ASSUME lost' PROVE failure' \/ \E x \in Workers : task'[x].step = "failed"
    <3>1. failure \/ \E x \in Workers : task[x].step = "failed"
      BY <1>1, <2>1, <2>4 DEF DrainOK
    <3>2. CASE failure
      BY <1>4, <3>2
    <3>3. CASE task[w].step = "failed"
      BY <1>4, <3>3 DEF fails
    <3>4. CASE \E x \in Workers \ {w} : task[x].step = "failed"
      BY <1>2, <3>4
    <3>5. QED
      BY <3>1, <3>2, <3>3, <3>4
  <2>5. QED
    BY <2>2, <2>3, <2>4 DEF DrainOK
<1>9. NoMessageSkipped'
  BY <1>1 DEF SupervisorInv, NoMessageSkipped, NonePassed
<1>10. ASSUME ~crossed, NEW x \in Workers, PositionsCovered(x) \/ Halted(x) PROVE (PositionsCovered(x) \/ Halted(x))'
  <2>1. CASE x = w /\ task[w].step = "acked"
    <3>1. PositionsCovered(w) /\ Message(w) \in done
      BY <1>10, <2>1 DEF Halted, SupervisorInv, TasksOK
    <3>2. QED
      BY <1>1, <2>1, <3>1 DEF PositionsCovered
  <2>2. CASE x = w /\ (closing \/ task[w].step = "failed" \/ (task[w].step = "cancelled" /\ w \notin revoked))
    <3>1. closing'
      BY <1>4, <2>2, SupervisorTypes DEF fails
    <3>2. QED
      BY <1>2, <2>2, <3>1 DEF Halted
  <2>3. CASE x = w /\ w \in revoked
    <3>1. w \in revoking[w] /\ w # NoWorker
      BY <1>10, <2>3, SupervisorTypes DEF SupervisorInv, TasksOK
    <3>2. revoking'[w] # NotNow
      BY <1>5, <3>1 DEF NotNow
    <3>3. QED
      BY <1>2, <2>3, <3>2 DEF Halted
  <2>4. CASE x # w /\ PositionsCovered(x)
    BY <1>1, <1>2, <2>4 DEF PositionsCovered, Message
  <2>5. CASE x # w /\ Halted(x)
    BY <1>1, <1>2, <1>4, <1>5, <2>5 DEF Halted
  <2>6. QED
    BY <1>1, <1>10, <2>1, <2>2, <2>3, <2>4, <2>5
<1>11. QED
  BY <1>1, <1>6, <1>7, <1>8, <1>9, <1>10, SupervisorTypes DEF SupervisorInv

LEMMA SupervisorSteps ==
  ASSUME SupervisorInv, [SupervisorNext]_supervisorVars PROVE SupervisorInv'
<1>1. CASE UNCHANGED supervisorVars
  <2>1. UNCHANGED <<phase, stopAsked, closing, failure, startFailed, executions, revoked, cancelling, awaited, task,
                    revoking, owned, position, members, joined, rebalances, offset, done, lost, crossed>>
    BY <1>1 DEF supervisorVars
  <2>2. SupervisorTypeOK' /\ DrainOK' /\ \A w \in cancelling' : Running(w)
    BY <2>1 DEF SupervisorInv, SupervisorTypeOK, DrainOK, TasksOK
  <2>3. QED
    BY <2>1, <2>2, SupervisorRests
<1>2. ASSUME NEW w \in Workers, WorkerStep(w) PROVE SupervisorInv'
  BY <1>2, HandleKeeps, RejectKeeps, ProcessKeeps, AckKeeps, CancelledKeeps, FinishKeeps DEF WorkerStep
<1>3. CASE RunStep \/ Rebalance \/ \E w \in Workers : SessionEnds(w)
  BY <1>3, RunKeeps, GroupRests
<1>4. QED
  BY <1>1, <1>2, <1>3, AssignKeeps, RevokeKeeps, JoinKeeps DEF SupervisorNext

\* Where the process ends, the drain has waited for what it could find, and every failure shows.
LEMMA ExecutionsEnded == SupervisorInv => ExecutionsEndFirst
<1> SUFFICES ASSUME SupervisorInv, phase = "exited" PROVE ExecutionsEndFirst
  BY DEF ExecutionsEndFirst
<1>1. DrainOK
  BY DEF SupervisorInv
<1>2. \A w \in Workers : task[w].step # "none" => executions[task[w].partition] # w
  BY <1>1 DEF DrainOK
<1>3. lost => failure \/ \E w \in Workers : task[w].step # "none"
  BY <1>1 DEF DrainOK
<1>4. QED
  BY <1>2, <1>3 DEF ExecutionsEndFirst, ExitFails

-----------------------------------------------------------------------------
(* The reports: proofs *)

\* What a report has.
Report == [start : Int, end : 0..LastInstant, read : Nat]

LEMMA ReportFields == \A r \in Report : r.end \in 0..LastInstant /\ r.read \in Nat
BY DEF Report

LEMMA ReportsTypes ==
  ASSUME ReportsInv
  PROVE  /\ now \in 0..LastInstant /\ LastInstant \in Nat /\ MaxLines \in Nat
         /\ hand \in [Hooks -> Line \union {Null}] /\ log \in Seq(Line) /\ Len(log) \in Nat
         /\ IsFiniteSet(Stamped) /\ Cardinality(Stamped) \in Nat
         /\ Len(log) + Cardinality(Stamped) <= MaxLines
         /\ reports \in Seq(Report) /\ \A i \in DOMAIN reports : reports[i] \in Report
         /\ asked \in [start : Int, end : 0..LastInstant] \union {Null}
         /\ \A i \in DOMAIN reports : reports[i].read <= Len(log) /\ reports[i].start < reports[i].end
         /\ asked # Null => asked.start < asked.end
<1>1. LastInstant \in Nat /\ MaxLines \in Nat /\ IsFiniteSet(Hooks)
  BY ReportsAssumption
<1>2. IsFiniteSet(Stamped) /\ Cardinality(Stamped) \in Nat
  BY <1>1, FS_Subset, FS_CardinalityType DEF Stamped
<1>3. ReportsTypeOK
  BY DEF ReportsInv
<1>4. Len(log) \in Nat
  BY <1>3 DEF ReportsTypeOK
<1>5. reports \in Seq(Report)
  BY DEF ReportsInv, Report
<1>6. \A i \in DOMAIN reports : reports[i] \in Report
  BY <1>5
<1>7. QED
  BY <1>1, <1>2, <1>3, <1>4, <1>5, <1>6 DEF ReportsInv, ReportsTypeOK

LEMMA ReportsStart == ReportsInit => ReportsInv
<1> SUFFICES ASSUME ReportsInit PROVE ReportsInv
  OBVIOUS
<1>1. now = 0 /\ log = <<>> /\ asked = Null /\ reports = <<>> /\ hand = [h \in Hooks |-> Null]
  BY DEF ReportsInit
<1>2. Len(log) = 0 /\ log \in Seq(Line) /\ reports \in Seq([start : Int, end : 0..LastInstant, read : Nat])
      /\ DOMAIN reports = {}
  BY <1>1
<1>3. Stamped = {} /\ Cardinality(Stamped) = 0
  BY <1>1, FS_EmptySet DEF Stamped
<1>4. 0 \in 0..LastInstant /\ 0 + 0 <= MaxLines /\ 0 <= MaxLines
  BY ReportsAssumption
<1>5. ReportsTypeOK
  BY <1>1, <1>2, <1>4 DEF ReportsTypeOK
<1>6. EventsKnown /\ ReportsFollow
  BY <1>1, <1>2, <1>3 DEF EventsKnown, ReportsFollow
<1>7. QED
  BY <1>1, <1>2, <1>3, <1>4, <1>5, <1>6 DEF ReportsInv

LEMMA StampKeeps ==
  ASSUME ReportsInv, NEW h \in Hooks, NEW facts \in SUBSET Facts, \A f \in facts : f.event \in Events,
         StampLine(h, facts)
  PROVE  ReportsInv'
<1>1. PICK fact \in facts : hand' = [hand EXCEPT ![h] = [at |-> now, fact |-> fact]]
  BY DEF StampLine
<1>2. /\ hand[h] = Null /\ Len(log) + Cardinality(Stamped) < MaxLines
      /\ UNCHANGED <<now, log, asked, reports>>
  BY DEF StampLine, Stamped
<1>3. [at |-> now, fact |-> fact] \in Line
  BY ReportsTypes DEF Line
<1>4. hand' \in [Hooks -> Line \union {Null}] /\ \A g \in Hooks : g # h => hand'[g] = hand[g]
  BY <1>1, <1>3, ReportsTypes
<1>5. Stamped' \subseteq Stamped \union {h}
  BY <1>4 DEF Stamped
<1>6. Cardinality(Stamped') <= Cardinality(Stamped) + 1 /\ Cardinality(Stamped') \in Nat
  <2>1. /\ IsFiniteSet(Stamped \union {h}) /\ Cardinality(Stamped \union {h}) <= Cardinality(Stamped) + 1
        /\ Cardinality(Stamped \union {h}) \in Nat
    <3>1. IsFiniteSet(Stamped) /\ Cardinality(Stamped) \in Nat
      BY ReportsTypes
    <3>2. /\ IsFiniteSet(Stamped \union {h})
          /\ Cardinality(Stamped \union {h}) = IF h \in Stamped THEN Cardinality(Stamped) ELSE Cardinality(Stamped) + 1
      BY <3>1, FS_AddElement
    <3>3. QED
      BY <3>1, <3>2
  <2>2. Stamped' \in SUBSET (Stamped \union {h})
    BY <1>5
  <2>3. IsFiniteSet(Stamped') /\ Cardinality(Stamped') <= Cardinality(Stamped \union {h})
    BY <2>1, <2>2, FS_Subset
  <2>4. Cardinality(Stamped') \in Nat
    BY <2>3, FS_CardinalityType
  <2>5. QED
    BY <2>1, <2>3, <2>4, ReportsTypes
<1>7. Len(log') + Cardinality(Stamped') <= MaxLines
  BY <1>2, <1>6, ReportsTypes
<1>8. EventsKnown'
  <2>1. hand'[h] = [at |-> now, fact |-> fact] /\ fact.event \in Events
    BY <1>1, ReportsTypes
  <2>2. \A g \in Stamped' : g = h \/ (g \in Stamped /\ hand'[g] = hand[g])
    BY <1>4 DEF Stamped
  <2>3. QED
    BY <1>2, <2>1, <2>2 DEF ReportsInv, EventsKnown
<1>9. ReportsFollow'
  BY <1>2 DEF ReportsInv, ReportsFollow
<1>10. QED
  BY <1>2, <1>4, <1>7, <1>8, <1>9 DEF ReportsInv, ReportsTypeOK

LEMMA AppendKeeps ==
  ASSUME ReportsInv, NEW h \in Hooks, AppendLine(h) PROVE ReportsInv'
<1>1. /\ hand[h] # Null /\ log' \in {log, Append(log, hand[h])} /\ hand' = [hand EXCEPT ![h] = Null]
      /\ UNCHANGED <<now, asked, reports>>
  BY DEF AppendLine
<1>2. hand[h] \in Line
  BY <1>1, ReportsTypes
<1>3. log' \in Seq(Line) /\ Len(log') \in Nat /\ Len(log) <= Len(log') /\ Len(log') <= Len(log) + 1
  <2>1. log \in Seq(Line) /\ Len(log) \in Nat
    BY ReportsTypes
  <2>2. CASE log' = log
    BY <2>1, <2>2
  <2>3. CASE log' = Append(log, hand[h])
    <3>1. log' \in Seq(Line) /\ Len(log') = Len(log) + 1
      BY <1>2, <2>1, <2>3
    <3>2. QED
      BY <2>1, <3>1
  <2>4. QED
    BY <1>1, <2>2, <2>3
<1>4. hand' \in [Hooks -> Line \union {Null}] /\ Stamped' = Stamped \ {h} /\ h \in Stamped
  BY <1>1, ReportsTypes DEF Stamped
<1>5. Cardinality(Stamped') = Cardinality(Stamped) - 1
  BY <1>4, ReportsTypes, FS_RemoveElement
<1>6. Len(log') + Cardinality(Stamped') <= MaxLines /\ Len(log') <= MaxLines
  <2>1. Cardinality(Stamped') \in Nat
    BY <1>4, ReportsTypes, FS_RemoveElement, FS_CardinalityType
  <2>2. QED
    BY <1>3, <1>5, <2>1, ReportsTypes
<1>7. ASSUME NEW i \in DOMAIN reports PROVE reports[i].read <= Len(log')
  <2>1. reports[i].read \in Nat
    BY ReportsTypes, ReportFields
  <2>2. reports[i].read <= Len(log)
    BY ReportsTypes
  <2>3. QED
    BY <1>3, <2>1, <2>2, ReportsTypes
<1>8. EventsKnown'
  <2>1. log \in Seq(Line) /\ Len(log) \in Nat
    BY ReportsTypes
  <2>2. \A i \in DOMAIN log' : (i \in DOMAIN log /\ log'[i] = log[i]) \/ log'[i] = hand[h]
    BY <1>1, <1>2, <2>1
  <2>3. \A g \in Stamped' : g \in Stamped /\ hand'[g] = hand[g]
    BY <1>1, <1>4, ReportsTypes
  <2>4. QED
    BY <1>4, <2>2, <2>3 DEF ReportsInv, EventsKnown
<1>9. ReportsFollow'
  BY <1>1 DEF ReportsInv, ReportsFollow
<1>10. QED
  BY <1>1, <1>3, <1>4, <1>6, <1>7, <1>8, <1>9 DEF ReportsInv, ReportsTypeOK

LEMMA AskKeeps ==
  ASSUME ReportsInv, AskReport PROVE ReportsInv'
<1> DEFINE start == IF reports = <<>> THEN -1 ELSE Last(reports).end
<1>1. PICK end \in (start + 1)..now : asked' = [start |-> start, end |-> end]
  BY DEF AskReport
<1>2. UNCHANGED <<now, hand, log, reports>>
  BY DEF AskReport
<1>3. start \in Int /\ start >= -1
  <2>1. CASE reports = <<>>
    BY <2>1
  <2>2. CASE reports # <<>>
    <3>1. Last(reports) \in Report
      BY <2>2, ReportsTypes DEF Last
    <3>2. Last(reports).end \in 0..LastInstant
      BY <3>1, ReportFields
    <3>3. QED
      BY <2>2, <3>2, ReportsTypes
  <2>3. QED
    BY <2>1, <2>2
<1> HIDE DEF start
<1>4. end \in 0..LastInstant /\ start < end
  BY <1>3, ReportsTypes
<1>5. asked' \in [start : Int, end : 0..LastInstant] /\ asked'.start < asked'.end
  BY <1>1, <1>3, <1>4
<1>6. Stamped' = Stamped
  BY <1>2 DEF Stamped
<1>7. EventsKnown'
  BY <1>2, <1>6 DEF ReportsInv, EventsKnown
<1>8. ReportsFollow'
  <2>1. asked'.start = start
    BY <1>1
  <2>2. QED
    BY <1>2, <2>1 DEF ReportsInv, ReportsFollow, start
<1>9. QED
  BY <1>2, <1>5, <1>6, <1>7, <1>8 DEF ReportsInv, ReportsTypeOK

\* A new report's window follows the last one's.
LEMMA WriteFollows ==
  ASSUME ReportsInv, WriteReport PROVE ReportsFollow'
<1> DEFINE report == [start |-> asked.start, end |-> asked.end, read |-> Len(log)]
           N == Len(reports)
<1>1. asked # Null /\ reports' = Append(reports, report) /\ asked' = Null
  BY DEF WriteReport
<1>2. /\ asked.start = IF reports = <<>> THEN -1 ELSE Last(reports).end
      /\ \A n \in 1..N : reports[n].start = IF n = 1 THEN -1 ELSE reports[n-1].end
      /\ \A n, m \in 1..N : n < m => reports[n].end <= reports[m].start /\ reports[n].read <= reports[m].read
  <2>1. reports \in Seq(Report)
    BY ReportsTypes
  <2>2. DOMAIN reports = 1..N
    BY <2>1
  <2>3. ReportsFollow
    BY DEF ReportsInv
  <2> HIDE DEF N
  <2>4. QED
    BY <1>1, <2>2, <2>3 DEF ReportsFollow
<1>3. /\ reports \in Seq(Report) /\ N \in Nat /\ Len(log) \in Nat
      /\ \A n \in 1..N : /\ reports[n].end \in Int /\ reports[n].read \in Int /\ reports[n].start \in Int
                         /\ reports[n].read <= Len(log) /\ reports[n].start < reports[n].end
  <2>1. reports \in Seq(Report) /\ \A n \in 1..N : reports[n] \in Report
    BY ReportsTypes
  <2>2. QED
    BY <2>1, ReportsTypes DEF Report
<1>4. report.start = asked.start /\ report.end = asked.end /\ report.read = Len(log)
  OBVIOUS
<1> HIDE DEF report, N
<1>5. /\ DOMAIN reports' = 1..(N + 1) /\ reports'[N + 1] = report
      /\ \A n \in 1..N : reports'[n] = reports[n]
  BY <1>1, <1>3 DEF N
<1>6. reports # <<>> => N >= 1 /\ Last(reports) = reports[N]
  BY <1>3 DEF N, Last
<1>7. asked.start = IF N = 0 THEN -1 ELSE reports[N].end
  <2>1. reports = <<>> <=> N = 0
    BY <1>3 DEF N
  <2>2. QED
    BY <1>2, <1>6, <2>1
<1>8. ASSUME NEW n \in 1..(N + 1) PROVE reports'[n].start = IF n = 1 THEN -1 ELSE reports'[n-1].end
  <2>1. CASE n = N + 1
    <3>1. n - 1 = N /\ (n = 1 <=> N = 0) /\ (N # 0 => N \in 1..N)
      BY <1>3, <2>1
    <3>2. QED
      BY <1>4, <1>5, <1>7, <2>1, <3>1
  <2>2. CASE n \in 1..N
    <3>1. n # 1 => n - 1 \in 1..N
      BY <1>3, <2>2
    <3>2. QED
      BY <1>2, <1>5, <2>2, <3>1
  <2>3. QED
    BY <1>3, <2>1, <2>2
<1>9. ASSUME NEW n \in 1..(N + 1), NEW m \in 1..(N + 1), n < m
      PROVE  reports'[n].end <= reports'[m].start /\ reports'[n].read <= reports'[m].read
  <2>1. n \in 1..N
    BY <1>3, <1>9
  <2>2. CASE m \in 1..N
    BY <1>2, <1>5, <1>9, <2>1, <2>2
  <2>3. CASE m = N + 1
    <3>1. N \in 1..N /\ N # 0
      BY <1>3, <2>1
    <3>2. reports[n].end <= reports[N].end
      <4>1. CASE n = N
        BY <1>3, <3>1, <4>1
      <4>2. CASE n < N
        <5>1. reports[n].end <= reports[N].start /\ reports[N].start < reports[N].end
          BY <1>2, <1>3, <2>1, <3>1, <4>2
        <5>2. QED
          BY <1>3, <2>1, <3>1, <5>1
      <4>3. QED
        BY <1>3, <2>1, <4>1, <4>2
    <3>3. QED
      BY <1>3, <1>4, <1>5, <1>7, <2>1, <2>3, <3>1, <3>2
  <2>4. QED
    BY <1>3, <2>2, <2>3
<1>10. QED
  BY <1>1, <1>5, <1>8, <1>9 DEF ReportsFollow

LEMMA WriteKeeps ==
  ASSUME ReportsInv, WriteReport PROVE ReportsInv'
<1> DEFINE report == [start |-> asked.start, end |-> asked.end, read |-> Len(log)]
<1>1. asked # Null /\ reports' = Append(reports, report) /\ asked' = Null /\ UNCHANGED <<now, hand, log>>
  BY DEF WriteReport
<1>2. report \in Report /\ report.read = Len(log) /\ report.start < report.end
  BY <1>1, ReportsTypes DEF Report
<1>3. reports \in Seq(Report)
  BY ReportsTypes
<1> HIDE DEF report
<1>4. /\ reports' \in Seq(Report)
      /\ \A i \in DOMAIN reports' : (i \in DOMAIN reports /\ reports'[i] = reports[i]) \/ reports'[i] = report
  BY <1>1, <1>2, <1>3
<1>5. \A i \in DOMAIN reports' : reports'[i].read <= Len(log) /\ reports'[i].start < reports'[i].end
  <2>1. Len(log) <= Len(log)
    BY ReportsTypes
  <2>2. QED
    BY <1>2, <1>4, <2>1, ReportsTypes
<1>6. Stamped' = Stamped
  BY <1>1 DEF Stamped
<1>7. EventsKnown'
  BY <1>1, <1>6 DEF ReportsInv, EventsKnown
<1>8. ReportsFollow'
  BY WriteFollows
<1>9. QED
  BY <1>1, <1>4, <1>5, <1>6, <1>7, <1>8 DEF ReportsInv, ReportsTypeOK, Report

LEMMA ReportsSteps ==
  ASSUME ReportsInv, [ReportsNext]_reportVars PROVE ReportsInv'
<1>1. CASE UNCHANGED reportVars
  BY <1>1 DEF reportVars, ReportsInv, ReportsTypeOK, Stamped, EventsKnown, ReportsFollow
<1>2. CASE SecondPasses
  <2>0. now \in 0..LastInstant /\ LastInstant \in Nat
    BY ReportsTypes
  <2>1. now' \in 0..LastInstant /\ UNCHANGED <<hand, log, asked, reports>>
    BY <1>2, <2>0 DEF SecondPasses
  <2>2. QED
    BY <2>1 DEF ReportsInv, ReportsTypeOK, Stamped, EventsKnown, ReportsFollow
<1>3. ASSUME NEW h \in Hooks, StampEdit(h) \/ StampStop(h) \/ StampReview(h) PROVE ReportsInv'
  <2>1. \A event \in Events : Of(event) \in SUBSET Facts /\ \A f \in Of(event) : f.event \in Events
    BY DEF Of
  <2>2. QED
    BY <1>3, <2>1, StampKeeps DEF StampEdit, StampStop, StampReview, Events
<1>4. QED
  BY <1>1, <1>2, <1>3, AppendKeeps, AskKeeps, WriteKeeps DEF ReportsNext

-----------------------------------------------------------------------------
(* Sums *)

\* Total, as the function on sets that the fold is.
LEMMA TotalIsFold ==
  ASSUME NEW counts
  PROVE  Total(counts) =
           (CHOOSE iter : iter = [s \in SUBSET (DOMAIN counts) |->
              IF s = {} THEN 0 ELSE counts[CHOOSE x \in s : TRUE] + iter[s \ {CHOOSE x \in s : TRUE}]])
             [DOMAIN counts]
BY Zenon DEF Total, MapThenSumSet, MapThenFoldSet

\* The sets that a finite set of keys has are as finite together as each is.
LEMMA PartsFinite ==
  ASSUME NEW D, IsFiniteSet(D), NEW parts, \A k \in D : IsFiniteSet(parts[k])
  PROVE  IsFiniteSet(UNION {parts[k] : k \in D})
<1> DEFINE f == [k \in D |-> parts[k]]
           P == {parts[k] : k \in D}
<1>1. f \in Surjection(D, P)
  BY DEF Surjection
<1>2. IsFiniteSet(P)
  BY <1>1, FS_Surjection
<1>3. QED
  BY <1>2, FS_UNION

LEMMA ApartAdd ==
  ASSUME NEW S, NEW T, IsFiniteSet(S), IsFiniteSet(T), S \intersect T = {}
  PROVE  Cardinality(S \union T) = Cardinality(S) + Cardinality(T)
<1>1. Cardinality(S) \in Nat /\ Cardinality(T) \in Nat /\ Cardinality(S \intersect T) = 0
  BY FS_CardinalityType, FS_EmptySet
<1>2. Cardinality(S \union T) = Cardinality(S) + Cardinality(T) - Cardinality(S \intersect T)
  BY FS_Union
<1>3. QED
  BY <1>1, <1>2

\* What keys count of parts that are apart adds up to what there is of all of them.
LEMMA PartsAdd ==
  ASSUME NEW D, IsFiniteSet(D), NEW parts, \A k \in D : IsFiniteSet(parts[k]),
         \A j, k \in D : j # k => parts[j] \intersect parts[k] = {},
         NEW counts, DOMAIN counts = D, \A k \in D : counts[k] = Cardinality(parts[k]),
         NEW U, \A x : x \in U <=> \E k \in D : x \in parts[k]
  PROVE  IsFiniteSet(U) /\ Total(counts) = Cardinality(U)
<1> DEFINE Joint(s) == UNION {parts[k] : k \in s}
           f == [s \in SUBSET D |-> Cardinality(UNION {parts[k] : k \in s})]
           Pick(s) == CHOOSE x \in s : TRUE
           Iterates(g) == g = [s \in SUBSET D |->
              IF s = {} THEN 0 ELSE counts[CHOOSE x \in s : TRUE] + g[s \ {CHOOSE x \in s : TRUE}]]
           iter == CHOOSE g : Iterates(g)
<1>1. U = Joint(D) /\ IsFiniteSet(U)
  <2>1. U = Joint(D)
    OBVIOUS
  <2>2. QED
    BY <2>1, PartsFinite
<1>2. ASSUME NEW s \in SUBSET D, s # {}
      PROVE  f[s] = counts[Pick(s)] + f[s \ {Pick(s)}]
  <2> DEFINE x == Pick(s)
  <2>1. x \in s /\ x \in D
    BY <1>2
  <2> HIDE DEF x
  <2>2. Joint(s) = parts[x] \union Joint(s \ {x}) /\ parts[x] \intersect Joint(s \ {x}) = {}
    BY <2>1
  <2>3. IsFiniteSet(s \ {x})
    <3>1. s \ {x} \in SUBSET D
      OBVIOUS
    <3>2. QED
      BY <3>1, FS_Subset
  <2>4. IsFiniteSet(parts[x]) /\ IsFiniteSet(Joint(s \ {x}))
    BY <2>1, <2>3, PartsFinite
  <2> HIDE DEF Joint
  <2>5. Cardinality(Joint(s)) = Cardinality(parts[x]) + Cardinality(Joint(s \ {x}))
    BY <2>2, <2>4, ApartAdd
  <2>6. f[s] = Cardinality(Joint(s)) /\ f[s \ {x}] = Cardinality(Joint(s \ {x})) /\ counts[x] = Cardinality(parts[x])
    BY <2>1 DEF Joint
  <2>7. QED
    BY <2>5, <2>6 DEF x
<1>3. f[{}] = 0
  <2>1. Joint({}) = {} /\ {} \in SUBSET D
    OBVIOUS
  <2>2. QED
    BY <2>1, FS_EmptySet
<1>4. Iterates(f)
  <2>1. \A s \in SUBSET D :
          f[s] = IF s = {} THEN 0 ELSE counts[CHOOSE x \in s : TRUE] + f[s \ {CHOOSE x \in s : TRUE}]
    BY <1>2, <1>3
  <2>2. f = [s \in SUBSET D |-> f[s]]
    OBVIOUS
  <2> HIDE DEF f
  <2>3. QED
    BY <2>1, <2>2
<1>5. Iterates(iter)
  BY <1>4
<1>6. Total(counts) = iter[D]
  BY Zenon, TotalIsFold
<1> HIDE DEF f, Joint, iter
<1>7. \A s \in SUBSET D : IsFiniteSet(s) /\ Cardinality(s) \in Nat
  <2>1. \A s \in SUBSET D : IsFiniteSet(s)
    BY FS_Subset
  <2>2. QED
    BY <2>1, FS_CardinalityType
<1> DEFINE T == {n \in Nat : \A s \in SUBSET D : Cardinality(s) < n => iter[s] = f[s]}
           N == Cardinality(D) + 1
<1>8. 1 \in T
  <2>1. ASSUME NEW s \in SUBSET D, Cardinality(s) < 1 PROVE iter[s] = f[s]
    <3>1. s = {}
      BY <1>7, <2>1, FS_EmptySet
    <3>2. QED
      BY <1>3, <1>5, <3>1
  <2>2. QED
    BY <2>1
<1>9. ASSUME NEW n \in 1..N, n \in T PROVE n + 1 \in T
  <2>1. ASSUME NEW s \in SUBSET D, Cardinality(s) < n + 1 PROVE iter[s] = f[s]
    <3>1. CASE s = {}
      BY <1>3, <1>5, <3>1
    <3>2. CASE s # {}
      <4>1. Pick(s) \in s /\ s \ {Pick(s)} \in SUBSET D
        BY <3>2
      <4>2. Cardinality(s \ {Pick(s)}) = Cardinality(s) - 1
        BY <1>7, <4>1, FS_RemoveElement
      <4>3. iter[s \ {Pick(s)}] = f[s \ {Pick(s)}]
        BY <1>7, <1>9, <2>1, <4>1, <4>2
      <4>4. iter[s] = counts[Pick(s)] + iter[s \ {Pick(s)}]
        BY <1>5, <3>2
      <4>5. QED
        BY <1>2, <3>2, <4>3, <4>4
    <3>3. QED
      BY <3>1, <3>2
  <2>2. QED
    BY <2>1
<1>10. N \in Nat /\ Cardinality(D) < N /\ N \in 1..N
  BY FS_CardinalityType
<1>11. N \in T
  <2> HIDE DEF T, N
  <2>1. QED
    BY <1>8, <1>9, <1>10, Upwards
<1>12. iter[D] = f[D]
  BY <1>10, <1>11
<1>13. QED
  BY <1>1, <1>6, <1>12 DEF f, Joint

-----------------------------------------------------------------------------
(* What a report counts *)

\* Records as a report reads them: what hooks may say, each with a place of its own.
Readings(R) ==
  /\ IsFiniteSet(R)
  /\ \A r \in R : r.fact \in Facts /\ r.at \in Int /\ r.order \in Int
  /\ \A r, q \in R : r.order = q.order => r = q

LEMMA SomeReadings == \A R, S : Readings(R) /\ S \subseteq R => Readings(S)
<1> SUFFICES ASSUME NEW R, NEW S, Readings(R), S \subseteq R PROVE Readings(S)
  OBVIOUS
<1>1. IsFiniteSet(S)
  BY FS_Subset DEF Readings
<1>2. QED
  BY <1>1 DEF Readings

\* Of a set of records, the order of time has each of them, in its place.
LEMMA InTimeSorts ==
  ASSUME NEW S, Readings(S)
  PROVE  LET o == InTime(S)
         IN  /\ o \in Seq(S) /\ Len(o) = Cardinality(S) /\ Cardinality(S) \in Nat
             /\ ToSet(o) = S
             /\ \A i, j \in DOMAIN o : i < j => Sooner(o[i], o[j])
<1> DEFINE rel == {p \in S \X S : Sooner(p[1], p[2])}
<1>1. \A x, y \in S : <<x, y>> \in rel <=> Sooner(x, y)
  OBVIOUS
<1>2. InTime(S) = ByRank(S, Ranks(S, rel))
  <2>1. \A x \in S : {y \in S : ~Sooner(x, y)} = {y \in S : <<x, y>> \notin rel}
    BY <1>1
  <2> HIDE DEF rel
  <2>2. [x \in S |-> Cardinality({y \in S : ~Sooner(x, y)})] = Ranks(S, rel)
    BY <2>1 DEF Ranks
  <2>3. QED
    BY <2>2 DEF InTime, ByRank
<1> HIDE DEF rel
<1>3. /\ IsFiniteSet(S)
      /\ \A x \in S : <<x, x>> \notin rel
      /\ \A x, y \in S : x # y => <<x, y>> \in rel \/ <<y, x>> \in rel
      /\ \A x, y, z \in S : <<x, y>> \in rel /\ <<y, z>> \in rel => <<x, z>> \in rel
  <2>1. \A x \in S : ~Sooner(x, x)
    BY DEF Readings, Sooner
  <2>2. \A x, y \in S : x # y => Sooner(x, y) \/ Sooner(y, x)
    <3>1. \A x, y \in S : x # y => x.order # y.order
      BY DEF Readings
    <3>2. QED
      BY <3>1 DEF Readings, Sooner
  <2>3. \A x, y, z \in S : Sooner(x, y) /\ Sooner(y, z) => Sooner(x, z)
    BY DEF Readings, Sooner
  <2>4. QED
    BY <1>1, <2>1, <2>2, <2>3 DEF Readings
<1>4. LET o == ByRank(S, Ranks(S, rel))
      IN  /\ o \in Seq(S) /\ Len(o) = Cardinality(S) /\ Cardinality(S) \in Nat
          /\ ToSet(o) = S
          /\ \A i, j \in DOMAIN o : i < j => <<o[i], o[j]>> \in rel
  BY <1>3, OrderedSet
<1>5. \A i \in DOMAIN InTime(S) : InTime(S)[i] \in S
  BY <1>2, <1>4
<1>6. QED
  BY <1>1, <1>2, <1>4, <1>5

\* What lines have for an event and a result
ResultKeys == {<<f.event, f.result>> : f \in Facts}

\* The keys of what a report tells are as many as the facts at most.
LEMMA KeysFinite ==
  /\ IsFiniteSet(ResultKeys) /\ IsFiniteSet(Models) /\ IsFiniteSet({f.rev : f \in Facts})
  /\ IsFiniteSet(Kinds)
<1>1. IsFiniteSet(Facts)
  BY ReportsAssumption
<1>2. [f \in Facts |-> <<f.event, f.result>>] \in Surjection(Facts, ResultKeys)
  BY DEF Surjection, ResultKeys
<1>3. [f \in Facts |-> f.model] \in Surjection(Facts, Models)
  BY DEF Surjection, Models
<1>4. [f \in Facts |-> f.rev] \in Surjection(Facts, {f.rev : f \in Facts})
  BY DEF Surjection
<1>5. IsFiniteSet(Kinds)
  <2>1. Kinds = {} \union {"interactive"} \union {"non_interactive"} \union {"unknown"}
    BY DEF Kinds
  <2>2. IsFiniteSet({}) /\ IsFiniteSet({} \union {"interactive"})
        /\ IsFiniteSet({} \union {"interactive"} \union {"non_interactive"})
    BY FS_EmptySet, FS_AddElement
  <2>3. QED
    BY <2>1, <2>2, FS_AddElement
<1>6. IsFiniteSet(ResultKeys)
  BY ONLY <1>1, <1>2, FS_Surjection
<1>7. IsFiniteSet(Models)
  BY ONLY <1>1, <1>3, FS_Surjection
<1>8. IsFiniteSet({f.rev : f \in Facts})
  BY ONLY <1>1, <1>4, FS_Surjection
<1>9. QED
  BY <1>5, <1>6, <1>7, <1>8

\* The lines of sessions with an event and a result
WithResult(R, k) == {r \in OfSessions(R) : <<r.fact.event, r.fact.result>> = k}

LEMMA ResultsCounted ==
  ASSUME NEW R, Readings(R)
  PROVE  /\ DOMAIN ResultCounts(R) = ResultKeys
         /\ \A k \in ResultKeys : ResultCounts(R)[k] = Cardinality(WithResult(R, k)) /\ IsFiniteSet(WithResult(R, k))
<1>1. \A k : WithResult(R, k) \subseteq R
  BY DEF WithResult, OfSessions
<1>2. \A k : IsFiniteSet(WithResult(R, k))
  BY <1>1, FS_Subset DEF Readings
<1>3. ResultCounts(R) = [k \in ResultKeys |-> Cardinality(WithResult(R, k))]
  BY Zenon DEF ResultCounts, ResultKeys, WithResult
<1>4. QED
  BY <1>2, <1>3

\* The results of records count those of sessions.
LEMMA ResultsAdd ==
  ASSUME NEW R, Readings(R)
  PROVE  Total(ResultCounts(R)) = Cardinality(OfSessions(R)) /\ IsFiniteSet(OfSessions(R))
<1> DEFINE parts == [k \in ResultKeys |-> WithResult(R, k)]
<1>1. \A k \in ResultKeys : ResultCounts(R)[k] = Cardinality(parts[k]) /\ IsFiniteSet(parts[k])
  BY ResultsCounted
<1>2. DOMAIN ResultCounts(R) = ResultKeys
  BY ResultsCounted
<1>3. \A j, k \in ResultKeys : j # k => parts[j] \intersect parts[k] = {}
  BY DEF WithResult
<1>4. \A x : x \in OfSessions(R) <=> \E k \in ResultKeys : x \in parts[k]
  BY DEF WithResult, OfSessions, ResultKeys, Readings
<1> HIDE DEF parts
<1>5. QED
  BY <1>1, <1>2, <1>3, <1>4, KeysFinite, PartsAdd

\* What is told of each part of the records adds up to what is told of all of them.
LEMMA ResultsOfParts ==
  ASSUME NEW R, Readings(R), NEW D, IsFiniteSet(D), NEW parts,
         \A r : r \in R <=> \E d \in D : r \in parts[d],
         \A i, j \in D : i # j => parts[i] \intersect parts[j] = {},
         NEW k \in ResultKeys, NEW counts, DOMAIN counts = D,
         \A d \in D : counts[d] = ResultCounts(parts[d])[k]
  PROVE  Total(counts) = ResultCounts(R)[k]
<1> DEFINE those == [d \in D |-> WithResult(parts[d], k)]
<1>1. \A d \in D : Readings(parts[d])
  BY SomeReadings
<1>2. \A d \in D : counts[d] = Cardinality(those[d]) /\ IsFiniteSet(those[d])
  BY <1>1, ResultsCounted
<1>3. \A i, j \in D : i # j => those[i] \intersect those[j] = {}
  BY DEF WithResult, OfSessions
<1>4. \A x : x \in WithResult(R, k) <=> \E d \in D : x \in those[d]
  BY DEF WithResult, OfSessions
<1> HIDE DEF those
<1>5. Total(counts) = Cardinality(WithResult(R, k))
  BY <1>2, <1>3, <1>4, PartsAdd
<1>6. QED
  BY <1>5, ResultsCounted

LEMMA SessionsFinite ==
  ASSUME NEW R, Readings(R)
  PROVE  IsFiniteSet(SessionsIn(R)) /\ IsFiniteSet(OfSessions(R))
<1> DEFINE S == {r.fact.session : r \in OfSessions(R)}
<1>1. IsFiniteSet(OfSessions(R))
  BY ResultsAdd
<1>2. [r \in OfSessions(R) |-> r.fact.session] \in Surjection(OfSessions(R), S)
  BY DEF Surjection
<1>3. IsFiniteSet(S)
  BY ONLY <1>1, <1>2, FS_Surjection
<1>4. SessionsIn(R) \in SUBSET S
  BY DEF SessionsIn
<1>5. IsFiniteSet(SessionsIn(R))
  BY ONLY <1>3, <1>4, FS_Subset
<1>6. QED
  BY <1>1, <1>5

\* A session has a model that one of its lines has, or none.
LEMMA SessionHasModel ==
  ASSUME NEW R, Readings(R), NEW s \in SessionsIn(R)
  PROVE  ModelOf(R, s) \in Models
<1> DEFINE named == {r \in OfSessions(R) : r.fact.session = s /\ r.fact.model # Null}
           lines == InTime(named)
           models == [i \in DOMAIN lines |-> lines[i].fact.model]
<1>1. named \subseteq R
  BY DEF OfSessions
<1>2. \A r \in R : r.fact.model \in Models
  BY DEF Readings, Models
<1>3. lines \in Seq(named) /\ ToSet(lines) = named
  BY <1>1, SomeReadings, InTimeSorts
<1>4. ModelOf(R, s) = IF models = <<>> THEN Null ELSE Last(models)
  BY DEF ModelOf, NamedModels
<1> HIDE DEF lines
<1>5. DOMAIN models = 1..Len(lines) /\ Len(lines) \in Nat
  BY <1>3
<1>6. models \in Seq(Models) /\ Len(models) = Len(lines)
  <2>1. \A i \in 1..Len(lines) : lines[i] \in named
    BY <1>3
  <2>2. \A i \in 1..Len(lines) : lines[i].fact.model \in Models
    BY <1>1, <1>2, <2>1
  <2>3. QED
    BY <1>5, <2>2
<1>7. CASE models = <<>>
  <2>1. Len(lines) = 0
    BY <1>6, <1>7
  <2>2. named = {}
    BY <1>3, <2>1 DEF ToSet
  <2>3. PICK r \in OfSessions(R) : r.fact.session = s
    BY DEF SessionsIn
  <2>4. r.fact.model = Null
    BY <2>2, <2>3
  <2>5. QED
    BY <1>2, <1>4, <1>7, <2>3, <2>4 DEF OfSessions
<1>8. CASE models # <<>>
  <2> HIDE DEF models
  <2>1. Last(models) \in Models
    BY <1>6, <1>8 DEF Last
  <2>2. QED
    BY <1>4, <1>8, <2>1
<1>9. QED
  BY <1>7, <1>8

\* The lines of one model
OfModel(R, m) == {r \in R : r.fact.model = m}

LEMMA LineStatsFields ==
  ASSUME NEW R
  PROVE  /\ LineStats(R).sessions = Cardinality(SessionsIn(R))
         /\ LineStats(R).results = ResultCounts(R)
         /\ LineStats(R).byModel = [m \in Models |-> Cardinality({s \in SessionsIn(R) : ModelOf(R, s) = m})]
         /\ \A m \in Models : LineStats(R).modelResults[m] = ResultCounts(OfModel(R, m))
<1>1. LineStats(R).modelResults = [m \in Models |-> ResultCounts(OfModel(R, m))]
  BY DEF LineStats, OfModel
<1> DEFINE F == LineStats(R).modelResults
<1>2. F = [m \in Models |-> ResultCounts(OfModel(R, m))]
  BY <1>1
<1> HIDE DEF F
<1>3. \A m \in Models : F[m] = ResultCounts(OfModel(R, m))
  BY <1>2
<1>4. QED
  BY <1>3 DEF LineStats, F

\* A session has one model in what a report tells.
LEMMA SessionsByModel ==
  ASSUME NEW R, Readings(R) PROVE Total(LineStats(R).byModel) = LineStats(R).sessions
<1> DEFINE parts == [m \in Models |-> {s \in SessionsIn(R) : ModelOf(R, s) = m}]
           counts == [m \in Models |-> Cardinality({s \in SessionsIn(R) : ModelOf(R, s) = m})]
<1>1. \A m \in Models : parts[m] \in SUBSET SessionsIn(R)
  OBVIOUS
<1>2. \A m \in Models : IsFiniteSet(parts[m])
  BY <1>1, SessionsFinite, FS_Subset
<1>3. \A i, j \in Models : i # j => parts[i] \intersect parts[j] = {}
  OBVIOUS
<1>4. \A s : s \in SessionsIn(R) <=> \E m \in Models : s \in parts[m]
  BY SessionHasModel
<1>5. DOMAIN counts = Models /\ \A m \in Models : counts[m] = Cardinality(parts[m])
  OBVIOUS
<1> HIDE DEF parts, counts
<1>6. Total(counts) = Cardinality(SessionsIn(R))
  BY <1>2, <1>3, <1>4, <1>5, KeysFinite, PartsAdd
<1>7. QED
  BY <1>6, LineStatsFields DEF counts

LEMMA ResultsByModel ==
  ASSUME NEW R, Readings(R), NEW k \in ResultKeys
  PROVE  LineStats(R).results[k] = Total([m \in Models |-> LineStats(R).modelResults[m][k]])
<1> DEFINE parts == [m \in Models |-> OfModel(R, m)]
           counts == [m \in Models |-> LineStats(R).modelResults[m][k]]
<1>0. \A m \in Models : LineStats(R).modelResults[m] = ResultCounts(OfModel(R, m))
  BY LineStatsFields
<1>1. \A r : r \in R <=> \E m \in Models : r \in parts[m]
  BY DEF Readings, Models, OfModel
<1>2. \A i, j \in Models : i # j => parts[i] \intersect parts[j] = {}
  BY DEF OfModel
<1>3. DOMAIN counts = Models /\ \A m \in Models : counts[m] = ResultCounts(parts[m])[k]
  BY <1>0
<1> HIDE DEF parts, counts
<1>4. Total(counts) = ResultCounts(R)[k]
  BY <1>1, <1>2, <1>3, KeysFinite, ResultsOfParts
<1>5. QED
  BY <1>4, LineStatsFields DEF counts

LEMMA KindKnown == \A s : KindOf(s) \in Kinds
BY ReportsAssumption DEF KindOf, Kinds

\* The lines of sessions of one kind
OfKind(R, e) == {r \in R : KindOf(r.fact.session) = e}

LEMMA ByKind ==
  ASSUME NEW R, Readings(R)
  PROVE  /\ \A k \in ResultKeys : LineStats(R).results[k] = Total([e \in Kinds |-> ByEntrypoint(R)[e].results[k]])
         /\ LineStats(R).sessions = Total([e \in Kinds |-> ByEntrypoint(R)[e].sessions])
<1> DEFINE parts == [e \in Kinds |-> OfKind(R, e)]
<1>1. \A e \in Kinds : /\ ByEntrypoint(R)[e].results = ResultCounts(parts[e])
                       /\ ByEntrypoint(R)[e].sessions = Cardinality(SessionsIn(parts[e]))
  BY LineStatsFields DEF ByEntrypoint, OfKind
<1>2. \A r : r \in R <=> \E e \in Kinds : r \in parts[e]
  BY KindKnown DEF OfKind
<1>3. \A i, j \in Kinds : i # j => parts[i] \intersect parts[j] = {}
  BY DEF OfKind
<1>4. \A e \in Kinds : Readings(parts[e])
  BY <1>2, SomeReadings
<1>5. ASSUME NEW k \in ResultKeys
      PROVE  LineStats(R).results[k] = Total([e \in Kinds |-> ByEntrypoint(R)[e].results[k]])
  <2> DEFINE counts == [e \in Kinds |-> ByEntrypoint(R)[e].results[k]]
  <2>1. DOMAIN counts = Kinds /\ \A e \in Kinds : counts[e] = ResultCounts(parts[e])[k]
    BY <1>1
  <2> HIDE DEF parts, counts
  <2>2. Total(counts) = ResultCounts(R)[k]
    BY <1>2, <1>3, <2>1, KeysFinite, ResultsOfParts
  <2>3. QED
    BY <2>2, LineStatsFields DEF counts
<1>6. LineStats(R).sessions = Total([e \in Kinds |-> ByEntrypoint(R)[e].sessions])
  <2> DEFINE counts == [e \in Kinds |-> ByEntrypoint(R)[e].sessions]
             those == [e \in Kinds |-> SessionsIn(parts[e])]
  <2>1. DOMAIN counts = Kinds /\ \A e \in Kinds : counts[e] = Cardinality(those[e]) /\ IsFiniteSet(those[e])
    BY <1>1, <1>4, SessionsFinite
  <2>2. \A e \in Kinds : \A s \in those[e] : KindOf(s) = e
    BY DEF SessionsIn, OfSessions, OfKind
  <2>3. \A s : s \in SessionsIn(R) <=> \E e \in Kinds : s \in those[e]
    BY KindKnown DEF SessionsIn, OfSessions, OfKind
  <2>4. \A i, j \in Kinds : i # j => those[i] \intersect those[j] = {}
    BY <2>2
  <2> HIDE DEF those, counts
  <2>5. Total(counts) = Cardinality(SessionsIn(R))
    BY <2>1, <2>3, <2>4, KeysFinite, PartsAdd
  <2>6. QED
    BY <2>5, LineStatsFields DEF counts
<1>7. QED
  BY <1>5, <1>6

Reviews(W) == {r \in W : r.fact.event = "review"}

Reviewer(r) == <<r.fact.session, r.fact.model>>

\* What a review adds, and whose report it replaces.
KeepReview(kept, r) ==
  {q \in kept : q.fact.result = "subagent" \/ Reviewer(q) # Reviewer(r) \/ r.fact.result = "subagent"} \union {r}

\* LogReviews, as the function on sets of positions that the fold is.
LEMMA ReviewsAreFold ==
  ASSUME NEW W
  PROVE  LogReviews(W) =
           (CHOOSE iter : iter = [s \in SUBSET (DOMAIN InTime(Reviews(W))) |->
              IF s = {} THEN {} ELSE KeepReview(iter[s \ {Max(s)}], InTime(Reviews(W))[Max(s)])])
             [DOMAIN InTime(Reviews(W))]
BY Zenon DEF LogReviews, FoldLeft, MapThenFoldSet, KeepReview, Reviews, Reviewer

\* A later report of the same reviewer replaces r.
Replaces(q, r) == q.fact.result # "subagent" /\ Reviewer(q) = Reviewer(r)

\* What stands of the first n reports.
Standing(o, n) == {r \in ToSet(o) : \E i \in 1..n : r = o[i] /\ (r.fact.result = "subagent" \/ ~\E j \in 1..n : i < j /\ Replaces(o[j], r))}

\* A report stands until its reviewer's next one.
LEMMA ReviewsKept ==
  ASSUME NEW W, Readings(W)
  PROVE  LogReviews(W) = {r \in Reviews(W) : r.fact.result = "subagent"
                             \/ ~\E q \in Reviews(W) : Sooner(r, q) /\ Replaces(q, r)}
<1> DEFINE S == Reviews(W)
           o == InTime(S)
           N == Len(o)
           A == SUBSET S
           g == [n \in 1..N |-> [kept \in A |-> KeepReview(kept, o[n])]]
           Iterates(c) == c = [s \in SUBSET (DOMAIN o) |-> IF s = {} THEN {} ELSE KeepReview(c[s \ {Max(s)}], o[Max(s)])]
           c == CHOOSE c : Iterates(c)
<1>1. Readings(S)
  BY SomeReadings DEF Reviews
<1>2. /\ o \in Seq(S) /\ N \in Nat /\ ToSet(o) = S
      /\ \A i, j \in DOMAIN o : i < j => Sooner(o[i], o[j])
  BY <1>1, InTimeSorts
<1>3. LogReviews(W) = c[DOMAIN o]
  BY Zenon, ReviewsAreFold
<1> HIDE DEF S, o
<1>4. DOMAIN o = 1..N /\ \A i \in 1..N : o[i] \in S
  BY <1>2
<1>5. g \in [1..N -> [A -> A]] /\ {} \in A
  <2>1. \A n \in 1..N : \A kept \in A : KeepReview(kept, o[n]) \in A
    BY <1>4 DEF KeepReview
  <2>2. QED
    BY <2>1
<1> HIDE DEF A
<1>6. PICK iter : FoldsLeft(iter, A, {}, N, g)
  BY <1>2, <1>5, FoldDefined
<1>7. Iterates(iter)
  <2>1. \A s \in SUBSET (1..N) : s # {} => Max(s) \in 1..N /\ s \ {Max(s)} \in SUBSET (1..N)
    BY <1>2, LastPosition
  <2>2. \A n \in 1..N, kept \in A : g[n][kept] = KeepReview(kept, o[n])
    OBVIOUS
  <2> HIDE DEF g
  <2>3. iter \in [SUBSET (1..N) -> A]
    BY <1>6 DEF FoldsLeft
  <2>4. \A s \in SUBSET (1..N) : iter[s] = IF s = {} THEN {} ELSE KeepReview(iter[s \ {Max(s)}], o[Max(s)])
    BY <1>6, <2>1, <2>2, <2>3 DEF FoldsLeft
  <2>5. iter = [s \in SUBSET (1..N) |-> iter[s]]
    BY <2>3
  <2>6. QED
    BY <1>4, <2>4, <2>5
<1>8. Iterates(c)
  BY <1>7
<1>9. \A s \in SUBSET (1..N) : c[s] = IF s = {} THEN {} ELSE KeepReview(c[s \ {Max(s)}], o[Max(s)])
  BY <1>4, <1>8
<1> HIDE DEF c, g
<1> DEFINE T == {n \in Nat : c[1..(n - 1)] = Standing(o, n - 1)}
<1>10. 1 \in T
  <2>1. 1..0 = {} /\ 1 - 1 = 0 /\ {} \in SUBSET (1..N)
    OBVIOUS
  <2>2. c[{}] = {}
    BY <1>9, <2>1
  <2>3. Standing(o, 0) = {}
    BY <2>1 DEF Standing
  <2>4. QED
    BY <2>1, <2>2, <2>3
<1>11. ASSUME NEW n \in 1..N, n \in T PROVE n + 1 \in T
  <2>1. 1..n \in SUBSET (1..N) /\ n \in 1..n /\ (1..n) \ {n} = 1..(n - 1) /\ (n + 1) - 1 = n /\ n \in Nat /\ 1..n # {}
    <3>1. n \in Nat /\ 1 <= n /\ n <= N /\ N \in Nat
      BY <1>2
    <3>2. 1..n \in SUBSET (1..N) /\ n \in 1..n /\ (n + 1) - 1 = n
      BY <3>1
    <3>3. (1..n) \ {n} = 1..(n - 1)
      BY <3>1
    <3>4. QED
      BY <3>1, <3>2, <3>3
  <2>2. Max(1..n) = n
    BY <2>1, LastPosition
  <2>3. c[1..n] = KeepReview(Standing(o, n - 1), o[n])
    BY <1>9, <1>11, <2>1, <2>2
  <2>4. \A i \in 1..(n - 1) : o[i] # o[n] /\ i \in 1..n /\ i < n /\ n \notin 1..(n - 1)
    <3>1. \A i \in 1..(n - 1) : i \in 1..N /\ i < n
      BY <2>1, <1>2
    <3>2. \A x \in S : ~Sooner(x, x)
      BY <1>1 DEF Sooner, Readings
    <3>3. QED
      BY <1>2, <1>4, <3>1, <3>2
  <2>5. ASSUME NEW r PROVE r \in Standing(o, n) <=> r \in KeepReview(Standing(o, n - 1), o[n])
    <3>1. CASE r = o[n]
      <4>1. r \in ToSet(o)
        BY <1>2, <1>4, <3>1
      <4>2. ~\E j \in 1..n : n < j /\ Replaces(o[j], r)
        BY <2>1
      <4>3. QED
        BY <2>1, <3>1, <4>1, <4>2 DEF Standing, KeepReview
    <3>2. CASE r # o[n]
      <4>1. r \in KeepReview(Standing(o, n - 1), o[n])
              <=> r \in Standing(o, n - 1) /\ (r.fact.result = "subagent" \/ ~Replaces(o[n], r))
        BY <3>2 DEF KeepReview, Replaces
      <4>2. \A i : i \in 1..n <=> i \in 1..(n - 1) \/ i = n
        BY <2>1
      <4>3. ASSUME NEW i \in 1..(n - 1)
            PROVE  (\E j \in 1..n : i < j /\ Replaces(o[j], r))
                     <=> (\E j \in 1..(n - 1) : i < j /\ Replaces(o[j], r)) \/ Replaces(o[n], r)
        BY <2>4, <4>2
      <4>4. r \in Standing(o, n) <=> r \in Standing(o, n - 1) /\ (r.fact.result = "subagent" \/ ~Replaces(o[n], r))
        BY <3>2, <4>2, <4>3 DEF Standing
      <4>5. QED
        BY <4>1, <4>4
    <3>3. QED
      BY <3>1, <3>2
  <2>6. Standing(o, n) = KeepReview(Standing(o, n - 1), o[n])
    <3>1. \A r : r \in Standing(o, n) <=> r \in KeepReview(Standing(o, n - 1), o[n])
      BY <2>5
    <3>2. QED
      BY <3>1
  <2>7. QED
    BY <2>1, <2>3, <2>6
<1>12. N + 1 \in T
  <2>1. CASE N = 0
    BY <1>10, <2>1
  <2>2. CASE N # 0
    <3>1. N \in 1..N /\ N + 1 \in Nat /\ N \in Nat
      BY <1>2, <2>2
    <3> HIDE DEF T, N
    <3>2. N \in T
      BY <1>10, <1>11, <3>1, Upwards
    <3>3. QED
      BY <1>11, <3>1, <3>2
  <2>3. QED
    BY <2>1, <2>2
<1>13. LogReviews(W) = Standing(o, N)
  BY <1>2, <1>3, <1>4, <1>12
<1>14. ASSUME NEW r
       PROVE  r \in Standing(o, N)
                <=> r \in S /\ (r.fact.result = "subagent" \/ ~\E q \in S : Sooner(r, q) /\ Replaces(q, r))
  <2>1. \A i, j \in 1..N : i < j <=> Sooner(o[i], o[j])
    <3>1. \A x, y \in S : ~(Sooner(x, y) /\ Sooner(y, x)) /\ ~Sooner(x, x)
      BY <1>1 DEF Sooner, Readings
    <3>2. \A i, j \in 1..N : i < j => Sooner(o[i], o[j])
      BY <1>2, <1>4
    <3>3. \A i, j \in 1..N : i < j \/ i = j \/ j < i
      OBVIOUS
    <3>4. QED
      BY <1>4, <3>1, <3>2, <3>3
  <2>2. \A x : x \in S <=> \E i \in 1..N : x = o[i]
    BY <1>2, <1>4 DEF ToSet
  <2>3. ASSUME NEW i \in 1..N
        PROVE  (\E j \in 1..N : i < j /\ Replaces(o[j], o[i])) <=> (\E q \in S : Sooner(o[i], q) /\ Replaces(q, o[i]))
    BY <2>1, <2>2
  <2>4. ToSet(o) = S
    BY <1>2
  <2>5. QED
    BY <2>2, <2>3, <2>4 DEF Standing
<1>15. QED
  BY <1>13, <1>14 DEF S

-----------------------------------------------------------------------------
(* Consecutive windows *)

\* A line of the log, as a report reads it
Reading(i) == [order |-> i, at |-> log[i].at, fact |-> log[i].fact]

ReadingsOf(I) == {Reading(i) : i \in I}

LEMMA LogFields ==
  ASSUME ReportsInv
  PROVE  /\ DOMAIN log = 1..Len(log) /\ Len(log) \in Nat
         /\ \A i \in 1..Len(log) : log[i].at \in Nat /\ log[i].fact \in Facts /\ log[i].fact.event \in Events
<1>1. log \in Seq(Line) /\ Len(log) \in Nat
  BY ReportsTypes
<1>2. DOMAIN log = 1..Len(log) /\ \A i \in 1..Len(log) : log[i] \in Line
  BY <1>1
<1>3. EventsKnown /\ LastInstant \in Nat
  BY ReportsTypes DEF ReportsInv
<1>4. QED
  BY <1>1, <1>2, <1>3 DEF Line, EventsKnown

\* As many readings as lines, each of which is one of what hooks may say.
LEMMA ReadingsCounted ==
  ASSUME ReportsInv, NEW I \in SUBSET (1..Len(log))
  PROVE  /\ Readings(ReadingsOf(I)) /\ IsFiniteSet(I)
         /\ Cardinality(ReadingsOf(I)) = Cardinality(I)
<1>1. Len(log) \in Nat
  BY LogFields
<1>2. IsFiniteSet(1..Len(log))
  BY <1>1, FS_Interval
<1>3. IsFiniteSet(I)
  BY <1>2, FS_Subset
<1> DEFINE f == [i \in I |-> Reading(i)]
<1>4. f \in Surjection(I, ReadingsOf(I))
  BY DEF Surjection, ReadingsOf
<1>5. \A i \in I : Reading(i).order = i /\ Reading(i).at = log[i].at /\ Reading(i).fact = log[i].fact
  BY DEF Reading
<1>6. f \in Injection(I, ReadingsOf(I))
  <2>1. f \in [I -> ReadingsOf(I)]
    BY DEF ReadingsOf
  <2>2. \A i, j \in I : f[i] = f[j] => i = j
    BY <1>5
  <2>3. QED
    BY <2>1, <2>2 DEF Injection, IsInjective
<1> HIDE DEF f
<1>7. IsFiniteSet(ReadingsOf(I)) /\ Cardinality(ReadingsOf(I)) = Cardinality(I)
  BY <1>3, <1>4, <1>6, FS_Surjection
<1>8. \A r \in ReadingsOf(I) : r.fact \in Facts /\ r.at \in Int /\ r.order \in Int
  BY <1>5, LogFields DEF ReadingsOf
<1>9. \A r, q \in ReadingsOf(I) : r.order = q.order => r = q
  BY <1>5 DEF ReadingsOf
<1>10. QED
  BY <1>3, <1>7, <1>8, <1>9 DEF Readings

LEMMA LogIsRead ==
  ASSUME NEW n PROVE ReadLog(n) = ReadingsOf(1..n)
BY DEF ReadLog, ReadingsOf, Reading

\* What a report has in its window
Window(report) == {r \in ReadLog(report.read) : InWindow(r.at, report.start, report.end)}

\* The lines of sessions that it counts, and those before its window
LinesOf(report) ==
  {i \in 1..report.read : /\ report.start < log[i].at /\ log[i].at <= report.end
                          /\ log[i].fact.event \in {"edit", "stop"}}
Earlier(report) ==
  {i \in 1..report.read : log[i].at <= report.start /\ log[i].fact.event \in {"edit", "stop"}}

\* A report's fields, and where its window lies.
LEMMA ReportsInOrder ==
  ASSUME ReportsInv
  PROVE  /\ Len(reports) \in Nat /\ DOMAIN reports = 1..Len(reports)
         /\ \A n \in 1..Len(reports) :
              /\ reports[n].start \in Int /\ reports[n].end \in Int /\ reports[n].read \in 0..Len(log)
              /\ reports[n].start < reports[n].end
              /\ reports[n].start = IF n = 1 THEN -1 ELSE reports[n-1].end
         /\ \A n, m \in 1..Len(reports) :
              n < m => reports[n].end <= reports[m].start /\ reports[n].read <= reports[m].read
<1>1. reports \in Seq(Report) /\ \A n \in DOMAIN reports : reports[n] \in Report
  BY ReportsTypes
<1>2. Len(reports) \in Nat /\ DOMAIN reports = 1..Len(reports)
  BY <1>1
<1>3. ReportsFollow
  BY DEF ReportsInv
<1>4. \A n \in 1..Len(reports) : reports[n].start \in Int /\ reports[n].end \in Int /\ reports[n].read \in Nat
  <2>1. \A r \in Report : r.start \in Int /\ r.end \in Int /\ r.read \in Nat
    BY DEF Report
  <2>2. QED
    BY <1>1, <1>2, <2>1
<1>5. \A n \in 1..Len(reports) : reports[n].read <= Len(log) /\ reports[n].start < reports[n].end
  BY <1>2, ReportsTypes
<1>6. \A n \in 1..Len(reports) : reports[n].read \in 0..Len(log)
  BY <1>4, <1>5, LogFields
<1>7. QED
  BY <1>2, <1>3, <1>4, <1>5, <1>6 DEF ReportsFollow

\* An instant that is not past the last window is in one of them.
LEMMA WindowsCover ==
  ASSUME ReportsInv, reports # <<>>, NEW t \in Nat, t <= Last(reports).end
  PROVE  \E n \in 1..Len(reports) : reports[n].start < t /\ t <= reports[n].end
<1> DEFINE T == {n \in 1..Len(reports) : t <= reports[n].end}
<1>1. Len(reports) \in Nat /\ Len(reports) \in 1..Len(reports) /\ Last(reports) = reports[Len(reports)]
  <2>1. reports \in Seq(Report)
    BY ReportsTypes
  <2>2. Len(reports) \in Nat /\ Len(reports) # 0
    BY <2>1
  <2>3. QED
    BY <2>2 DEF Last
<1>2. T \subseteq Nat /\ T # {}
  BY <1>1
<1>3. PICK n \in T : \A m \in T : n <= m
  BY <1>2, LeastNumber
<1>4. CASE n = 1
  <2>1. reports[n].start = -1
    BY <1>3, <1>4, ReportsInOrder
  <2>2. QED
    BY <1>3, <2>1
<1>5. CASE n # 1
  <2>1. n - 1 \in 1..Len(reports) /\ n - 1 \notin T
    BY <1>1, <1>3, <1>5
  <2>2. reports[n].start = reports[n-1].end /\ reports[n-1].end \in Int
    BY <1>3, <1>5, <2>1, ReportsInOrder
  <2>3. QED
    BY <1>3, <2>1, <2>2
<1>6. QED
  BY <1>4, <1>5

\* The lines of sessions in a report's window are those it counts.
LEMMA WindowLines ==
  ASSUME ReportsInv, NEW n \in 1..Len(reports)
  PROVE  /\ Readings(ReadLog(reports[n].read)) /\ Readings(Window(reports[n]))
         /\ LinesOf(reports[n]) \in SUBSET (1..Len(log))
         /\ OfSessions(Window(reports[n])) = ReadingsOf(LinesOf(reports[n]))
         /\ OfSessions({r \in ReadLog(reports[n].read) : r.at <= reports[n].start}) = ReadingsOf(Earlier(reports[n]))
<1>1. reports[n].read \in 0..Len(log) /\ Len(log) \in Nat
  BY ReportsInOrder, LogFields
<1> DEFINE p == reports[n]
<1>2. \A i \in 1..p.read : i \in 1..Len(log)
  BY <1>1
<1>3. LinesOf(p) \in SUBSET (1..Len(log)) /\ 1..p.read \in SUBSET (1..Len(log))
  BY <1>2 DEF LinesOf
<1>4. Readings(ReadLog(p.read))
  BY <1>3, LogIsRead, ReadingsCounted
<1>5. Window(p) \subseteq ReadLog(p.read)
  BY DEF Window
<1> HIDE DEF p
<1>6. \A i : Reading(i).at = log[i].at /\ Reading(i).fact = log[i].fact
  BY DEF Reading
<1>7. OfSessions(Window(p)) = ReadingsOf(LinesOf(p))
  BY <1>6, LogIsRead DEF OfSessions, Window, InWindow, ReadingsOf, LinesOf
<1>8. OfSessions({r \in ReadLog(p.read) : r.at <= p.start}) = ReadingsOf(Earlier(p))
  BY <1>6, LogIsRead DEF OfSessions, ReadingsOf, Earlier
<1>9. QED
  BY <1>3, <1>4, <1>5, <1>7, <1>8, SomeReadings DEF p

\* What the reports count, and in which sessions
Counted ==
  {i \in DOMAIN log \ Late : log[i].at <= Last(reports).end /\ log[i].fact.event # "review"}

\* A line that was not late is counted in the one report whose window it is in.
LEMMA CountedOnce ==
  ASSUME ReportsInv, reports # <<>>
  PROVE  /\ \A i : i \in Counted <=> \E n \in 1..Len(reports) : i \in LinesOf(reports[n])
         /\ \A n, m \in 1..Len(reports) : n # m => LinesOf(reports[n]) \intersect LinesOf(reports[m]) = {}
<1> DEFINE N == Len(reports)
<1>1. /\ N \in Nat /\ N \in 1..N /\ Last(reports) = reports[N] /\ DOMAIN reports = 1..N
  <2>1. reports \in Seq(Report)
    BY ReportsTypes
  <2>2. Len(reports) \in Nat /\ Len(reports) # 0
    BY <2>1
  <2>3. QED
    BY <2>2, ReportsInOrder DEF Last
<1>2. /\ \A n \in 1..N : /\ reports[n].start \in Int /\ reports[n].end \in Int /\ reports[n].read \in 0..Len(log)
                         /\ reports[n].start < reports[n].end
      /\ \A n, m \in 1..N : n < m => reports[n].end <= reports[m].start
  BY ReportsInOrder
<1>3. /\ DOMAIN log = 1..Len(log) /\ Len(log) \in Nat
      /\ \A i \in 1..Len(log) : log[i].at \in Nat /\ log[i].fact.event \in Events
  BY LogFields
<1>4. \A t \in Nat : t <= reports[N].end => \E n \in 1..N : reports[n].start < t /\ t <= reports[n].end
  BY <1>1, WindowsCover
<1> HIDE DEF N
<1>5. \A n \in 1..N : reports[n].end <= reports[N].end
  <2>1. ASSUME NEW n \in 1..N PROVE reports[n].end <= reports[N].end
    <3>1. n = N \/ n < N
      BY <1>1
    <3>2. n < N => reports[n].end <= reports[N].start
      BY <1>1, <1>2
    <3>3. reports[N].start < reports[N].end /\ reports[N].start \in Int /\ reports[N].end \in Int /\ reports[n].end \in Int
      BY <1>1, <1>2
    <3>4. QED
      BY <3>1, <3>2, <3>3
  <2>2. QED
    BY <2>1
<1>6. \A n, m \in 1..N, t \in Nat :
        /\ reports[n].start < t /\ t <= reports[n].end
        /\ reports[m].start < t /\ t <= reports[m].end
        => n = m
  <2>1. \A n, m \in 1..N, t \in Nat : reports[n].start < t /\ t <= reports[n].end
          /\ reports[m].start < t /\ t <= reports[m].end => ~(n < m)
    BY <1>2
  <2>2. \A n, m \in 1..N : n < m \/ m < n \/ n = m
    BY <1>1
  <2>3. QED
    BY <2>1, <2>2
<1>7. ASSUME NEW i \in 1..Len(log), NEW n \in 1..N,
             reports[n].start < log[i].at, log[i].at <= reports[n].end
      PROVE  i \in Late <=> i > reports[n].read
  <2>1. log[i].at \in Nat
    BY <1>3
  <2>2. i \in Late <=> \E m \in 1..N : i > reports[m].read /\ reports[m].start < log[i].at /\ log[i].at <= reports[m].end
    BY <1>1, <1>3 DEF Late
  <2>3. QED
    BY <1>6, <1>7, <2>1, <2>2
<1>8. ASSUME NEW i PROVE i \in Counted <=> \E n \in 1..N : i \in LinesOf(reports[n])
  <2>1. ASSUME i \in Counted PROVE \E n \in 1..N : i \in LinesOf(reports[n])
    <3>1. /\ i \in 1..Len(log) /\ i \notin Late /\ log[i].at <= reports[N].end /\ log[i].fact.event # "review"
      BY <1>1, <1>3, <2>1 DEF Counted
    <3>2. log[i].at \in Nat /\ log[i].fact.event \in {"edit", "stop"}
      BY <1>3, <3>1 DEF Events
    <3>3. PICK n \in 1..N : reports[n].start < log[i].at /\ log[i].at <= reports[n].end
      BY <1>4, <3>1, <3>2
    <3>4. i \in 1..reports[n].read
      BY <1>2, <1>3, <1>7, <3>1, <3>3
    <3>5. QED
      BY <3>2, <3>3, <3>4 DEF LinesOf
  <2>2. ASSUME NEW n \in 1..N, i \in LinesOf(reports[n]) PROVE i \in Counted
    <3>1. /\ i \in 1..reports[n].read /\ reports[n].start < log[i].at /\ log[i].at <= reports[n].end
          /\ log[i].fact.event \in {"edit", "stop"}
      BY <2>2 DEF LinesOf
    <3>2. i \in 1..Len(log) /\ ~(i > reports[n].read)
      BY <1>2, <1>3, <3>1
    <3>3. i \notin Late
      BY <1>7, <3>1, <3>2
    <3>4. log[i].at <= reports[N].end
      BY <1>1, <1>2, <1>3, <1>5, <3>1, <3>2
    <3>5. QED
      BY <1>1, <1>3, <3>1, <3>2, <3>3, <3>4 DEF Counted
  <2>3. QED
    BY <2>1, <2>2
<1>9. ASSUME NEW n \in 1..N, NEW m \in 1..N, n # m PROVE LinesOf(reports[n]) \intersect LinesOf(reports[m]) = {}
  <2>1. \A i \in LinesOf(reports[n]) : /\ i \in 1..Len(log) /\ log[i].at \in Nat
                                       /\ reports[n].start < log[i].at /\ log[i].at <= reports[n].end
    BY <1>2, <1>3 DEF LinesOf
  <2>2. \A i \in LinesOf(reports[m]) : reports[m].start < log[i].at /\ log[i].at <= reports[m].end
    BY DEF LinesOf
  <2>3. QED
    BY <1>6, <1>9, <2>1, <2>2
<1>10. QED
  BY <1>8, <1>9 DEF N

\* What the reports count of results is what was counted.
LEMMA ResultsOfReports ==
  ASSUME ReportsInv, reports # <<>>, NEW counts, DOMAIN counts = 1..Len(reports),
         \A n \in 1..Len(reports) : counts[n] = Total(LineStats(Window(reports[n])).results)
  PROVE  Total(counts) = Cardinality(Counted)
<1> DEFINE N == Len(reports)
           parts == [n \in 1..N |-> LinesOf(reports[n])]
<1>1. N \in Nat /\ IsFiniteSet(1..N)
  <2>1. N \in Nat
    BY ReportsInOrder
  <2>2. QED
    BY <2>1, FS_Interval
<1>2. \A n \in 1..N : counts[n] = Cardinality(parts[n]) /\ IsFiniteSet(parts[n])
  <2>1. ASSUME NEW n \in 1..N PROVE counts[n] = Cardinality(LinesOf(reports[n])) /\ IsFiniteSet(LinesOf(reports[n]))
    <3>1. Readings(Window(reports[n])) /\ LinesOf(reports[n]) \in SUBSET (1..Len(log))
          /\ OfSessions(Window(reports[n])) = ReadingsOf(LinesOf(reports[n]))
      BY WindowLines
    <3>2. counts[n] = Cardinality(OfSessions(Window(reports[n])))
      BY <3>1, LineStatsFields, ResultsAdd
    <3>3. QED
      BY <3>1, <3>2, ReadingsCounted
  <2>2. QED
    BY <2>1
<1>3. \A n, m \in 1..N : n # m => parts[n] \intersect parts[m] = {}
  BY CountedOnce
<1>4. \A i : i \in Counted <=> \E n \in 1..N : i \in parts[n]
  BY CountedOnce
<1>5. DOMAIN counts = 1..N
  OBVIOUS
<1> DEFINE C == Counted
<1>6. \A i : i \in C <=> \E n \in 1..N : i \in parts[n]
  BY <1>4
<1> HIDE DEF parts, N, C
<1>7. Total(counts) = Cardinality(C)
  BY ONLY <1>1, <1>2, <1>3, <1>5, <1>6, PartsAdd
<1>8. QED
  BY <1>7 DEF C

\* The sessions of lines, none excepted
SessionsOfLines(I) == {log[i].fact.session : i \in I} \ {Null}

LEMMA SessionsRead ==
  ASSUME NEW R, NEW I, OfSessions(R) = ReadingsOf(I) PROVE SessionsIn(R) = SessionsOfLines(I)
<1>1. \A i : Reading(i).fact = log[i].fact
  BY DEF Reading
<1>2. SessionsIn(R) = {r.fact.session : r \in ReadingsOf(I)} \ {Null}
  BY DEF SessionsIn
<1>3. \A x : (\E r \in ReadingsOf(I) : x = r.fact.session) <=> \E i \in I : x = log[i].fact.session
  BY <1>1 DEF ReadingsOf
<1>4. QED
  BY <1>2, <1>3 DEF SessionsOfLines

\* The sessions that a report tells are new
NewIn(report) == SessionsOfLines(LinesOf(report)) \ SessionsOfLines(Earlier(report))

LEMMA NewSessionsCounted ==
  ASSUME ReportsInv, NEW n \in 1..Len(reports)
  PROVE  /\ NewSessions(ReadLog(reports[n].read), Window(reports[n]), reports[n].start) = Cardinality(NewIn(reports[n]))
         /\ IsFiniteSet(NewIn(reports[n]))
<1> DEFINE before == {r \in ReadLog(reports[n].read) : r.at <= reports[n].start}
<1>1. SessionsIn(Window(reports[n])) = SessionsOfLines(LinesOf(reports[n]))
  BY WindowLines, SessionsRead
<1>2. SessionsIn(before) = SessionsOfLines(Earlier(reports[n]))
  BY WindowLines, SessionsRead
<1>3. NewIn(reports[n]) = SessionsIn(Window(reports[n])) \ SessionsIn(before)
  BY <1>1, <1>2 DEF NewIn
<1>4. IsFiniteSet(SessionsIn(Window(reports[n])))
  BY WindowLines, SessionsFinite
<1>5. IsFiniteSet(NewIn(reports[n]))
  BY <1>3, <1>4, FS_Difference
<1>6. QED
  BY <1>3, <1>5 DEF NewSessions

\* A session is new in one report at most, and is in none that counts it when a line of its was late.
LEMMA NewOnce ==
  ASSUME ReportsInv, reports # <<>>
  PROVE  /\ \A n \in 1..Len(reports) : NewIn(reports[n]) \subseteq SessionsOfLines(Counted)
         /\ \A n, m \in 1..Len(reports) : n # m => NewIn(reports[n]) \intersect NewIn(reports[m]) = {}
         /\ Late = {} => \A s \in SessionsOfLines(Counted) : \E n \in 1..Len(reports) : s \in NewIn(reports[n])
<1> DEFINE N == Len(reports)
<1>1. /\ N \in Nat
      /\ \A n \in 1..N : /\ reports[n].start \in Int /\ reports[n].end \in Int /\ reports[n].read \in 0..Len(log)
                         /\ reports[n].start < reports[n].end
      /\ \A n, m \in 1..N : n < m => reports[n].end <= reports[m].start /\ reports[n].read <= reports[m].read
  BY ReportsInOrder
<1>2. /\ DOMAIN log = 1..Len(log) /\ Len(log) \in Nat
      /\ \A i \in 1..Len(log) : log[i].at \in Nat /\ log[i].fact.event \in Events
  BY LogFields
<1>3. \A n \in 1..N : NewIn(reports[n]) \subseteq SessionsOfLines(Counted)
  BY CountedOnce DEF NewIn, SessionsOfLines
<1>4. ASSUME NEW n \in 1..N, NEW m \in 1..N, n < m, NEW i \in LinesOf(reports[n]) PROVE i \in Earlier(reports[m])
  <2>1. /\ i \in 1..reports[n].read /\ log[i].at <= reports[n].end /\ log[i].fact.event \in {"edit", "stop"}
        /\ i \in 1..Len(log)
    BY <1>1, <1>2 DEF LinesOf
  <2>2. i \in 1..reports[m].read /\ log[i].at <= reports[m].start
    BY <1>1, <1>2, <1>4, <2>1
  <2>3. QED
    BY <2>1, <2>2 DEF Earlier
<1>5. ASSUME NEW n \in 1..N, NEW m \in 1..N, n < m PROVE NewIn(reports[n]) \intersect NewIn(reports[m]) = {}
  BY <1>4, <1>5 DEF NewIn, SessionsOfLines
<1>6. ASSUME NEW n \in 1..N, NEW m \in 1..N, n # m PROVE NewIn(reports[n]) \intersect NewIn(reports[m]) = {}
  <2>1. n < m \/ m < n
    BY <1>1, <1>6
  <2>2. QED
    BY <1>5, <2>1
<1>7. ASSUME Late = {}, NEW s \in SessionsOfLines(Counted) PROVE \E n \in 1..N : s \in NewIn(reports[n])
  <2> DEFINE T == {n \in 1..N : s \in SessionsOfLines(LinesOf(reports[n]))}
  <2>1. T # {} /\ T \subseteq Nat
    BY <1>1, <1>7, CountedOnce DEF SessionsOfLines
  <2>2. PICK n \in T : \A m \in T : n <= m
    BY <2>1, LeastNumber
  <2>3. ASSUME NEW i \in Earlier(reports[n]), log[i].fact.session = s PROVE FALSE
    <3>1. /\ i \in 1..Len(log) /\ log[i].at <= reports[n].start /\ log[i].fact.event # "review" /\ log[i].at \in Nat
      BY <1>1, <1>2, <2>2, <2>3 DEF Earlier
    <3>2. log[i].at <= Last(reports).end
      <4>1. N \in 1..N /\ Last(reports) = reports[N]
        <5>1. reports \in Seq(Report)
          BY ReportsTypes
        <5>2. N # 0
          BY <5>1
        <5>3. QED
          BY <1>1, <5>2 DEF Last
      <4>2. n = N \/ n < N
        BY <1>1, <2>2
      <4>3. n < N => reports[n].end <= reports[N].start
        BY <1>1, <2>2, <4>1
      <4>4. /\ reports[N].start < reports[N].end /\ reports[n].start < reports[n].end
            /\ reports[N].start \in Int /\ reports[N].end \in Int /\ reports[n].end \in Int /\ reports[n].start \in Int
        BY <1>1, <2>2, <4>1
      <4>5. QED
        BY <3>1, <4>1, <4>2, <4>3, <4>4
    <3>3. i \in Counted
      BY <1>2, <1>7, <3>1, <3>2 DEF Counted
    <3>4. PICK m \in 1..N : i \in LinesOf(reports[m])
      BY <3>3, CountedOnce
    <3>5. s # Null
      BY <1>7 DEF SessionsOfLines
    <3>6. m \in T
      BY <2>3, <3>4, <3>5 DEF SessionsOfLines
    <3>7. n <= m
      BY <2>2, <3>6
    <3>8. reports[m].start < log[i].at
      BY <3>4 DEF LinesOf
    <3>9. n = m \/ n < m
      BY <2>2, <3>7, <1>1
    <3>10. reports[n].start <= reports[m].start
      BY <1>1, <2>2, <3>9
    <3>11. QED
      BY <1>1, <2>2, <3>1, <3>8, <3>10
  <2>4. QED
    BY <2>2, <2>3 DEF NewIn, SessionsOfLines
<1>8. QED
  BY <1>3, <1>6, <1>7

\* The new sessions of the reports are of those that were counted, and all of them when none was late.
LEMMA NewSessionsAdd ==
  ASSUME ReportsInv, reports # <<>>, NEW counts, DOMAIN counts = 1..Len(reports),
         \A n \in 1..Len(reports) :
           counts[n] = NewSessions(ReadLog(reports[n].read), Window(reports[n]), reports[n].start)
  PROVE  /\ Total(counts) <= Cardinality(SessionsOfLines(Counted))
         /\ Late = {} => Total(counts) = Cardinality(SessionsOfLines(Counted))
<1> DEFINE N == Len(reports)
           parts == [n \in 1..N |-> NewIn(reports[n])]
           U == UNION {NewIn(reports[n]) : n \in 1..N}
           K == SessionsOfLines(Counted)
<1>1. N \in Nat /\ IsFiniteSet(1..N)
  <2>1. N \in Nat
    BY ReportsInOrder
  <2>2. QED
    BY <2>1, FS_Interval
<1>2. \A n \in 1..N : counts[n] = Cardinality(parts[n]) /\ IsFiniteSet(parts[n])
  BY NewSessionsCounted
<1>3. \A n, m \in 1..N : n # m => parts[n] \intersect parts[m] = {}
  BY NewOnce
<1>4. \A i : i \in U <=> \E n \in 1..N : i \in parts[n]
  OBVIOUS
<1>5. DOMAIN counts = 1..N
  OBVIOUS
<1>6. U \in SUBSET K /\ (Late = {} => U = K)
  BY NewOnce
<1>7. IsFiniteSet(K)
  <2> DEFINE S == {log[i].fact.session : i \in Counted}
  <2>1. Counted \in SUBSET (1..Len(log))
    BY LogFields DEF Counted
  <2>2. IsFiniteSet(Counted)
    BY <2>1, ReadingsCounted
  <2>3. [i \in Counted |-> log[i].fact.session] \in Surjection(Counted, S)
    BY DEF Surjection
  <2>4. IsFiniteSet(S)
    BY ONLY <2>2, <2>3, FS_Surjection
  <2>5. K \in SUBSET S
    BY DEF SessionsOfLines
  <2>6. QED
    BY ONLY <2>4, <2>5, FS_Subset
<1> HIDE DEF parts, N, U, K
<1>8. Total(counts) = Cardinality(U)
  BY <1>1, <1>2, <1>3, <1>4, <1>5, PartsAdd
<1>9. Cardinality(U) <= Cardinality(K)
  BY <1>6, <1>7, FS_Subset
<1>10. QED
  BY <1>6, <1>8, <1>9 DEF K

-----------------------------------------------------------------------------
(* The trend, and what a report tells *)

\* Days follow one another as their seconds do.
LEMMA DaysInOrder ==
  ASSUME NEW a \in Nat, NEW b \in Nat, a <= b PROVE DayOf(a) \in Int /\ DayOf(b) \in Int /\ DayOf(a) <= DayOf(b)
<1>1. DayLength \in Nat \ {0}
  BY ReportsAssumption
<1> DEFINE d == DayLength
           x == a \div d
           y == b \div d
<1>2. x \in Int /\ y \in Int
  BY <1>1
<1>3. d * x <= a /\ b < d * (y + 1)
  BY <1>1, <1>2
<1> HIDE DEF x, y
<1>4. d * x < d * (y + 1)
  BY <1>1, <1>2, <1>3
<1>5. x < y + 1
  BY <1>1, <1>2, <1>4
<1>6. QED
  BY <1>2, <1>5 DEF DayOf, x, y

\* The days of a report's trend, and the lines in them
TrendOf(report) == (DayOf(report.end) - TrendDays + 1)..DayOf(report.end)
DayLines(report, day) == TrendDay(ReadLog(report.read), report.end, day)
TrendLines(report) == UNION {DayLines(report, day) : day \in TrendOf(report)}

\* The lines of the last days with an event and a result
Recent(report, k) ==
  {i \in 1..report.read :
     /\ log[i].at <= report.end
     /\ DayOf(log[i].at) > DayOf(report.end) - TrendDays
     /\ <<log[i].fact.event, log[i].fact.result>> = k /\ log[i].fact.event # "review"}

\* The trend has the lines of its days, each in one.
LEMMA TrendCounts ==
  ASSUME ReportsInv, NEW n \in 1..Len(reports), NEW k \in ResultKeys
  PROVE  /\ Readings(TrendLines(reports[n])) /\ IsFiniteSet(TrendOf(reports[n]))
         /\ ResultCounts(TrendLines(reports[n]))[k] = Cardinality(Recent(reports[n], k))
<1> DEFINE p == reports[n]
<1>1. p.read \in 0..Len(log) /\ p.end \in Nat
  <2>1. p \in Report
    BY ReportsTypes, ReportsInOrder
  <2>2. QED
    BY <2>1, ReportFields, ReportsInOrder
<1>2. Len(log) \in Nat /\ \A i \in 1..p.read : i \in 1..Len(log) /\ log[i].at \in Nat /\ log[i].fact.event \in Events
  BY <1>1, LogFields
<1>3. TrendDays \in Nat /\ DayOf(p.end) \in Int
  BY <1>1, DaysInOrder, ReportsAssumption
<1>4. IsFiniteSet(TrendOf(p))
  <2>1. DayOf(p.end) - TrendDays + 1 \in Int
    BY <1>3
  <2>2. QED
    BY <1>3, <2>1, FS_Interval DEF TrendOf
<1>5. Readings(ReadLog(p.read))
  BY WindowLines
<1> HIDE DEF p
<1>6. TrendLines(p) \subseteq ReadLog(p.read)
  BY DEF TrendLines, DayLines, TrendDay
<1>7. Readings(TrendLines(p))
  BY <1>5, <1>6, SomeReadings
<1>8. \A i : Reading(i).at = log[i].at /\ Reading(i).fact = log[i].fact
  BY DEF Reading
<1>9. ASSUME NEW i \in 1..p.read, log[i].at <= p.end
      PROVE  DayOf(log[i].at) \in TrendOf(p) <=> DayOf(log[i].at) > DayOf(p.end) - TrendDays
  <2>1. DayOf(log[i].at) \in Int /\ DayOf(log[i].at) <= DayOf(p.end)
    BY <1>1, <1>2, <1>9, DaysInOrder
  <2>2. QED
    BY <1>3, <2>1 DEF TrendOf
<1>10. ASSUME NEW i \in 1..p.read
       PROVE  Reading(i) \in TrendLines(p) <=> log[i].at <= p.end /\ DayOf(log[i].at) > DayOf(p.end) - TrendDays
  <2>1. Reading(i) \in ReadLog(p.read)
    BY LogIsRead DEF ReadingsOf
  <2>2. Reading(i) \in TrendLines(p) <=> log[i].at <= p.end /\ DayOf(log[i].at) \in TrendOf(p)
    BY <1>8, <2>1 DEF TrendLines, DayLines, TrendDay
  <2>3. QED
    BY <1>9, <2>2
<1>11. WithResult(TrendLines(p), k) = ReadingsOf(Recent(p, k))
  <2>1. ASSUME NEW r \in WithResult(TrendLines(p), k) PROVE r \in ReadingsOf(Recent(p, k))
    <3>1. r \in TrendLines(p) /\ r.fact.event \in {"edit", "stop"} /\ <<r.fact.event, r.fact.result>> = k
      BY <2>1 DEF WithResult, OfSessions
    <3>2. PICK i \in 1..p.read : r = Reading(i)
      BY <1>6, <3>1, LogIsRead DEF ReadingsOf
    <3>3. i \in Recent(p, k)
      BY <1>8, <1>10, <3>1, <3>2 DEF Recent
    <3>4. QED
      BY <3>2, <3>3 DEF ReadingsOf
  <2>2. ASSUME NEW r \in ReadingsOf(Recent(p, k)) PROVE r \in WithResult(TrendLines(p), k)
    <3>1. PICK i \in Recent(p, k) : r = Reading(i)
      BY DEF ReadingsOf
    <3>2. i \in 1..p.read /\ r \in TrendLines(p)
      BY <1>10, <3>1 DEF Recent
    <3>3. log[i].fact.event \in {"edit", "stop"} /\ <<log[i].fact.event, log[i].fact.result>> = k
      BY <1>2, <3>1, <3>2 DEF Recent, Events
    <3>4. QED
      BY <1>8, <3>1, <3>2, <3>3 DEF WithResult, OfSessions
  <2>3. QED
    BY <2>1, <2>2
<1>12. Recent(p, k) \in SUBSET (1..Len(log))
  BY <1>2 DEF Recent
<1>13. ResultCounts(TrendLines(p))[k] = Cardinality(WithResult(TrendLines(p), k))
  BY <1>7, ResultsCounted
<1>14. Cardinality(ReadingsOf(Recent(p, k))) = Cardinality(Recent(p, k))
  BY <1>12, ReadingsCounted
<1>15. QED
  BY <1>4, <1>7, <1>11, <1>13, <1>14 DEF p

\* What a report tells by day adds up to the lines of these days.
LEMMA DaysAdd ==
  ASSUME ReportsInv, NEW n \in 1..Len(reports), NEW k \in ResultKeys,
         NEW counts, DOMAIN counts = TrendOf(reports[n]),
         \A day \in TrendOf(reports[n]) : counts[day] = LineStats(DayLines(reports[n], day)).results[k]
  PROVE  Total(counts) = Cardinality(Recent(reports[n], k))
<1> DEFINE D == TrendOf(reports[n])
           R == TrendLines(reports[n])
           parts == [day \in D |-> DayLines(reports[n], day)]
<1>1. Readings(R) /\ IsFiniteSet(D) /\ ResultCounts(R)[k] = Cardinality(Recent(reports[n], k))
  BY TrendCounts
<1>2. \A r : r \in R <=> \E d \in D : r \in parts[d]
  BY DEF TrendLines
<1>3. \A i, j \in D : i # j => parts[i] \intersect parts[j] = {}
  BY DEF DayLines, TrendDay
<1>4. DOMAIN counts = D /\ \A d \in D : counts[d] = ResultCounts(parts[d])[k]
  BY LineStatsFields
<1> HIDE DEF parts, R, D
<1>5. Total(counts) = ResultCounts(R)[k]
  BY ONLY <1>1, <1>2, <1>3, <1>4, k \in ResultKeys, ResultsOfParts
<1>6. QED
  BY <1>1, <1>5

\* The lines of one revision
OfRev(R, rev) == {r \in R : r.fact.rev = rev}

\* So does what it tells by revision.
LEMMA RevsAdd ==
  ASSUME ReportsInv, NEW n \in 1..Len(reports), NEW k \in ResultKeys,
         NEW counts, DOMAIN counts = {f.rev : f \in Facts},
         \A rev \in {f.rev : f \in Facts} : counts[rev] = ResultCounts(OfRev(TrendLines(reports[n]), rev))[k]
  PROVE  Total(counts) = Cardinality(Recent(reports[n], k))
<1> DEFINE D == {f.rev : f \in Facts}
           R == TrendLines(reports[n])
           parts == [rev \in D |-> OfRev(R, rev)]
<1>1. Readings(R) /\ IsFiniteSet(D) /\ ResultCounts(R)[k] = Cardinality(Recent(reports[n], k))
  BY TrendCounts, KeysFinite
<1>2. \A r : r \in R <=> \E d \in D : r \in parts[d]
  <2>1. \A r \in R : r.fact.rev \in D
    BY <1>1 DEF Readings
  <2> HIDE DEF R, D
  <2>2. QED
    BY <2>1 DEF OfRev
<1>3. \A i, j \in D : i # j => parts[i] \intersect parts[j] = {}
  BY DEF OfRev
<1>4. DOMAIN counts = D /\ \A d \in D : counts[d] = ResultCounts(parts[d])[k]
  OBVIOUS
<1> HIDE DEF parts, R, D
<1>5. Total(counts) = ResultCounts(R)[k]
  BY ONLY <1>1, <1>2, <1>3, <1>4, k \in ResultKeys, ResultsOfParts
<1>6. QED
  BY <1>1, <1>5

\* What a report says, part by part.
LEMMA AggregateFields ==
  ASSUME NEW p
  PROVE  /\ Aggregate(p).interval = LineStats(Window(p))
         /\ Aggregate(p).new = NewSessions(ReadLog(p.read), Window(p), p.start)
         /\ Aggregate(p).reviews = LogReviews(Window(p))
         /\ Aggregate(p).byEntrypoint = ByEntrypoint(Window(p))
         /\ Aggregate(p).days = [day \in TrendOf(p) |-> LineStats(DayLines(p, day))]
         /\ Aggregate(p).revs = ByHarnessRev(TrendLines(p))
<1> DEFINE records == ReadLog(p.read)
           days == Trend(records, p.end)
           told == [day \in DOMAIN days |-> LineStats(days[day])]
           lines == UNION {days[day] : day \in DOMAIN days}
<1>1. DOMAIN days = TrendOf(p) /\ \A day \in TrendOf(p) : days[day] = DayLines(p, day)
  BY DEF Trend, TrendOf, DayLines
<1>2. lines = TrendLines(p)
  BY <1>1 DEF TrendLines
<1>3. told = [day \in TrendOf(p) |-> LineStats(DayLines(p, day))]
  BY <1>1
<1>4. {r \in records : InWindow(r.at, p.start, p.end)} = Window(p)
  BY DEF Window
<1>5. Aggregate(p) = [interval |-> LineStats(Window(p)), new |-> NewSessions(records, Window(p), p.start),
        reviews |-> LogReviews(Window(p)), byEntrypoint |-> ByEntrypoint(Window(p)),
        days |-> told, revs |-> ByHarnessRev(lines)]
  BY <1>4 DEF Aggregate
<1> HIDE DEF told, lines
<1>6. QED
  BY <1>2, <1>3, <1>5

\* What a window has of reviews
LEMMA ReviewsOfWindow ==
  ASSUME NEW p
  PROVE  Reviews(Window(p)) = {r \in ReadLog(p.read) : r.at > p.start /\ r.at <= p.end /\ r.fact.event = "review"}
BY DEF Reviews, Window, InWindow

\* The newest report adds up.
LEMMA NewestAddsUp ==
  ASSUME ReportsInv, reports # <<>>
  PROVE  LET newest == Aggregate(Last(reports)) IN
         /\ Total(newest.interval.byModel) = newest.interval.sessions
         /\ \A k \in DOMAIN newest.interval.results :
              /\ newest.interval.results[k] = Total([m \in Models |-> newest.interval.modelResults[m][k]])
              /\ newest.interval.results[k] = Total([e \in Kinds |-> newest.byEntrypoint[e].results[k]])
              /\ Total([day \in DOMAIN newest.days |-> newest.days[day].results[k]]) = Cardinality(Recent(Last(reports), k))
              /\ Total([rev \in DOMAIN newest.revs |-> newest.revs[rev][k]]) = Cardinality(Recent(Last(reports), k))
         /\ newest.interval.sessions = Total([e \in Kinds |-> newest.byEntrypoint[e].sessions])
<1>1. PICK n \in 1..Len(reports) : Last(reports) = reports[n]
  <2>1. reports \in Seq(Report)
    BY ReportsTypes
  <2>2. Len(reports) \in Nat /\ Len(reports) # 0
    BY <2>1
  <2>3. QED
    BY <2>2 DEF Last
<1> DEFINE p == reports[n]
           W == Window(p)
           newest == Aggregate(Last(reports))
<1>2. Readings(W)
  BY WindowLines
<1>3. /\ newest.interval = LineStats(W) /\ newest.byEntrypoint = ByEntrypoint(W)
      /\ newest.days = [day \in TrendOf(p) |-> LineStats(DayLines(p, day))]
      /\ newest.revs = ByHarnessRev(TrendLines(p))
  BY <1>1, AggregateFields
<1> HIDE DEF W, newest
<1>4. DOMAIN newest.interval.results = ResultKeys
  <2>1. LineStats(W).results = ResultCounts(W) /\ DOMAIN ResultCounts(W) = ResultKeys
    BY <1>2, LineStatsFields, ResultsCounted
  <2>2. QED
    BY <1>3, <2>1
<1>5. Total(newest.interval.byModel) = newest.interval.sessions
  BY <1>2, <1>3, SessionsByModel
<1>6. newest.interval.sessions = Total([e \in Kinds |-> newest.byEntrypoint[e].sessions])
  BY <1>2, <1>3, ByKind
<1>7. ASSUME NEW k \in ResultKeys
      PROVE  /\ newest.interval.results[k] = Total([m \in Models |-> newest.interval.modelResults[m][k]])
             /\ newest.interval.results[k] = Total([e \in Kinds |-> newest.byEntrypoint[e].results[k]])
             /\ Total([day \in DOMAIN newest.days |-> newest.days[day].results[k]]) = Cardinality(Recent(p, k))
             /\ Total([rev \in DOMAIN newest.revs |-> newest.revs[rev][k]]) = Cardinality(Recent(p, k))
  <2>1. newest.interval.results[k] = Total([m \in Models |-> newest.interval.modelResults[m][k]])
    BY <1>2, <1>3, ResultsByModel
  <2>2. newest.interval.results[k] = Total([e \in Kinds |-> newest.byEntrypoint[e].results[k]])
    <3> DEFINE counts == [e \in Kinds |-> newest.byEntrypoint[e].results[k]]
               others == [e \in Kinds |-> ByEntrypoint(W)[e].results[k]]
    <3>1. LineStats(W).results[k] = Total(others)
      BY <1>2, ByKind
    <3>2. counts = others
      BY <1>3
    <3> HIDE DEF counts, others
    <3>3. newest.interval.results[k] = Total(counts)
      BY <1>3, <3>1, <3>2
    <3>4. QED
      BY <3>3 DEF counts
  <2>3. Total([day \in DOMAIN newest.days |-> newest.days[day].results[k]]) = Cardinality(Recent(p, k))
    <3> DEFINE counts == [day \in DOMAIN newest.days |-> newest.days[day].results[k]]
    <3>1. DOMAIN counts = TrendOf(p) /\ \A day \in TrendOf(p) : counts[day] = LineStats(DayLines(p, day)).results[k]
      BY <1>3
    <3> HIDE DEF counts
    <3>2. Total(counts) = Cardinality(Recent(p, k))
      BY <3>1, DaysAdd
    <3>3. QED
      BY <3>2 DEF counts
  <2>4. Total([rev \in DOMAIN newest.revs |-> newest.revs[rev][k]]) = Cardinality(Recent(p, k))
    <3> DEFINE counts == [rev \in DOMAIN newest.revs |-> newest.revs[rev][k]]
    <3>1. newest.revs = [rev \in {f.rev : f \in Facts} |-> ResultCounts(OfRev(TrendLines(p), rev))]
      BY <1>3 DEF ByHarnessRev, OfRev
    <3>2. /\ DOMAIN counts = {f.rev : f \in Facts}
          /\ \A rev \in {f.rev : f \in Facts} : counts[rev] = ResultCounts(OfRev(TrendLines(p), rev))[k]
      BY <3>1
    <3> HIDE DEF counts
    <3>3. Total(counts) = Cardinality(Recent(p, k))
      BY <3>2, RevsAdd
    <3>4. QED
      BY <3>3 DEF counts
  <2>5. QED
    BY <2>1, <2>2, <2>3, <2>4
<1>8. QED
  BY <1>1, <1>4, <1>5, <1>6, <1>7 DEF newest

\* Each report is told once.
LEMMA ToldOnce ==
  ASSUME ReportsInv, reports # <<>>, NEW told,
         told = Append([n \in 1..(Len(reports) - 1) |-> Aggregate(reports[n])], Aggregate(Last(reports)))
  PROVE  DOMAIN told = 1..Len(reports) /\ \A n \in 1..Len(reports) : told[n] = Aggregate(reports[n])
<1> DEFINE N == Len(reports)
           S == {Aggregate(reports[n]) : n \in 1..N}
           older == [n \in 1..(N - 1) |-> Aggregate(reports[n])]
<1>1. N \in Nat /\ N # 0 /\ Last(reports) = reports[N]
  <2>1. reports \in Seq(Report)
    BY ReportsTypes
  <2>2. QED
    BY <2>1 DEF Last
<1>2. \A n \in 1..N : Aggregate(reports[n]) \in S
  OBVIOUS
<1>3. DOMAIN older = 1..(N - 1) /\ \A n \in 1..(N - 1) : older[n] = Aggregate(reports[n])
  OBVIOUS
<1>4. told = Append(older, Aggregate(reports[N]))
  BY <1>1
<1> HIDE DEF S, older, N
<1>5. older \in Seq(S) /\ Len(older) = N - 1
  <2>1. N - 1 \in Nat /\ \A n \in 1..(N - 1) : n \in 1..N
    BY <1>1
  <2>2. older \in [1..(N - 1) -> S]
    <3>1. older = [n \in 1..(N - 1) |-> older[n]]
      BY <1>3 DEF older
    <3>2. QED
      BY <1>2, <1>3, <2>1, <3>1
  <2>3. QED
    BY <2>1, <2>2
<1> DEFINE newest == Aggregate(reports[N])
<1>6. newest \in S /\ told = Append(older, newest)
  BY <1>1, <1>2, <1>4
<1> HIDE DEF newest
<1>7. DOMAIN told = 1..N /\ \A n \in 1..N : told[n] = IF n = N THEN newest ELSE older[n]
  BY ONLY <1>1, <1>5, <1>6
<1>8. \A n \in 1..N : n # N => n \in 1..(N - 1)
  BY <1>1
<1>9. QED
  BY <1>3, <1>7, <1>8 DEF N, newest

\* What a report tells stays true of the windows and of each of its parts.
LEMMA ReportsAdd == ReportsInv => ReportsAddUp
<1> SUFFICES ASSUME ReportsInv, reports # <<>>, asked = Null PROVE ReportsAddUp
  BY DEF ReportsAddUp
<1> DEFINE newest == Aggregate(Last(reports))
           told == Append([n \in 1..(Len(reports) - 1) |-> Aggregate(reports[n])], newest)
           results == [n \in DOMAIN told |-> Total(told[n].interval.results)]
           news == [n \in DOMAIN told |-> told[n].new]
           known == {log[i].fact.session : i \in Counted} \ {Null}
           recent(k) == {i \in 1..Last(reports).read :
                           /\ log[i].at <= Last(reports).end
                           /\ DayOf(log[i].at) > DayOf(Last(reports).end) - TrendDays
                           /\ <<log[i].fact.event, log[i].fact.result>> = k /\ log[i].fact.event # "review"}
           window == {r \in ReadLog(Last(reports).read) :
                        r.at > Last(reports).start /\ r.at <= Last(reports).end /\ r.fact.event = "review"}
<1>1. DOMAIN told = 1..Len(reports) /\ \A n \in 1..Len(reports) : told[n] = Aggregate(reports[n])
  BY ToldOnce
<1>2. \A n \in 1..Len(reports) :
        /\ told[n].interval = LineStats(Window(reports[n]))
        /\ told[n].new = NewSessions(ReadLog(reports[n].read), Window(reports[n]), reports[n].start)
  BY <1>1, AggregateFields
<1>3. known = SessionsOfLines(Counted)
  BY DEF SessionsOfLines
<1>4. \A k : recent(k) = Recent(Last(reports), k)
  BY DEF Recent
<1> HIDE DEF told
<1>5. Total(results) = Cardinality(Counted)
  <2>1. /\ DOMAIN results = 1..Len(reports)
        /\ \A n \in 1..Len(reports) : results[n] = Total(LineStats(Window(reports[n])).results)
    BY <1>1, <1>2
  <2> HIDE DEF results
  <2>2. QED
    BY <2>1, ResultsOfReports
<1>6. /\ Total(news) <= Cardinality(known)
      /\ Late = {} => Total(news) = Cardinality(known)
  <2>1. /\ DOMAIN news = 1..Len(reports)
        /\ \A n \in 1..Len(reports) :
             news[n] = NewSessions(ReadLog(reports[n].read), Window(reports[n]), reports[n].start)
    BY <1>1, <1>2
  <2> HIDE DEF news
  <2>2. QED
    BY <1>3, <2>1, NewSessionsAdd
<1> HIDE DEF results, news, known
<1>7. /\ Total(newest.interval.byModel) = newest.interval.sessions
      /\ \A k \in DOMAIN newest.interval.results :
           /\ newest.interval.results[k] = Total([m \in Models |-> newest.interval.modelResults[m][k]])
           /\ newest.interval.results[k] = Total([e \in Kinds |-> newest.byEntrypoint[e].results[k]])
           /\ Total([day \in DOMAIN newest.days |-> newest.days[day].results[k]]) = Cardinality(recent(k))
           /\ Total([rev \in DOMAIN newest.revs |-> newest.revs[rev][k]]) = Cardinality(recent(k))
      /\ newest.interval.sessions = Total([e \in Kinds |-> newest.byEntrypoint[e].sessions])
  <2>1. /\ Total(newest.interval.byModel) = newest.interval.sessions
        /\ \A k \in DOMAIN newest.interval.results :
             /\ newest.interval.results[k] = Total([m \in Models |-> newest.interval.modelResults[m][k]])
             /\ newest.interval.results[k] = Total([e \in Kinds |-> newest.byEntrypoint[e].results[k]])
             /\ Total([day \in DOMAIN newest.days |-> newest.days[day].results[k]]) = Cardinality(Recent(Last(reports), k))
             /\ Total([rev \in DOMAIN newest.revs |-> newest.revs[rev][k]]) = Cardinality(Recent(Last(reports), k))
        /\ newest.interval.sessions = Total([e \in Kinds |-> newest.byEntrypoint[e].sessions])
    BY Zenon, NewestAddsUp
  <2> HIDE DEF newest, recent
  <2>2. QED
    BY <1>4, <2>1
<1>8. newest.reviews = {r \in window : r.fact.result = "subagent" \/ ~\E q \in window :
         Sooner(r, q) /\ q.fact.result # "subagent"
           /\ <<q.fact.session, q.fact.model>> = <<r.fact.session, r.fact.model>>}
  <2> DEFINE p == Last(reports)
             V == Reviews(Window(p))
  <2>1. \E n \in 1..Len(reports) : p = reports[n]
    <3>1. reports \in Seq(Report)
      BY ReportsTypes
    <3>2. Len(reports) \in Nat /\ Len(reports) # 0
      BY <3>1
    <3>3. QED
      BY <3>2 DEF Last
  <2>2. Readings(Window(p))
    BY <2>1, WindowLines
  <2>3. window = V
    BY ReviewsOfWindow
  <2>4. newest.reviews = LogReviews(Window(p))
    BY AggregateFields
  <2>5. LogReviews(Window(p)) = {r \in V : r.fact.result = "subagent" \/ ~\E q \in V : Sooner(r, q) /\ Replaces(q, r)}
    BY <2>2, ReviewsKept
  <2> HIDE DEF window, newest, V
  <2>6. \A q, r : Sooner(r, q) /\ Replaces(q, r) <=>
          Sooner(r, q) /\ q.fact.result # "subagent"
            /\ <<q.fact.session, q.fact.model>> = <<r.fact.session, r.fact.model>>
    BY DEF Replaces, Reviewer
  <2>7. QED
    BY <2>3, <2>4, <2>5, <2>6
<1> HIDE DEF newest, recent, window
<1>9. QED
  BY Zenon, <1>5, <1>6, <1>7, <1>8 DEF ReportsAddUp, newest, told, results, news, known, recent, window, Counted

-----------------------------------------------------------------------------
(* Theorems *)

\* What each process keeps true stays true while the others run or rest.
THEOREM ProcessesInvariant == Spec => []ProcessesInv
<1>1. Init => ProcessesInv
  BY SupervisorStarts, SweepStarts, GateStarts, ReportsStart DEF Init, ProcessesInv
<1>2. ProcessesInv /\ [Next]_vars => ProcessesInv'
  <2>1. [Next]_vars => /\ [SupervisorNext]_supervisorVars /\ [SweepNext]_sweepVars
                       /\ [GateNext]_gateVars /\ [ReportsNext]_reportVars
    BY DEF Next, vars
  <2>2. QED
    BY <2>1, SupervisorSteps, SweepSteps, GateSteps, ReportsSteps DEF ProcessesInv
<1>3. QED
  BY <1>1, <1>2, PTL DEF Spec

\* Each process's state keeps its shape, for any numbers of workers, partitions, messages,
\* segments, sessions and hooks.
THEOREM ProcessesTypeCorrect == Spec => []TypeOK
<1>1. ProcessesInv => TypeOK
  BY DEF ProcessesInv, SupervisorInv, SweepInv, GateInv, ReportsInv, TypeOK
<1>2. QED
  BY <1>1, ProcessesInvariant, PTL

\* No committed offset passes a message that was not processed, unless a revocation cancelled
\* what another worker had begun since (MessageConsumer.handle, revoke).
THEOREM OffsetsPassNothing == Spec => []NoMessageSkipped
<1>1. ProcessesInv => NoMessageSkipped
  BY DEF ProcessesInv, SupervisorInv
<1>2. QED
  BY <1>1, ProcessesInvariant, PTL

\* No process disposes what its executions or its job still use, as long as they can be found
\* and heed their cancellation in time, and a failure shows (MessageConsumer.run, _drain, serve).
THEOREM ProcessesExitCleanly == Spec => []ExitIsClean
<1>1. ProcessesInv => ExitIsClean
  BY ExecutionsEnded DEF ProcessesInv, SweepInv, ExitIsClean
<1>2. QED
  BY <1>1, ProcessesInvariant, PTL

\* A completed sweep has visited every segment that wanted a label since it began, for every
\* page size and limit of a batch (ScanLabelProposals, SweepLabelProposals).
THEOREM SweepsAreComplete == Spec => []SweepVisitsAll
<1>1. ProcessesInv => SweepVisitsAll
  BY DEF ProcessesInv, SweepInv
<1>2. QED
  BY <1>1, ProcessesInvariant, PTL

\* No session passes the gate with a tree it was not told the verdict of, and no failure blocks
\* it more than MaxBlocks times in a row, however many sessions share the file (gate, block).
THEOREM GateIsSound == Spec => []GateHolds
<1>1. ProcessesInv => GateHolds
  BY GateKept DEF ProcessesInv
<1>2. QED
  BY <1>1, ProcessesInvariant, PTL

\* Reports of consecutive windows add up, however many hooks append to the log while they are
\* made: each line is counted in one of them, or in none when it came after its report, a session
\* is new in one at most, and what a report tells by model, kind of entry point, revision and day
\* adds up to its totals (in_window, new_sessions, by_entrypoint, by_agent_model, trend).
THEOREM ReportsAreConsistent == Spec => []ReportsAddUp
<1>1. ProcessesInv => ReportsAddUp
  BY ReportsAdd DEF ProcessesInv
<1>2. QED
  BY <1>1, ProcessesInvariant, PTL

=============================================================================
