------------------------------ MODULE StopGate ------------------------------
(***************************************************************************)
(* The gate that an agent's session must pass to stop: it formats and      *)
(* checks what changed in the work tree, and remembers for each session    *)
(* what passed and what it blocked, in one file that the sessions of the   *)
(* work tree share (.codex/hooks/stop_gate.py, post_edit_feedback.py).     *)
(*                                                                         *)
(* A work tree is named by its text, that is by what the fingerprint       *)
(* covers: every changed path and its content.                             *)
(***************************************************************************)
EXTENDS Naturals, FiniteSets

CONSTANTS
  Agents,      \* sessions, each its own session_id
  Texts,       \* work trees with a changed Python file
  Clean,       \* the work tree without one
  Formatted,   \* what `ruff format` makes of each text
  Verdict,     \* what the checks say of it: Passing, or the failure
  Passing,
  Broken,      \* the failure of the gate itself
  MaxBlocks,
  MaxEdits,    \* bound of the edits
  MaxStops,    \* bound of the stops
  Nothing      \* no entry

ASSUME GateAssumption ==
  /\ Formatted \in [Texts -> Texts] /\ DOMAIN Verdict = Texts
  /\ Nothing \notin Texts \union {Clean}
  /\ Broken # Passing /\ MaxBlocks \in Nat \ {0} /\ MaxEdits \in Nat /\ MaxStops \in Nat

VARIABLES
  tree,       \* the work tree
  state,      \* STATE_FILE: each session's record
  gate,       \* each session's stop
  edits,      \* edits so far
  stops,      \* stops so far
  judged,     \* history: trees each session was told a verdict of
  unseen,     \* history: trees recorded though they changed after the checks
  blocksRun,  \* history: the last failure that blocked each session, and how often in a row
  overwritten \* history: sessions whose record another session's save put back

gateVars == <<tree, state, gate, edits, stops, judged, unseen, blocksRun, overwritten>>

Failures == {Verdict[t] : t \in Texts} \union {Broken}

EmptyRecord == [passed |-> Nothing, failure |-> Nothing, change |-> Nothing, count |-> 0]
Record == [passed : Texts \union {Clean, Nothing}, failure : Failures \union {Nothing},
           change : Texts \union {Clean, Nothing}, count : 0..MaxBlocks]

\* `seen` is what the checks saw, `change` the fingerprint, `copy` the loaded state.
Stop ==
  [step : {"idle", "format", "compare", "check", "fingerprint", "load", "save"},
   seen : Texts \union {Clean, Nothing}, verdict : Failures \union {Passing, Nothing},
   change : Texts \union {Clean, Nothing}, result : {"none", "skip", "cached", "allow", "block", "capped"},
   copy : [Agents -> Record]]

NoStop == [step |-> "idle", seen |-> Nothing, verdict |-> Nothing, change |-> Nothing,
           result |-> "none", copy |-> [a \in Agents |-> EmptyRecord]]

GateInit ==
  /\ tree = Clean
  /\ state = [a \in Agents |-> EmptyRecord]
  /\ gate = [a \in Agents |-> NoStop]
  /\ edits = 0 /\ stops = 0
  /\ judged = [a \in Agents |-> {}]
  /\ unseen = {}
  /\ blocksRun = [a \in Agents |-> [failure |-> Nothing, count |-> 0]]
  /\ overwritten = {}

historyVars == <<judged, unseen, blocksRun, overwritten>>

-----------------------------------------------------------------------------
(* The sessions *)

\* An edit, which the hook after edits formats if it can; or a commit, or a revert.
EditTree(a) ==
  /\ gate[a].step = "idle" /\ edits < MaxEdits
  /\ edits' = edits + 1
  /\ \/ \E text \in Texts : tree' \in {text, Formatted[text]}
     \/ tree' = Clean
  /\ tree' # tree
  /\ UNCHANGED <<state, gate, stops, historyVars>>

Goes(a, s) == gate' = [gate EXCEPT ![a] = s]

\* changed_paths: nothing to do without a changed Python file.
AskToStop(a) ==
  /\ gate[a].step = "idle" /\ stops < MaxStops
  /\ stops' = stops + 1
  /\ Goes(a, IF tree = Clean THEN [NoStop EXCEPT !.step = "load", !.result = "skip"]
                              ELSE [NoStop EXCEPT !.step = "format"])
  /\ UNCHANGED <<tree, state, edits, historyVars>>

\* ruff format, in the work tree; or its command is missing, or the time is over.
FormatTree(a) ==
  /\ gate[a].step = "format"
  /\ \/ /\ tree' = IF tree = Clean THEN tree ELSE Formatted[tree]
        /\ Goes(a, [gate[a] EXCEPT !.step = "compare"])
     \/ /\ Goes(a, [gate[a] EXCEPT !.step = "compare", !.verdict = Broken])
        /\ UNCHANGED tree
  /\ UNCHANGED <<state, edits, stops, historyVars>>

\* Mutant of Fingerprint: the paths without their contents.
PathsOf(t) == IF t = Clean THEN t ELSE CHOOSE x \in Texts : TRUE

\* change_fingerprint
Fingerprint(t) == t

Known(record) == {record.passed, record.change}

\* A tree that passed, or that this session was blocked for, is not checked again.
Compare(a) ==
  /\ gate[a].step = "compare"
  /\ Goes(a, IF Fingerprint(tree) \in Known(state[a])
               THEN [gate[a] EXCEPT !.step = "load", !.seen = tree, !.verdict = Nothing, !.result = "cached"]
               ELSE [gate[a] EXCEPT !.step = "check"])
  /\ UNCHANGED <<tree, state, edits, stops, historyVars>>

\* The style checks, and the tests if they pass: none after a formatter that did not run,
\* and no more after one of them that does not.
Check(a) ==
  LET said == IF tree = Clean THEN Passing ELSE Verdict[tree]
  IN /\ gate[a].step = "check"
     /\ \E verdict \in (IF gate[a].verdict = Broken THEN {} ELSE {said}) \union {Broken} :
          Goes(a, [gate[a] EXCEPT !.step = "fingerprint", !.seen = tree, !.verdict = verdict])
     /\ UNCHANGED <<tree, state, edits, stops, historyVars>>

\* What is recorded is the tree as it is after the checks.
TakeFingerprint(a) ==
  LET stop == gate[a]
  IN /\ stop.step = "fingerprint"
     /\ Goes(a, [stop EXCEPT !.step = "load", !.change = Fingerprint(tree),
                   !.result = IF stop.verdict = Passing THEN "allow" ELSE "block"])
     /\ judged' = [judged EXCEPT ![a] = @ \union {stop.seen}]
     /\ unseen' = IF tree = stop.seen THEN unseen ELSE unseen \union {tree}
     /\ UNCHANGED <<tree, state, edits, stops, blocksRun, overwritten>>

\* git fails, or is too late: a failure like others, of no tree.
GateBreaks(a) ==
  /\ gate[a].step \in {"format", "compare", "fingerprint"}
  /\ Goes(a, [gate[a] EXCEPT !.step = "load", !.verdict = Broken, !.change = Nothing,
                             !.result = "block"])
  /\ UNCHANGED <<tree, state, edits, stops, historyVars>>

\* load_state: an empty one if it cannot be read, as while another session writes it.
LoadState(a) ==
  /\ gate[a].step = "load"
  /\ \E copy \in {state} \union
          (IF \E b \in Agents \ {a} : gate[b].step = "save" THEN {[b \in Agents |-> EmptyRecord]} ELSE {}) :
       Goes(a, [gate[a] EXCEPT !.step = "save", !.copy = copy])
  /\ UNCHANGED <<tree, state, edits, stops, historyVars>>

\* allow: the record of the blocks goes; the fingerprint stays only if the checks passed.
Allowed(record, passed) ==
  [EmptyRecord EXCEPT !.passed = IF passed = Nothing THEN record.passed ELSE passed]

\* block: how often this failure has now been met in a row
CountOf(record, failure) == IF record.failure = failure THEN record.count + 1 ELSE 1

\* The record a stop leaves, and what it says.
Judgement(stop, record) ==
  LET count == CountOf(record, stop.verdict)
  IN IF stop.result # "block"
       THEN [record |-> Allowed(record, IF stop.result = "allow" THEN stop.change ELSE Nothing),
             blocked |-> FALSE]
     ELSE IF count > MaxBlocks THEN [record |-> Allowed(record, Nothing), blocked |-> FALSE]
     ELSE [record |-> [record EXCEPT !.failure = stop.verdict, !.change = stop.change, !.count = count],
           blocked |-> TRUE]

\* save_state: the file is written as it was loaded, but for this session's record.
SaveState(a) ==
  LET stop == gate[a]
      judgement == Judgement(stop, stop.copy[a])
      run == blocksRun[a]
  IN /\ stop.step = "save"
     /\ state' = [stop.copy EXCEPT ![a] = judgement.record]
     /\ overwritten' = overwritten \union {b \in Agents \ {a} : stop.copy[b] # state[b]}
                                   \union {b \in {a} : stop.copy[a] # state[a]}
     /\ blocksRun' = [blocksRun EXCEPT ![a] =
          IF ~judgement.blocked THEN [failure |-> Nothing, count |-> 0]
          ELSE [failure |-> stop.verdict, count |-> IF run.failure = stop.verdict THEN run.count + 1 ELSE 1]]
     /\ Goes(a, NoStop)
     /\ UNCHANGED <<tree, edits, stops, judged, unseen>>

GateStep(a) ==
  \/ EditTree(a) \/ AskToStop(a) \/ FormatTree(a) \/ Compare(a) \/ Check(a) \/ TakeFingerprint(a)
  \/ GateBreaks(a) \/ LoadState(a) \/ SaveState(a)

GateNext == \E a \in Agents : GateStep(a)

GateSpec == GateInit /\ [][GateNext]_gateVars

-----------------------------------------------------------------------------
(* Properties *)

\* The shape of the state.
GateTypeOK ==
  /\ tree \in Texts \union {Clean}
  /\ state \in [Agents -> Record]
  /\ gate \in [Agents -> Stop]
  /\ edits \in 0..MaxEdits /\ stops \in 0..MaxStops

\* A tree that a session is let through with unchecked is one it was told the verdict of,
\* unless someone changed it while the checks ran: neither the other sessions' records
\* nor their saves, that undo its own, let another through (gate, allow, block).
CachedWasJudged ==
  \A a \in Agents :
    gate[a].result = "cached" => gate[a].seen \in judged[a] \union unseen

\* One failure blocks a session at most MaxBlocks times in a row, but for sessions whose
\* records are lost because another saves at the same time (block, save_state).
BlocksEnd ==
  \A a \in Agents \ overwritten : blocksRun[a].count <= MaxBlocks
=============================================================================
