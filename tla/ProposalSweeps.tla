--------------------------- MODULE ProposalSweeps ---------------------------
(***************************************************************************)
(* The batch process: a scheduler, or one run of one job, around the sweep *)
(* that looks for segments that want a label, page by page, while the      *)
(* timeline changes under it (platform/scheduling.py,                      *)
(* entrypoints/batch/__main__.py, labeling/application/proposals.py).      *)
(*                                                                         *)
(* LabelProposals has what a worker does with one candidate; here an       *)
(* attempt visits a segment, and settles it or not.  A segment is its id.  *)
(***************************************************************************)
EXTENDS Naturals, Sequences, FiniteSets, FiniteSetsExt

CONSTANTS
  MaxSegment,    \* segment ids are 1..MaxSegment
  PageSize,      \* SCAN_PAGE_SIZE
  MaxProcessed,  \* attempts of one batch
  MaxScanned,    \* segments scanned in one batch
  MaxChanges     \* bound of the timeline's changes

ASSUME SweepsAssumption ==
  {MaxSegment, PageSize, MaxProcessed, MaxScanned} \subseteq Nat \ {0} /\ MaxChanges \in Nat

VARIABLES
  command,    \* serve, or run one job once
  process,    \* where the process is
  signalled,  \* the stop event
  job,        \* the job's task
  overdue,    \* the wait for the cancelled job timed out
  cursor,     \* last segment scanned, 0 for none
  page,       \* segments of the page that are left, with whether they need processing
  processed,  \* attempts of this batch
  scanned,    \* segments scanned in this batch
  segments,   \* of each id: none closed, settled, or wanting a label
  changes,    \* how often they changed
  wanting,    \* history: segments that have wanted a label since the sweep began
  visited     \* history: segments this sweep attempted, or found busy

scanVars == <<cursor, page, processed, scanned, wanting, visited>>
sweepVars == <<command, process, signalled, job, overdue, scanVars, segments, changes>>

Ids == 1..MaxSegment

SweepInit ==
  /\ command = "none" /\ process = "starting" /\ signalled = FALSE
  /\ job = "none" /\ overdue = FALSE
  /\ cursor = 0 /\ page = <<>> /\ processed = 0 /\ scanned = 0
  /\ segments = [s \in Ids |-> "none"]
  /\ changes = 0
  /\ wanting = {} /\ visited = {}

-----------------------------------------------------------------------------
(* The timeline and other workers *)

\* Segments are closed, replaced under another id, confirmed, or proposed for elsewhere.
SegmentChanges(s) ==
  /\ changes < MaxChanges /\ process # "exited"
  /\ \E status \in {"none", "settled", "wanting"} \ {segments[s]} :
       /\ segments' = [segments EXCEPT ![s] = status]
       /\ wanting' = wanting \ {s}
  /\ changes' = changes + 1
  /\ UNCHANGED <<command, process, signalled, job, overdue, cursor, page, processed, scanned, visited>>

\* The segments there are when the process starts.
Launch ==
  /\ process = "starting"
  /\ segments' \in [Ids -> {"settled", "wanting"}]
  /\ command' \in {"serve", "run"}
  /\ process' = "serving"
  /\ UNCHANGED <<signalled, job, overdue, scanVars, changes>>

-----------------------------------------------------------------------------
(* SweepLabelProposals *)

\* A tick, on start or every five minutes, begins a sweep; a tick during one is dropped,
\* and run_job_once has only one.
Begin ==
  /\ process = "serving" /\ ~signalled /\ job = "none"
  /\ job' = "running"
  /\ cursor' = 0 /\ page' = <<>> /\ processed' = 0 /\ scanned' = 0
  /\ wanting' = {s \in Ids : segments[s] = "wanting"}
  /\ visited' = {}
  /\ UNCHANGED <<command, process, signalled, overdue, segments, changes>>

After == {s \in Ids : s > cursor /\ segments[s] # "none"}

\* The first so many ids, in order
InOrder(ids, limit) ==
  [i \in 1..(IF Cardinality(ids) < limit THEN Cardinality(ids) ELSE limit) |->
     CHOOSE s \in ids : Cardinality({x \in ids : x < s}) = i - 1]

\* Mutant of Limit: a page does not heed the batch's limit.
LimitOfPage == PageSize

Limit == IF PageSize < MaxScanned - scanned THEN PageSize ELSE MaxScanned - scanned
BatchFull == processed = MaxProcessed \/ scanned = MaxScanned

\* _find_page: one snapshot of the segments after the cursor and of what they need.
FindPage ==
  /\ job = "running" /\ page = <<>> /\ ~BatchFull
  /\ After # {}
  /\ page' = [i \in DOMAIN InOrder(After, Limit) |->
       [id |-> InOrder(After, Limit)[i], needs |-> segments[InOrder(After, Limit)[i]] = "wanting"]]
  /\ UNCHANGED <<command, process, signalled, job, overdue, cursor, processed, scanned, segments,
                 changes, wanting, visited>>

\* There is no page: the sweep is complete.
Complete ==
  /\ job = "running" /\ page = <<>> /\ ~BatchFull
  /\ After = {}
  /\ job' = "completed"
  /\ UNCHANGED <<command, process, signalled, overdue, scanVars, segments, changes>>

\* Mutant of NextCursor: the cursor of a batch that is full goes past its page.
PageEnd(full) == page[IF full THEN Len(page) ELSE 1].id

\* The cursor after a segment, whether or not it was the batch's last.
NextCursor(full) == Head(page).id

\* A segment is scanned: ProposeLabel is asked where the snapshot says so, and settles it,
\* records an attempt that failed, or finds nothing to do or the timeline locked.
ScanSegment ==
  /\ job = "running" /\ page # <<>>
  /\ \E attempted \in {TRUE, FALSE} :
       /\ attempted => Head(page).needs /\ segments[Head(page).id] = "wanting"
       /\ processed' = processed + (IF attempted THEN 1 ELSE 0)
       /\ page' = IF processed' = MaxProcessed THEN <<>> ELSE Tail(page)
       /\ cursor' = NextCursor(processed' = MaxProcessed)
       /\ segments' \in {segments} \union
            (IF attempted THEN {[segments EXCEPT ![Head(page).id] = "settled"]} ELSE {})
  /\ scanned' = scanned + 1
  /\ visited' = visited \union (IF Head(page).needs THEN {Head(page).id} ELSE {})
  /\ UNCHANGED <<command, process, signalled, job, overdue, changes, wanting>>

\* The next batch goes on where this one stopped.
NextBatch ==
  /\ job = "running" /\ page = <<>> /\ BatchFull
  /\ processed' = 0 /\ scanned' = 0
  /\ UNCHANGED <<command, process, signalled, job, overdue, cursor, page, segments, changes, wanting,
                 visited>>

-----------------------------------------------------------------------------
(* execute_job, serve, run_job_once *)

JobEnds(result) ==
  /\ job' = result
  /\ UNCHANGED <<command, process, signalled, overdue, scanVars, segments, changes>>

\* Any exception ends this run; the next one starts from the beginning.
JobFails == job = "running" /\ JobEnds("failed")

JobCancelled == job = "cancelling" /\ JobEnds("cancelled")

\* The scheduler forgets a finished run.
Forgotten == command = "serve" /\ job \in {"completed", "failed", "cancelled"} /\ JobEnds("none")

Signal ==
  /\ process = "serving" /\ ~signalled
  /\ signalled' = TRUE
  /\ UNCHANGED <<command, process, job, overdue, scanVars, segments, changes>>

JobGoes == job \in {"running", "cancelling"}

\* The stop event is seen, or the one run is over: a job that goes on is cancelled.
Shutdown ==
  /\ process = "serving"
  /\ signalled \/ (command = "run" /\ job \in {"completed", "failed"})
  /\ process' = "waiting"
  /\ job' = IF JobGoes THEN "cancelling" ELSE job
  /\ UNCHANGED <<command, signalled, overdue, scanVars, segments, changes>>

\* Ten seconds are over, and the job ignores its cancellation.
WaitTimesOut ==
  /\ process = "waiting" /\ JobGoes /\ ~overdue
  /\ overdue' = TRUE
  /\ UNCHANGED <<command, process, signalled, job, scanVars, segments, changes>>

\* The engine is disposed, and the process ends.
ProcessExits ==
  /\ process = "waiting" /\ (~JobGoes \/ overdue)
  /\ process' = "exited"
  /\ UNCHANGED <<command, signalled, job, overdue, scanVars, segments, changes>>

SweepStep == Begin \/ FindPage \/ Complete \/ ScanSegment \/ NextBatch \/ JobFails
EndStep == JobCancelled \/ Forgotten \/ Signal \/ Shutdown \/ WaitTimesOut \/ ProcessExits

SweepNext == Launch \/ SweepStep \/ EndStep \/ \E s \in Ids : SegmentChanges(s)

\* The event loop runs what is ready; the job need not heed its cancellation.
SweepFairness == WF_sweepVars(Shutdown \/ WaitTimesOut \/ ProcessExits)

SweepSpec == SweepInit /\ [][SweepNext]_sweepVars /\ SweepFairness

-----------------------------------------------------------------------------
(* Properties *)

\* The shape of the state.
SweepTypeOK ==
  /\ command \in {"none", "serve", "run"} /\ process \in {"starting", "serving", "waiting", "exited"}
  /\ signalled \in BOOLEAN /\ overdue \in BOOLEAN
  /\ job \in {"none", "running", "cancelling", "completed", "failed", "cancelled"}
  /\ cursor \in 0..MaxSegment
  /\ page \in Seq([id : Ids, needs : BOOLEAN]) /\ Len(page) <= PageSize
  /\ processed \in 0..MaxProcessed /\ scanned \in 0..MaxScanned
  /\ segments \in [Ids -> {"none", "settled", "wanting"}]
  /\ changes \in 0..MaxChanges
  /\ wanting \subseteq Ids /\ visited \subseteq Ids

\* A sweep that completes has visited every segment that wanted a label when it began and
\* has not changed since, however the others come and go, move to other ids or are
\* settled, and wherever its batches end (ScanLabelProposals, SweepLabelProposals).
SweepVisitsAll == job = "completed" => wanting \subseteq visited

\* The engine is not disposed under a job, unless the job outlived its cancellation by the
\* timeout (serve, run_job_once).
JobEndsFirst == process = "exited" => ~JobGoes \/ overdue
=============================================================================
