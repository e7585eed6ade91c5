-------------------------- MODULE ActivityTimeline --------------------------
(***************************************************************************)
(* The observation timeline of one account: batches of records arrive in   *)
(* any order and each transaction stores its records and brings the stored *)
(* segments up to date, by appending to the last segment or by replaying   *)
(* from the segment before the earliest new record until the result        *)
(* converges with a stored segment (observation/application/batches.py,    *)
(* observation/infrastructure/timeline_segments.py).                       *)
(*                                                                         *)
(* Batches of an account are processed one at a time: by the partition of  *)
(* the account's key, or under the account timeline lock.                  *)
(***************************************************************************)
EXTENDS TimelineProjection, SequencesExt

CONSTANTS
  Batches,   \* batches devices may send, each a set of records of one device
  Legacies,  \* record sets an account may have from before its first receipt
  Clock      \* times at which a batch may be processed

\* Unique constraints of activity_records name a record by its device and sequence: of
\* two records of a batch under one sequence the later is not stored, and a batch here
\* is what is left.
ASSUME InputsAssumption ==
  /\ \A S \in Batches \union Legacies : IsFiniteSet(S) /\ Observations(S)
  /\ Clock \subseteq Int /\ Clock # {} /\ IsFiniteSet(Clock)

VARIABLES
  records,      \* activity_records of the account's devices
  segments,     \* activity_timeline_segments of the account
  initialized   \* the account has a receipt

vars == <<records, segments, initialized>>

\* Rows in the order of _ordered_account_segments.
Rows(S) == InOrder(S, LAMBDA s, t : Before(s.first, t.first))

\* The least ids not in use, as uuid7 draws new ones.
Fresh(used) == Min(1..(Cardinality(used) + 1) \ used)

-----------------------------------------------------------------------------
(* TimelineSegmentRepository *)

\* Mutant of ReplayStart: the instant of the new record counts as earlier.
ReplayStartInclusive(rows, t) ==
  LET earlier == {Start(s) : s \in {s \in rows : Start(s) <= t}}
  IN IF earlier = {} THEN t ELSE Max(earlier)

\* find_replay_start
ReplayStart(rows, t) ==
  LET earlier == {Start(s) : s \in {s \in rows : Start(s) < t}}
  IN IF earlier = {} THEN t ELSE Max(earlier)

\* Mutant of ReusableId: an id may be given to two segments.
ReusableIdAgain(s, replaced, reused) ==
  LET same == {i \in DOMAIN replaced : replaced[i].first = s.first}
      found == IF same # {} THEN same ELSE {i \in DOMAIN replaced : Continues(s, replaced[i])}
  IN IF found # {} /\ CanInherit(s, replaced[Min(found)]) THEN replaced[Min(found)].id ELSE 0

\* Mutant of ReusableId: only the row with the same first event is considered.
ReusableIdSameFirst(s, replaced, reused) ==
  LET same == {i \in DOMAIN replaced : replaced[i].first = s.first /\ replaced[i].id \notin reused}
  IN IF same # {} THEN replaced[Min(same)].id ELSE 0

\* _reusable_id: the id of the row with the same first event, else of the first
\* replaced row the segment continues; 0 for none.
ReusableId(s, replaced, reused) ==
  LET free == {i \in DOMAIN replaced : replaced[i].id \notin reused}
      same == {i \in free : replaced[i].first = s.first}
      found == IF same # {} THEN same ELSE {i \in free : Continues(s, replaced[i])}
  IN IF found # {} /\ CanInherit(s, replaced[Min(found)]) THEN replaced[Min(found)].id ELSE 0

\* The rows written for the projected segments, ids first come first served.
Written(projected, replaced, kept) ==
  LET Write(acc, s) ==
        LET reuse == ReusableId(s, replaced, acc.reused)
            id == IF reuse # 0 THEN reuse
                  ELSE Fresh({row.id : row \in kept \union acc.rows \union ToSet(replaced)})
        IN [rows |-> acc.rows \union {[id |-> id, first |-> s.first, last |-> s.last, ended |-> s.ended]},
            reused |-> acc.reused \union ({reuse} \ {0})]
  IN FoldLeft(Write, [rows |-> {}, reused |-> {}], projected).rows

\* _converged_index of one projected segment; 0 for none.
ConvergedIndex(s, existing, t) ==
  IF Reaches(s, t) THEN SelectInSeq(existing, LAMBDA row : SameAs(s, row)) ELSE 0

\* replace_account_segments: what precedes the first converged segment is replaced.
Replace(rows, projected, existing, t) ==
  LET i == SelectInSeq(projected, LAMBDA s : ConvergedIndex(s, existing, t) # 0)
      new == IF i = 0 THEN projected ELSE SubSeq(projected, 1, i - 1)
      old == IF i = 0 THEN existing
             ELSE SubSeq(existing, 1, ConvergedIndex(projected[i], existing, t) - 1)
      kept == rows \ ToSet(old)
  IN kept \union Written(new, old, kept)

-----------------------------------------------------------------------------
(* ActivityBatchProcessor *)

\* The first receipt of an account with history rebuilds all of it.
RebuildLegacy(rows, now) ==
  LET ordered == MergeOrder(records)
  IN Replace(rows, Finish(Project(<<>>, ordered), now), Rows(rows), Last(ordered).observedAt)

AppendTo(rows, ordered, now) ==
  LET lastRow == Last(Rows(rows))
  IN Replace(rows, Finish(Project(<<Seed(lastRow)>>, ordered), now), <<lastRow>>,
             Last(ordered).observedAt)

\* Replay page by page until every new record is past and a closed segment is
\* one that is stored, or to the end.
ReplayOn(rows, ordered, now) ==
  LET t == Last(ordered).observedAt
      start == ReplayStart(rows, ordered[1].observedAt)
      source == MergeOrder({r \in records \union ToSet(ordered) : r.observedAt >= start})
      fed == Fed(<<>>, source)
      closed(n) == fed[n][Len(fed[n]) - 1]
      Converged(n) ==
        /\ Len(fed[n]) > Len(fed[n - 1]) /\ Len(fed[n]) > 1
        /\ ToSet(ordered) \subseteq {source[i] : i \in 1..n}
        /\ Reaches(closed(n), t)
        /\ \E row \in rows : SameAs(closed(n), row)
      n == SelectInSeq([i \in 1..Len(source) |-> Converged(i)], LAMBDA c : c)
      From(through) == Rows({s \in rows : Start(s) >= start /\ (through = Open \/ Start(s) <= through)})
  IN IF n # 0
       THEN Replace(rows, Front(fed[n]), From(Start(closed(n))), t)
       ELSE Replace(rows, Finish(fed[Len(source)], now), From(Open), t)

\* _project
ProjectOn(rows, adopted, now) ==
  LET ordered == MergeOrder(adopted)
  IN IF (\A r \in records : Before(r, ordered[1])) /\ rows # {}
       THEN AppendTo(rows, ordered, now)
       ELSE ReplayOn(rows, ordered, now)

\* Each device's clock never runs backwards along its sequence.
Monotone(S) ==
  \A r, q \in S : r.device = q.device /\ r.sequence < q.sequence => r.observedAt <= q.observedAt

\* Stored already, under the same event id or device sequence.
Taken(r) == \E q \in records : q.device = r.device /\ q.sequence = r.sequence

\* process: one transaction; a batch out of device order changes nothing, and so
\* does every batch of an account whose history is.
Process(batch, now) ==
  LET adopted == {r \in batch : ~Taken(r)}
      base == IF initialized \/ records = {} THEN segments ELSE RebuildLegacy(segments, now)
  IN /\ Monotone(records \union adopted)
     /\ initialized' = TRUE
     /\ records' = records \union adopted
     /\ segments' = IF adopted = {} THEN base ELSE ProjectOn(base, adopted, now)

\* A legacy account's timeline followed the order of arrival between ties.
Init ==
  /\ initialized = FALSE
  /\ records \in Legacies
  /\ \E order \in SetToSeqs(records) :
       /\ \A i, j \in DOMAIN order : i < j => order[i].observedAt <= order[j].observedAt
       /\ segments = Written(Project(<<>>, order), <<>>, {})

Next == \E batch \in Batches, now \in Clock : Process(batch, now)

Spec == Init /\ [][Next]_vars

-----------------------------------------------------------------------------
(* Properties *)

\* The shape of the tables: a segment names stored records of one kind, and ends no
\* earlier than it was last observed (the last_observed_order and time_order checks of
\* activity_timeline_segments, which would abort the batch); no two share their id, handed
\* from replaced rows to new ones at every batch, or their first event, by which a label
\* finds its segment.
TypeOK ==
  /\ initialized \in BOOLEAN
  /\ records \subseteq UNION (Batches \union Legacies)
  /\ segments \subseteq [id : Nat \ {0}, first : records, last : records, ended : Int \union {Open}]
  /\ \A s \in segments :
       /\ s.first.kind = s.last.kind
       /\ Start(s) <= s.last.observedAt
       /\ s.ended = Open \/ s.last.observedAt <= s.ended
       /\ \A t \in segments : s # t => s.id # t.id /\ s.first # t.first

\* What a reader sees once every silence has passed.
Shown(rows) ==
  [i \in DOMAIN rows |->
     [first |-> rows[i].first, last |-> rows[i].last,
      ended |-> EffectiveEnd(rows[i], Max(Clock))]]

FullReplay(recs) == Project(<<>>, MergeOrder(recs))

Exact(rows, recs) == Shown(Rows(rows)) = Shown(FullReplay(recs))

\* What the rules of the product say a timeline is, record by record and without a fold
\* (docs/prd/observation-timeline.md:231-233): a record joins the one before it when
\* both are of one kind and, for observations, at most MaxGap apart; a gap lasts until
\* the next observation, an activity until the next record, unless silence came first.
Grouping(recs) ==
  LET seen == {r \in recs : r.kind # "active"}
      Joins(q, r) == /\ q.kind = r.kind
                     /\ r.kind = "suspended" \/ r.observedAt - q.observedAt <= MaxGap
      Adjacent(q, r) == Before(q, r) /\ \A p \in seen : Before(p, r) => ~Before(q, p)
      firsts == {r \in seen : \A q \in seen : Adjacent(q, r) => ~Joins(q, r)}
      Later(f) == {g \in firsts : Before(f, g)}
      Members(f) == {r \in seen : ~Before(r, f) /\ \A g \in Later(f) : Before(r, g)}
      LastOf(f) == IF f.kind = "suspended" THEN f
                   ELSE CHOOSE r \in Members(f) : \A q \in Members(f) : ~Before(r, q)
      Ended(f) ==
        LET next == {g.observedAt : g \in Later(f)}
            silence == LastOf(f).observedAt + MaxGap
        IN IF f.kind # "suspended" /\ (IF next = {} THEN Max(Clock) ELSE Min(next)) > silence
             THEN LastOf(f).observedAt
             ELSE IF next = {} THEN Open ELSE Min(next)
  IN {[first |-> f, last |-> LastOf(f), ended |-> Ended(f)] : f \in firsts}

\* The fold groups the records as the product's rules say.
FoldGroups == ToSet(Shown(FullReplay(records))) = Grouping(records)

\* The stored timeline is the one a replay of every record yields, whatever the order
\* and the batches in which the records came. The records of two devices at one
\* instant break it: a replay starts at the instant a segment starts, and takes a
\* record that belongs to the segment before for the start of a segment.
MatchesFullReplay == initialized => Exact(segments, records)

\* No segment starts at an instant whose earlier records belong to the segment before.
StartsAreCuts(recs) ==
  LET firsts == {s.first : s \in ToSet(FullReplay(recs))}
  IN \A r \in firsts, q \in recs :
       q.observedAt = r.observedAt /\ q.kind # "active" =>
         \E f \in firsts : f.observedAt = q.observedAt /\ (f = q \/ Before(f, q))

\* No row but the last is open. A legacy timeline may hold another: ties that arrived
\* against their order leave open the segment that arrived last.
OpenIsLast(rows) == \A i \in DOMAIN rows : rows[i].ended = Open => i = Len(rows)

\* Everywhere else a batch, late or not, keeps the stored timeline exact: appending to
\* the last segment, replaying from an earlier one and stopping where the result
\* converges, agree with a replay of every record, and so does the first rebuild of an
\* account with history unless an open gap of it is not the last row: the rebuild would
\* converge with that row, and leave those after it.
ReplayIsExact ==
  [][/\ records' # records
     /\ StartsAreCuts(records)
     /\ IF initialized THEN Exact(segments, records) ELSE OpenIsLast(Rows(segments))
     => Exact(segments', records')]_vars

\* The row a record falls in.
RowOf(rows, r) ==
  LET started == {s \in rows : ~Before(r, s.first)}
  IN CHOOSE s \in started : \A t \in started : ~Before(s.first, t.first)

\* The rows of the old timeline that live on in the new one: each that starts its
\* segment still, or is the first of those merged into it.
LiveOn(old, new) ==
  LET holds == {<<s, RowOf(new, s.first)>> : s \in old}
      merged == {h \in holds : h[1].first.kind = h[2].first.kind}
  IN {<<h[1].id, h[2].id>> : h \in
        {h \in merged : \A m \in merged : m[2] = h[2] => ~Before(m[1].first, h[1].first)}}

StartsDiffer(rows) == \A s, t \in rows : s # t => Start(s) # Start(t)

\* A segment that goes on keeps its id, merged segments keep the first one's, and the
\* parts of a split get new ids but for the part with the old start
\* (docs/prd/observation-timeline.md:177-180); asked where no two segments start at one
\* instant, since there an earlier part may take the id of the later one.
IdentityKept ==
  [][initialized /\ segments' # segments /\ StartsDiffer(segments') =>
       LiveOn(segments, segments') =
         {<<s.id, s.id>> : s \in {s \in segments : \E t \in segments' : t.id = s.id}}]_vars
=============================================================================
