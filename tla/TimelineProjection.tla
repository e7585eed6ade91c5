------------------------- MODULE TimelineProjection -------------------------
(***************************************************************************)
(* The pure fold of activity records into timeline segments                *)
(* (src/mosemo/observation/domain/timeline.py).                            *)
(*                                                                         *)
(* A record is [device, sequence, observedAt, kind]; device and sequence   *)
(* are unique and stand for the event id.  kind is "suspended" or "active" *)
(* for a change of the collection state and otherwise the context that was *)
(* observed.  A segment is [first, last, ended]: its start, its context or *)
(* its gap's reason are those of the first record, last_observed_at is the *)
(* last record's; a gap has no last record and keeps its first here.       *)
(***************************************************************************)
EXTENDS Integers, Sequences, FiniteSets

CONSTANTS
  MaxGap,   \* MAX_OBSERVATION_GAP
  Open      \* ended_at = None

ASSUME GapAssumption == MaxGap \in Nat /\ Open \notin Int

-----------------------------------------------------------------------------
(* Records *)

\* observation_key: observed time, then device, then the device's own sequence.
Before(r, q) ==
  \/ r.observedAt < q.observedAt
  \/ r.observedAt = q.observedAt /\ r.device < q.device
  \/ r.observedAt = q.observedAt /\ r.device = q.device /\ r.sequence < q.sequence

\* Each record has its place in the order.
Observations(S) ==
  /\ \A r \in S : r.device \in Int /\ r.sequence \in Int /\ r.observedAt \in Int
  /\ \A r, q \in S : r.device = q.device /\ r.sequence = q.sequence => r = q

\* The elements of S in the order Precedes.
InOrder(S, Precedes(_, _)) ==
  LET rank == [x \in S |-> Cardinality({y \in S : ~Precedes(x, y)})]
  IN [i \in 1..Cardinality(S) |-> CHOOSE x \in S : rank[x] = i]

MergeOrder(S) == InOrder(S, Before)

-----------------------------------------------------------------------------
(* Segments *)

IsGap(s) == s.first.kind = "suspended"

Start(s) == s.first.observedAt

\* Every field of the row but its id.
SameAs(s, row) == s.first = row.first /\ s.last = row.last /\ s.ended = row.ended

Reaches(s, t) == Start(s) > t \/ s.ended = Open \/ s.ended > t

CanInherit(s, row) == IsGap(s) = IsGap(row)

Continues(s, row) ==
  /\ CanInherit(s, row)
  /\ IsGap(s) \/ s.first.kind = row.first.kind
  /\ Start(row) >= Start(s)
  /\ s.ended = Open \/ Start(row) <= s.ended

\* ActivityTimelineSegment.effective_ended_at: silence closes an activity.
EffectiveEnd(s, now) ==
  IF ~IsGap(s) /\ s.ended = Open /\ now - s.last.observedAt > MaxGap
    THEN s.last.observedAt ELSE s.ended

-----------------------------------------------------------------------------
(* TimelineProjection *)

\* The segment ends where the next one starts, or where it was last observed.
CloseAt(s, t) ==
  [s EXCEPT !.ended = IF IsGap(s) \/ t - s.last.observedAt <= MaxGap
                        THEN t ELSE s.last.observedAt]

\* Mutant of Extends: the gap between the observations is not looked at.
ExtendsAnyGap(s, r) == r.kind # "suspended" /\ r.kind = s.first.kind

Extends(s, r) ==
  /\ r.kind # "suspended" /\ r.kind = s.first.kind
  /\ r.observedAt - s.last.observedAt <= MaxGap

\* feed: the last segment goes on, or the record closes it and opens a new one.
Feed(p, r) ==
  LET n == Len(p)
      opened == [first |-> r, last |-> r, ended |-> Open]
  IN IF r.kind = "active" THEN p
     ELSE IF n = 0 THEN <<opened>>
     ELSE IF r.kind = "suspended" /\ IsGap(p[n]) THEN p
     ELSE IF Extends(p[n], r) THEN [p EXCEPT ![n] = [@ EXCEPT !.last = r, !.ended = Open]]
     ELSE Append([p EXCEPT ![n] = CloseAt(@, r.observedAt)], opened)

\* What the projection holds after each of the records, from the segments p.
Fed(p, rs) ==
  LET state[n \in 0..Len(rs)] == IF n = 0 THEN p ELSE Feed(state[n - 1], rs[n])
  IN state

Project(p, rs) == Fed(p, rs)[Len(rs)]

\* finish: silence since the last observation closes the last activity.
Finish(p, now) ==
  IF p = <<>> THEN p
  ELSE [p EXCEPT ![Len(p)] = [@ EXCEPT !.ended = EffectiveEnd(p[Len(p)], now)]]

\* segment_seed: the stored end is derived, the next observation may extend it.
Seed(row) == [first |-> row.first, last |-> row.last, ended |-> Open]
=============================================================================
