---------------------------- MODULE LabelTimeline ----------------------------
(***************************************************************************)
(* What readers make of the stored timeline: a segment as it is observed   *)
(* at an instant, the segments of a day, and the user's label timeline,    *)
(* which joins neighbours with one label (observation/application/         *)
(* timeline.py, labeling/application/timeline.py).                         *)
(*                                                                         *)
(* Reads change nothing: they are operators on the rows of                 *)
(* ActivityTimeline, asked at any instant.                                 *)
(***************************************************************************)
EXTENDS ActivityTimeline

CONSTANTS
  Midnights,     \* the instants at which the account's days begin, in order
  Reads,         \* instants at which a user reads
  Unclassified,  \* the label id None of a confirmation
  Pending,       \* no confirmation applies
  Confirmed        \* what the user may have confirmed, and which contexts are opaque

ASSUME ReadsAssumption ==
  /\ Reads \subseteq Int /\ Midnights \in Seq(Int)
  /\ \A day \in 1..(Len(Midnights) - 1) : Midnights[day] < Midnights[day + 1]

-----------------------------------------------------------------------------
(* ObservationTimeline *)

\* timeline_kind_at
KindAt(s, opaque, now) ==
  IF IsGap(s) THEN "capture_gap"
  ELSE IF s.first.kind \in opaque THEN "opaque"
  ELSE IF EffectiveEnd(s, now) = Open THEN "in_progress" ELSE "closed_detailed"

\* segment_version: what the hash is taken of; context and times are the records'.
SegmentVersion(s, ended) == <<s.first, s.last, ended>>

\* _observed
Observed(s, opaque, now) ==
  LET ended == EffectiveEnd(s, now)
      kind == KindAt(s, opaque, now)
  IN [id |-> s.id, first |-> s.first, ended |-> ended, kind |-> kind,
      version |-> IF ended # Open /\ kind # "capture_gap" THEN SegmentVersion(s, ended) ELSE <<>>]

OverlapsWindow(s, start, end, now) ==
  LET ended == EffectiveEnd(s, now)
  IN CASE ended = Open     -> Start(s) < end /\ (IsGap(s) \/ s.last.observedAt >= start)
       [] ended = Start(s) -> start <= Start(s) /\ Start(s) < end
       [] OTHER            -> Start(s) < end /\ ended > start

\* Mutant of ListDateSegments: a segment of no length is left out.
ListDateSegmentsLong(rows, start, end) ==
  {s \in rows : Start(s) < end /\ IF s.ended = Open THEN IsGap(s) \/ s.last.observedAt >= start
                                                    ELSE s.ended > start}

\* list_date_segments: by the stored end, before the silence is known.
ListDateSegments(rows, start, end) ==
  {s \in rows :
     /\ Start(s) < end
     /\ \/ s.ended # Open /\ s.ended > start
        \/ s.ended = Start(s) /\ Start(s) >= start
        \/ s.ended = Open /\ ~IsGap(s) /\ s.last.observedAt >= start
        \/ s.ended = Open /\ IsGap(s)}

\* list_window
ListWindow(rows, opaque, start, end, now) ==
  LET listed == Rows({s \in ListDateSegments(rows, start, end) : OverlapsWindow(s, start, end, now)})
  IN [i \in DOMAIN listed |-> Observed(listed[i], opaque, now)]

\* timeline_date_window: nothing for a day that has not begun.
DateWindow(day, now) ==
  IF Midnights[day] > now THEN <<>> ELSE <<Midnights[day], Midnights[day + 1]>>

-----------------------------------------------------------------------------
(* GetLabelTimeline *)

\* _timeline_entry: the label confirmed for this version of the segment.
LabelOf(observed, confirmations) ==
  LET found == {c \in confirmations : c.first = observed.first /\ c.version = observed.version}
  IN IF found = {} THEN Pending ELSE (CHOOSE c \in found : TRUE).label

Entry(observed, confirmations) ==
  [segment |-> observed,
   label |-> IF observed.kind = "closed_detailed" THEN LabelOf(observed, confirmations) ELSE Pending]

\* LabelTimelineEntry.joins
JoinsEntry(e, previous) ==
  /\ e.segment.kind = "closed_detailed" /\ previous.segment.kind = "closed_detailed"
  /\ previous.segment.ended = Start(e.segment)
  /\ previous.label = e.label

\* _group_items: an entry joins the group before it, or begins an item.
GroupItems(entries) ==
  LET Place(items, e) ==
        IF items # <<>> /\ JoinsEntry(e, Last(Last(items)))
          THEN Append(Front(items), Append(Last(items), e))
          ELSE Append(items, <<e>>)
  IN FoldLeft(Place, <<>>, entries)

\* execute
GetLabelTimeline(rows, choice, day, now) ==
  LET window == DateWindow(day, now)
      listed == ListWindow(rows, choice.opaque, window[1], window[2], now)
      confirmations ==
        {[first |-> s.first,
          version |-> IF choice.stale THEN <<>> ELSE SegmentVersion(s, EffectiveEnd(s, now)),
          label |-> choice.label[s.first.kind]] :
            s \in {s \in rows : ~IsGap(s) /\ choice.label[s.first.kind] # Pending}}
  IN IF window = <<>> THEN <<>>
     ELSE GroupItems([i \in DOMAIN listed |-> Entry(listed[i], confirmations)])

-----------------------------------------------------------------------------
(* Properties *)

\* The instants at which a segment goes on, as far as is known: a segment of no length has
\* its start, an observed one runs to its last observation.
Extent(s, now) ==
  LET ended == EffectiveEnd(s, now)
      until == IF ended # Open THEN ended - 1 ELSE IF IsGap(s) THEN now ELSE s.last.observedAt
  IN {Start(s)} \union (Start(s)..until)

\* A day shows each segment that has an instant in it, once and in order, whether its end
\* is stored, found by silence or open; and neighbours are one group exactly when they
\* touch and carry one label, or none (list_date_segments, overlaps_window, _group_items).
DayIsTold ==
  \A now \in Reads, day \in 1..(Len(Midnights) - 1) :
    Midnights[day] <= now =>
      LET hours == Midnights[day]..(Midnights[day + 1] - 1)
          told == Rows({s \in segments : Extent(s, now) \intersect hours # {}})
          Closed(s) == ~IsGap(s) /\ EffectiveEnd(s, now) # Open
          touching == {i \in 2..Len(told) : Closed(told[i - 1]) /\ Closed(told[i])
                                            /\ EffectiveEnd(told[i - 1], now) = Start(told[i])}
      IN \A choice \in Confirmed :
           LET items == GetLabelTimeline(segments, choice, day, now)
               shown == FlattenSeq(items)
               Label(s) == IF choice.stale THEN Pending ELSE choice.label[s.first.kind]
               one == {i \in touching : /\ {told[i - 1].first.kind, told[i].first.kind} \intersect choice.opaque = {}
                                        /\ Label(told[i - 1]) = Label(told[i])}
           IN /\ [i \in DOMAIN shown |-> shown[i].segment.id] = [i \in DOMAIN told |-> told[i].id]
              /\ Len(items) = Len(told) - Cardinality(one)

\* A reader at an instant comes after the batch whose processing found the last segment
\* silent.
ReadsAfter(rows, seen) ==
  rows # {} =>
    LET row == Last(Rows(rows)) IN row.ended = EffectiveEnd(Seed(row), seen) \/ row.ended = Open

\* The version of a closed segment that a user has seen stands while only newer
\* observations come: silence closes a segment for the reader where the projection will
\* close it, so a choice made for it is not lost (_observed, _feed_observation, finish).
VersionStands ==
  [][initialized /\ records' # records =>
       \A seen \in {t \in Reads : /\ \A r \in records : r.observedAt <= t
                                  /\ \A r \in records' \ records : r.observedAt > t} :
         ReadsAfter(segments, seen) =>
           \A s \in segments, later \in {t \in Reads : seen <= t} :
             LET version == Observed(s, {}, seen).version
             IN version # <<>> => \E t \in segments' : Observed(t, {}, later).version = version]_vars
=============================================================================
