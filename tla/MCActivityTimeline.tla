------------------------- MODULE MCActivityTimeline -------------------------
(* Finite instances of ActivityTimeline and its readers for TLC. *)
EXTENDS LabelTimeline

CONSTANTS
  Times1,   \* instants at which device 1 observes
  Times2,   \* instants at which device 2 observes
  Kinds1,   \* kinds of the records of device 1
  Kinds2    \* kinds of the records of device 2

Observable ==
  [device : {1}, sequence : 1..3, observedAt : Times1, kind : Kinds1]
    \union [device : {2}, sequence : 1..2, observedAt : Times2, kind : Kinds2]

\* Records sent one at a time.
Singles == {{r} : r \in Observable}

\* Two neighbours of device 1 that waited for the network together.
Offline ==
  {S \in {{r, q} : r, q \in {p \in Observable : p.device = 1}} :
     \E r, q \in S : q.sequence = r.sequence + 1 /\ r.observedAt <= q.observedAt}

Mixed == Singles \union Offline

\* Every account starts empty.
NoHistory == {{}}

R(d, n, t, k) == [device |-> d, sequence |-> n, observedAt |-> t, kind |-> k]

\* No history, or one with records of two devices at one instant.
Histories ==
  {{},
   {R(1, 1, 0, "A"), R(1, 2, 1, "A"), R(2, 1, 1, "B")},
   {R(1, 1, 0, "A"), R(2, 1, 0, "suspended"), R(2, 2, 1, "active")},
   {R(1, 1, 1, "A"), R(2, 1, 1, "suspended"), R(2, 2, 2, "B")}}

\* Days of two, two and many instants.
DayStarts == <<0, 2, 4, 20>>

C(a, b, stale, opaque) == [label |-> [k \in {"A", "B"} |-> IF k = "A" THEN a ELSE b],
                           stale |-> stale, opaque |-> opaque]

\* One label, two, a label and none, and nothing that applies.
ConfirmedLabels ==
  {C("X", "X", FALSE, {}), C("X", Unclassified, FALSE, {}), C(Pending, "X", FALSE, {}),
   C("X", Unclassified, TRUE, {}), C("X", "X", FALSE, {"B"})}
=============================================================================
