--------------------------- MODULE TimelineProofs ---------------------------
(***************************************************************************)
(* Theorems about the fold of TimelineProjection, the segments that        *)
(* ActivityTimeline stores and the days that LabelTimeline tells, for      *)
(* every set of batches, any history, any clock and any largest gap.       *)
(***************************************************************************)
EXTENDS LabelTimeline, SequenceLemmas

\* A segment whose records are of R.
SegmentOf(R) == [first : R, last : R, ended : Int \union {Open}]

-----------------------------------------------------------------------------
(* The order of the records *)

\* Before is a strict total order of records with a key of their own.
LEMMA BeforeOrders ==
  ASSUME NEW S, Observations(S)
  PROVE  /\ \A x \in S : ~Before(x, x)
         /\ \A x, y \in S : x # y => Before(x, y) \/ Before(y, x)
         /\ \A x, y, z \in S : Before(x, y) /\ Before(y, z) => Before(x, z)
         /\ \A x, y \in S : Before(x, y) => ~Before(y, x) /\ x.observedAt <= y.observedAt
<1>1. \A x \in S : x.device \in Int /\ x.sequence \in Int /\ x.observedAt \in Int
  BY DEF Observations
<1>2. \A x \in S : ~Before(x, x)
  BY <1>1 DEF Before
<1>3. ASSUME NEW x \in S, NEW y \in S, x # y PROVE Before(x, y) \/ Before(y, x)
  <2>1. ~(x.device = y.device /\ x.sequence = y.sequence)
    BY <1>3 DEF Observations
  <2>2. QED
    BY <1>1, <2>1 DEF Before
<1>4. \A x, y, z \in S : Before(x, y) /\ Before(y, z) => Before(x, z)
  BY <1>1 DEF Before
<1>5. \A x, y \in S : Before(x, y) => ~Before(y, x) /\ x.observedAt <= y.observedAt
  BY <1>1 DEF Before
<1>6. QED
  BY <1>2, <1>3, <1>4, <1>5

\* The merge order of a set of records has each of them, in its place.
LEMMA MergeOrderSorts ==
  ASSUME NEW S, IsFiniteSet(S), Observations(S)
  PROVE  LET o == MergeOrder(S)
         IN  /\ o \in Seq(S) /\ Len(o) = Cardinality(S) /\ Cardinality(S) \in Nat
             /\ ToSet(o) = S
             /\ \A i, j \in DOMAIN o : i < j => Before(o[i], o[j])
<1> DEFINE rel == {p \in S \X S : Before(p[1], p[2])}
<1>1. \A x, y \in S : <<x, y>> \in rel <=> Before(x, y)
  OBVIOUS
<1>2. MergeOrder(S) = ByRank(S, Ranks(S, rel))
  <2>1. \A x \in S : {y \in S : ~Before(x, y)} = {y \in S : <<x, y>> \notin rel}
    BY <1>1
  <2> HIDE DEF rel
  <2>2. [x \in S |-> Cardinality({y \in S : ~Before(x, y)})] = Ranks(S, rel)
    BY <2>1 DEF Ranks
  <2>3. QED
    BY <2>2 DEF MergeOrder, InOrder, ByRank
<1> HIDE DEF rel
<1>3. LET o == ByRank(S, Ranks(S, rel))
      IN  /\ o \in Seq(S) /\ Len(o) = Cardinality(S) /\ Cardinality(S) \in Nat
          /\ ToSet(o) = S
          /\ \A i, j \in DOMAIN o : i < j => <<o[i], o[j]>> \in rel
  BY <1>1, BeforeOrders, OrderedSet
<1>4. \A i \in DOMAIN MergeOrder(S) : MergeOrder(S)[i] \in S
  BY <1>2, <1>3
<1>5. QED
  BY <1>1, <1>2, <1>3, <1>4

\* Rows have first events of their own.
RowsApart(rows) ==
  /\ IsFiniteSet(rows) /\ Observations({s.first : s \in rows})
  /\ \A s, t \in rows : s # t => s.first # t.first

\* Rows are read in the order of their first events.
LEMMA RowsSort ==
  ASSUME NEW S, RowsApart(S)
  PROVE  LET o == Rows(S)
         IN  /\ o \in Seq(S) /\ Len(o) = Cardinality(S) /\ Cardinality(S) \in Nat
             /\ ToSet(o) = S
             /\ \A i, j \in DOMAIN o : i < j => Before(o[i].first, o[j].first)
<1> DEFINE rel == {p \in S \X S : Before(p[1].first, p[2].first)}
           F == {s.first : s \in S}
<1>1. \A x, y \in S : <<x, y>> \in rel <=> Before(x.first, y.first)
  OBVIOUS
<1>2. Rows(S) = ByRank(S, Ranks(S, rel))
  <2>1. \A x \in S : {y \in S : ~Before(x.first, y.first)} = {y \in S : <<x, y>> \notin rel}
    BY <1>1
  <2> HIDE DEF rel
  <2>2. [x \in S |-> Cardinality({y \in S : ~Before(x.first, y.first)})] = Ranks(S, rel)
    BY <2>1 DEF Ranks
  <2>3. QED
    <3>1. Rows(S) = ByRank(S, [x \in S |-> Cardinality({y \in S : ~Before(x.first, y.first)})])
      BY Zenon DEF Rows, InOrder, ByRank
    <3>2. QED
      BY <2>2, <3>1
<1> HIDE DEF rel
<1>3. /\ \A x \in S : <<x, x>> \notin rel
      /\ \A x, y \in S : x # y => <<x, y>> \in rel \/ <<y, x>> \in rel
      /\ \A x, y, z \in S : <<x, y>> \in rel /\ <<y, z>> \in rel => <<x, z>> \in rel
  <2>1. /\ \A x \in F : ~Before(x, x)
        /\ \A x, y \in F : x # y => Before(x, y) \/ Before(y, x)
        /\ \A x, y, z \in F : Before(x, y) /\ Before(y, z) => Before(x, z)
    BY BeforeOrders DEF RowsApart
  <2>2. \A x \in S : x.first \in F
    OBVIOUS
  <2> HIDE DEF F
  <2>3. \A x, y \in S : x # y => x.first # y.first
    BY DEF RowsApart
  <2>4. QED
    BY <1>1, <2>1, <2>2, <2>3
<1>4. LET o == ByRank(S, Ranks(S, rel))
      IN  /\ o \in Seq(S) /\ Len(o) = Cardinality(S) /\ Cardinality(S) \in Nat
          /\ ToSet(o) = S
          /\ \A i, j \in DOMAIN o : i < j => <<o[i], o[j]>> \in rel
  BY <1>3, OrderedSet DEF RowsApart
<1>5. \A i \in DOMAIN Rows(S) : Rows(S)[i] \in S
  BY <1>2, <1>4
<1>6. QED
  BY <1>1, <1>2, <1>4, <1>5

-----------------------------------------------------------------------------
(* The fold *)

\* feed keeps the segments' types.
LEMMA FeedTyped ==
  ASSUME NEW R, \A r \in R : r.observedAt \in Int,
         NEW p \in Seq(SegmentOf(R)), NEW r \in R
  PROVE  Feed(p, r) \in Seq(SegmentOf(R))
<1> DEFINE n == Len(p)
           opened == [first |-> r, last |-> r, ended |-> Open]
<1>1. opened \in SegmentOf(R)
  BY DEF SegmentOf
<1>2. ASSUME n # 0
      PROVE  /\ n \in DOMAIN p /\ p[n] \in SegmentOf(R)
             /\ [p[n] EXCEPT !.last = r, !.ended = Open] \in SegmentOf(R)
             /\ CloseAt(p[n], r.observedAt) \in SegmentOf(R)
  <2>1. n \in DOMAIN p /\ p[n] \in SegmentOf(R)
    BY <1>2
  <2>2. p[n].last \in R
    BY <2>1 DEF SegmentOf
  <2>3. QED
    BY <2>1, <2>2 DEF SegmentOf, CloseAt
<1>3. ASSUME n # 0, NEW s \in SegmentOf(R) PROVE [p EXCEPT ![n] = s] \in Seq(SegmentOf(R))
  <2>1. p \in [1..n -> SegmentOf(R)] /\ n \in Nat
    OBVIOUS
  <2> HIDE DEF n
  <2>2. [p EXCEPT ![n] = s] \in [1..n -> SegmentOf(R)]
    BY <2>1
  <2>3. QED
    BY <2>1, <2>2
<1>4. n = 0 => <<opened>> \in Seq(SegmentOf(R))
  BY <1>1
<1>5. n # 0 => /\ [p EXCEPT ![n] = [p[n] EXCEPT !.last = r, !.ended = Open]] \in Seq(SegmentOf(R))
               /\ [p EXCEPT ![n] = CloseAt(p[n], r.observedAt)] \in Seq(SegmentOf(R))
  BY <1>2, <1>3
<1>6. n # 0 => Append([p EXCEPT ![n] = CloseAt(p[n], r.observedAt)], opened) \in Seq(SegmentOf(R))
  <2> HIDE DEF opened, n
  <2>1. QED
    BY <1>1, <1>5
<1>7. QED
  BY <1>4, <1>5, <1>6 DEF Feed

\* The states f of a projection that starts with p and is fed rs, records of R.
Feeds(f, p, rs, R) ==
  /\ f \in [0..Len(rs) -> Seq(SegmentOf(R))]
  /\ f[0] = p
  /\ \A n \in 1..Len(rs) : f[n] = Feed(f[n - 1], rs[n])

\* What the projection holds after each record follows from what it held before it.
LEMMA FedSteps ==
  ASSUME NEW R, \A r \in R : r.observedAt \in Int,
         NEW p \in Seq(SegmentOf(R)), NEW rs \in Seq(R)
  PROVE  Feeds(Fed(p, rs), p, rs, R)
<1> DEFINE N == Len(rs)
           A == Seq(SegmentOf(R))
           g == [n \in 1..N |-> [a \in A |-> Feed(a, rs[n])]]
           Is(f) == f = [n \in 0..N |-> IF n = 0 THEN p ELSE Feed(f[n - 1], rs[n])]
<1>1. N \in Nat /\ \A n \in 1..N : rs[n] \in R
  OBVIOUS
<1>2. g \in [1..N -> [A -> A]] /\ \A a \in A, n \in 1..N : g[n][a] = Feed(a, rs[n])
  <2>1. \A a \in A, n \in 1..N : Feed(a, rs[n]) \in A
    BY <1>1, FeedTyped
  <2> HIDE DEF A
  <2>2. QED
    BY <2>1
<1> HIDE DEF g, A
<1>3. PICK f : f \in [0..N -> A] /\ f[0] = p /\ \A n \in 1..N : f[n] = g[n][f[n - 1]]
  <2>1. p \in A
    BY DEF A
  <2>2. \E f : StepsThrough(f, A, p, N, g)
    BY <1>1, <1>2, <2>1, StepsDefined
  <2>3. QED
    BY <2>2 DEF StepsThrough
<1>4. Is(f)
  <2>1. \A n \in 1..N : n - 1 \in 0..N
    BY <1>1
  <2>2. \A n \in 1..N : f[n] = Feed(f[n - 1], rs[n])
    BY <1>2, <1>3, <2>1
  <2>3. \A n \in 0..N : n = 0 \/ n \in 1..N
    BY <1>1
  <2>4. QED
    BY <1>3, <2>2, <2>3
<1> DEFINE c == Fed(p, rs)
<1>5. Is(c)
  <2>1. c = CHOOSE h : Is(h)
    BY DEF Fed
  <2> HIDE DEF Is, c
  <2>2. QED
    BY <1>4, <2>1
<1> HIDE DEF c
<1>6. \A n \in 0..N : c[n] = f[n]
  <2> DEFINE T == {n \in 1..(N + 1) : c[n - 1] = f[n - 1]}
  <2>1. 1 \in T
    BY <1>1, <1>3, <1>5
  <2>2. ASSUME NEW n \in 1..(N + 1), n \in T, n < N + 1 PROVE n + 1 \in T
    <3>1. n \in 1..N /\ n \in 0..N /\ n # 0 /\ (n + 1) - 1 = n /\ n + 1 \in 1..(N + 1)
      BY <1>1, <2>2
    <3>2. c[n] = Feed(c[n - 1], rs[n]) /\ f[n] = Feed(f[n - 1], rs[n])
      BY <1>4, <1>5, <3>1
    <3>3. QED
      BY <2>2, <3>1, <3>2
  <2>3. N + 1 \in Nat
    BY <1>1
  <2> HIDE DEF T
  <2>4. \A n \in 1..(N + 1) : n \in T
    BY <2>1, <2>2, <2>3, Upwards
  <2>5. \A n \in 0..N : n + 1 \in 1..(N + 1) /\ (n + 1) - 1 = n
    BY <1>1
  <2>6. QED
    BY <2>4, <2>5 DEF T
<1>7. c \in [0..N -> A] /\ c[0] = p
  BY <1>1, <1>3, <1>5, <1>6
<1>8. \A n \in 1..N : c[n] = Feed(c[n - 1], rs[n])
  BY <1>1, <1>5
<1>9. QED
  BY <1>7, <1>8 DEF Feeds, A, c

-----------------------------------------------------------------------------
(* The rules of the product, piece by piece *)

\* The records that count, what joins, and which begin a segment (Grouping).
Seen(S) == {r \in S : r.kind # "active"}

JoinsTo(q, r) ==
  /\ q.kind = r.kind
  /\ r.kind = "suspended" \/ r.observedAt - q.observedAt <= MaxGap

NextIn(T, q, r) == Before(q, r) /\ \A p \in T : Before(p, r) => ~Before(q, p)

FirstsOf(T) == {r \in T : \A q \in T : NextIn(T, q, r) => ~JoinsTo(q, r)}

LaterIn(T, f) == {g \in FirstsOf(T) : Before(f, g)}

MembersIn(T, f) == {r \in T : ~Before(r, f) /\ \A g \in LaterIn(T, f) : Before(r, g)}

LastIn(T, f) ==
  IF f.kind = "suspended" THEN f
  ELSE CHOOSE r \in MembersIn(T, f) : \A q \in MembersIn(T, f) : ~Before(r, q)

EndIn(T, f) ==
  LET next == {g.observedAt : g \in LaterIn(T, f)}
      silence == LastIn(T, f).observedAt + MaxGap
  IN IF f.kind # "suspended" /\ (IF next = {} THEN Max(Clock) ELSE Min(next)) > silence
       THEN LastIn(T, f).observedAt
       ELSE IF next = {} THEN Open ELSE Min(next)

\* The segments p tell the records of T: each is of one kind, begins where a record
\* does not join the one before it, has the last of its members as last record, and ends
\* as the next one begins or as it was last observed.
KindsTold(p) ==
  \A k \in 1..Len(p) :
    /\ p[k].last.kind = p[k].first.kind
    /\ ~Before(p[k].last, p[k].first)
    /\ IsGap(p[k]) => p[k].last = p[k].first

OrderTold(p) ==
  \A k, l \in 1..Len(p) :
    k < l => Before(p[k].first, p[l].first) /\ Before(p[k].last, p[l].first)

LastsTold(p, T) ==
  \A k \in 1..Len(p) : ~IsGap(p[k]) =>
    \A q \in T : k = Len(p) \/ Before(q, p[k + 1].first) => ~Before(p[k].last, q)

GapTold(p, T) ==
  Len(p) # 0 /\ IsGap(p[Len(p)]) =>
    \A q \in T : ~Before(q, p[Len(p)].first) => q.kind = "suspended"

StartsTold(p, T) == {p[k].first : k \in 1..Len(p)} = FirstsOf(T)

EndsTold(p) ==
  /\ \A k \in 1..(Len(p) - 1) :
       p[k].ended = IF IsGap(p[k]) \/ Start(p[k + 1]) - p[k].last.observedAt <= MaxGap
                      THEN Start(p[k + 1]) ELSE p[k].last.observedAt
  /\ Len(p) # 0 => p[Len(p)].ended = Open

Told(p, T) ==
  /\ p \in Seq(SegmentOf(T))
  /\ p = <<>> => T = {}
  /\ T # {} => \E z \in T : \A q \in T : ~Before(z, q)
  /\ KindsTold(p)
  /\ OrderTold(p)
  /\ LastsTold(p, T)
  /\ GapTold(p, T)
  /\ StartsTold(p, T)
  /\ EndsTold(p)

\* Told segments are made of the records told.
LEMMA ToldTyped ==
  ASSUME NEW p, NEW T, Told(p, T)
  PROVE  /\ Len(p) \in Nat /\ DOMAIN p = 1..Len(p)
         /\ \A k \in 1..Len(p) : p[k].first \in T /\ p[k].last \in T /\ p[k] \in SegmentOf(T)
<1>1. \A A : p \in Seq(A) => /\ Len(p) \in Nat /\ DOMAIN p = 1..Len(p)
                             /\ \A k \in 1..Len(p) : p[k] \in A
  OBVIOUS
<1>2. \A x \in SegmentOf(T) : x.first \in T /\ x.last \in T
  BY DEF SegmentOf
<1>3. p \in Seq(SegmentOf(T))
  BY DEF Told
<1>4. QED
  BY <1>1, <1>2, <1>3

\* A record after all others begins a segment unless it joins the latest of them.
LEMMA FirstsGrow ==
  ASSUME NEW T, NEW r, Observations(T \union {r}), \A q \in T : Before(q, r),
         NEW z \in T, \A q \in T : ~Before(z, q)
  PROVE  FirstsOf(T \union {r}) = IF JoinsTo(z, r) THEN FirstsOf(T) ELSE FirstsOf(T) \union {r}
<1> DEFINE U == T \union {r}
<1>1. /\ \A x \in U : ~Before(x, x)
      /\ \A x, y \in U : x # y => Before(x, y) \/ Before(y, x)
      /\ \A x, y, w \in U : Before(x, y) /\ Before(y, w) => Before(x, w)
      /\ \A x, y \in U : Before(x, y) => ~Before(y, x)
  BY BeforeOrders
<1>2. r \notin T
  BY <1>1
<1>3. ASSUME NEW x \in T PROVE x \in FirstsOf(U) <=> x \in FirstsOf(T)
  <2>1. ~Before(r, x)
    BY <1>1
  <2>2. \A q \in T : NextIn(U, q, x) <=> NextIn(T, q, x)
    BY <2>1 DEF NextIn
  <2>3. ~NextIn(U, r, x)
    BY <2>1 DEF NextIn
  <2>4. QED
    BY <2>2, <2>3 DEF FirstsOf
<1>4. \A q \in T : NextIn(U, q, r) <=> q = z
  <2>1. NextIn(U, z, r)
    BY <1>1 DEF NextIn
  <2>2. ASSUME NEW q \in T, q # z PROVE ~NextIn(U, q, r)
    <3>1. Before(q, z) /\ Before(z, r)
      BY <1>1, <2>2
    <3>2. QED
      BY <3>1 DEF NextIn
  <2>3. QED
    BY <2>1, <2>2
<1>5. ~NextIn(U, r, r)
  BY <1>1 DEF NextIn
<1>6. r \in FirstsOf(U) <=> ~JoinsTo(z, r)
  BY <1>4, <1>5 DEF FirstsOf
<1>7. FirstsOf(U) \subseteq U /\ FirstsOf(T) \subseteq T
  BY DEF FirstsOf
<1>8. QED
  BY <1>2, <1>3, <1>6, <1>7

\* The latest record told is the last one of the last segment, or of its gap.
LEMMA LatestTold ==
  ASSUME NEW p, NEW T, Observations(T), Told(p, T), p # <<>>
  PROVE  /\ Len(p) \in Nat /\ Len(p) # 0 /\ p[Len(p)] \in SegmentOf(T)
         /\ \E z \in T : /\ \A q \in T : ~Before(z, q)
                         /\ z.kind = p[Len(p)].first.kind
                         /\ ~IsGap(p[Len(p)]) => z = p[Len(p)].last
<1>1. Len(p) \in Nat /\ Len(p) # 0 /\ Len(p) \in 1..Len(p) /\ p[Len(p)] \in SegmentOf(T)
  BY DEF Told
<1>2. p[Len(p)].first \in T /\ p[Len(p)].last \in T
  BY <1>1 DEF SegmentOf
<1>3. PICK z \in T : \A q \in T : ~Before(z, q)
  BY <1>2 DEF Told
<1>4. CASE IsGap(p[Len(p)])
  BY <1>1, <1>2, <1>3, <1>4, BeforeOrders DEF Told, GapTold, IsGap
<1>5. CASE ~IsGap(p[Len(p)])
  <2>1. \A q \in T : ~Before(p[Len(p)].last, q)
    BY <1>1, <1>5 DEF Told, LastsTold
  <2>2. p[Len(p)].last.kind = p[Len(p)].first.kind
    BY <1>1 DEF Told, KindsTold
  <2>3. QED
    BY <1>1, <1>2, <2>1, <2>2
<1>6. QED
  BY <1>1, <1>4, <1>5

\* What a step of the fold is told of: the segments so far, and a record after all theirs.
Tells(p, T, r) ==
  /\ Observations(T \union {r}) /\ Told(p, T)
  /\ \A q \in T : Before(q, r)
  /\ r.kind # "active"

\* Records of one set, and those of a larger one.
LEMMA ToldOrder ==
  ASSUME NEW p, NEW T, NEW r, Tells(p, T, r)
  PROVE  LET U == T \union {r}
         IN  /\ Observations(T) /\ p \in Seq(SegmentOf(U)) /\ Len(p) \in Nat
             /\ \A q \in T : Before(q, r) /\ ~Before(r, q) /\ q # r
             /\ ~Before(r, r) /\ \A q \in U : ~Before(r, q)
             /\ \A k \in 1..Len(p) : p[k].first \in T /\ p[k].last \in T /\ p[k] \in SegmentOf(T)
<1>1. /\ Observations(T) /\ SegmentOf(T) \subseteq SegmentOf(T \union {r})
  BY DEF Tells, Observations, SegmentOf
<1>2. p \in Seq(SegmentOf(T))
  BY DEF Tells, Told
<1>3. p \in Seq(SegmentOf(T \union {r})) /\ Len(p) \in Nat
  <2>1. \A A, B : A \subseteq B /\ p \in Seq(A) => p \in Seq(B) /\ Len(p) \in Nat
    OBVIOUS
  <2>2. QED
    BY <1>1, <1>2, <2>1
<1>4. \A k \in 1..Len(p) : p[k].first \in T /\ p[k].last \in T /\ p[k] \in SegmentOf(T)
  BY ToldTyped DEF Tells
<1>5. \A q \in T : Before(q, r) /\ ~Before(r, q)
  BY BeforeOrders DEF Tells
<1>6. ~Before(r, r)
  BY BeforeOrders DEF Tells
<1>7. QED
  BY <1>1, <1>3, <1>4, <1>5, <1>6

\* The first record begins the first segment.
LEMMA TellFirst ==
  ASSUME NEW T, NEW r, Tells(<<>>, T, r)
  PROVE  Told(<<[first |-> r, last |-> r, ended |-> Open]>>, T \union {r})
<1> DEFINE s == [first |-> r, last |-> r, ended |-> Open]
           p == <<s>>
<1>1. T = {} /\ T \union {r} = {r} /\ ~Before(r, r)
  BY BeforeOrders DEF Tells, Told
<1>2. s \in SegmentOf({r}) /\ s.first = r /\ s.last = r /\ s.ended = Open
  BY DEF SegmentOf
<1>3. p \in Seq(SegmentOf({r})) /\ Len(p) = 1 /\ p[1] = s /\ \A k \in 1..1 : k = 1
  BY <1>2
<1>4. FirstsOf({r}) = {r}
  BY <1>1 DEF FirstsOf, NextIn
<1> HIDE DEF s, p
<1>5. KindsTold(p) /\ OrderTold(p) /\ LastsTold(p, {r}) /\ GapTold(p, {r})
  BY <1>1, <1>2, <1>3 DEF KindsTold, OrderTold, LastsTold, GapTold, IsGap
<1>6. StartsTold(p, {r}) /\ EndsTold(p)
  <2>1. StartsTold(p, {r})
    <3>1. 1 \in 1..Len(p) /\ \A k \in 1..Len(p) : p[k].first = r
      BY <1>2, <1>3
    <3>2. {p[k].first : k \in 1..Len(p)} = {r}
      BY <3>1
    <3>3. QED
      BY <1>4, <3>2 DEF StartsTold
  <2>2. 1..(Len(p) - 1) = {}
    BY <1>3
  <2>3. QED
    BY <1>2, <1>3, <2>1, <2>2 DEF EndsTold
<1>7. QED
  BY <1>1, <1>3, <1>5, <1>6 DEF Told, p, s

\* A gap goes on while the collection is suspended.
LEMMA TellGap ==
  ASSUME NEW p, NEW T, NEW r, Tells(p, T, r), p # <<>>, r.kind = "suspended", IsGap(p[Len(p)])
  PROVE  Told(p, T \union {r})
<1> DEFINE U == T \union {r}
<1>1. /\ Observations(T) /\ p \in Seq(SegmentOf(U)) /\ Len(p) \in Nat
      /\ \A q \in T : Before(q, r) /\ ~Before(r, q) /\ q # r
      /\ ~Before(r, r) /\ \A q \in U : ~Before(r, q)
      /\ \A k \in 1..Len(p) : p[k].first \in T /\ p[k].last \in T /\ p[k] \in SegmentOf(T)
  BY ToldOrder
<1>2. PICK z \in T : /\ \A q \in T : ~Before(z, q)
                     /\ z.kind = p[Len(p)].first.kind
  BY <1>1, LatestTold DEF Tells
<1>3. FirstsOf(U) = FirstsOf(T)
  BY <1>2, FirstsGrow DEF Tells, JoinsTo, IsGap
<1>4. KindsTold(p) /\ OrderTold(p) /\ StartsTold(p, U) /\ EndsTold(p)
  BY <1>3 DEF Tells, Told, StartsTold
<1>5. LastsTold(p, U)
  <2>1. SUFFICES ASSUME NEW k \in 1..Len(p), ~IsGap(p[k]), NEW q \in U,
                        k = Len(p) \/ Before(q, p[k + 1].first)
                 PROVE  ~Before(p[k].last, q)
    BY DEF LastsTold
  <2>2. k # Len(p) /\ k + 1 \in 1..Len(p)
    BY <1>1, <2>1
  <2>3. q \in T
    BY <1>1, <2>1, <2>2
  <2>4. QED
    BY <2>1, <2>3 DEF Tells, Told, LastsTold
<1>6. GapTold(p, U)
  BY DEF Tells, Told, GapTold
<1>7. QED
  BY <1>1, <1>4, <1>5, <1>6 DEF Told

\* An observation extends the activity it joins.
LEMMA TellExtends ==
  ASSUME NEW p, NEW T, NEW r, Tells(p, T, r), p # <<>>, Extends(p[Len(p)], r)
  PROVE  Told([p EXCEPT ![Len(p)] = [@ EXCEPT !.last = r, !.ended = Open]], T \union {r})
<1> DEFINE U == T \union {r}
           n == Len(p)
           s == [p[n] EXCEPT !.last = r, !.ended = Open]
           w == [p EXCEPT ![n] = s]
<1>1. /\ Observations(T) /\ p \in Seq(SegmentOf(U)) /\ Len(p) \in Nat
      /\ \A q \in T : Before(q, r) /\ ~Before(r, q) /\ q # r
      /\ ~Before(r, r) /\ \A q \in U : ~Before(r, q)
      /\ \A k \in 1..Len(p) : p[k].first \in T /\ p[k].last \in T /\ p[k] \in SegmentOf(T)
  BY ToldOrder
<1>2. n \in 1..n /\ n # 0
  BY <1>1
<1>3. PICK z \in T : /\ \A q \in T : ~Before(z, q)
                     /\ z.kind = p[n].first.kind
                     /\ ~IsGap(p[n]) => z = p[n].last
  BY <1>1, LatestTold DEF Tells
<1>4. ~IsGap(p[n]) /\ r.kind = p[n].first.kind /\ JoinsTo(z, r)
  BY <1>3 DEF Extends, IsGap, JoinsTo
<1>5. FirstsOf(U) = FirstsOf(T)
  BY <1>3, <1>4, FirstsGrow DEF Tells
<1>6. s \in SegmentOf(U) /\ s.first = p[n].first /\ s.last = r /\ s.ended = Open
  BY <1>1, <1>2 DEF SegmentOf
<1> HIDE DEF s
<1>7. /\ w \in Seq(SegmentOf(U)) /\ Len(w) = n /\ w # <<>>
      /\ \A k \in 1..n : w[k] = IF k = n THEN s ELSE p[k]
  BY <1>1, <1>2, <1>6
<1> HIDE DEF w, n
<1>8. \A k \in 1..n : /\ w[k].first = p[k].first
                      /\ k # n => w[k] = p[k]
                      /\ IsGap(w[k]) <=> IsGap(p[k])
  BY <1>6, <1>7 DEF IsGap
<1>9. w[n].last = r /\ w[n].ended = Open /\ w[n].first = p[n].first
  BY <1>2, <1>6, <1>7
<1>10. KindsTold(w)
  <2>1. KindsTold(p)
    BY DEF Tells, Told
  <2>2. ASSUME NEW k \in 1..n PROVE /\ w[k].last.kind = w[k].first.kind
                                    /\ ~Before(w[k].last, w[k].first)
                                    /\ IsGap(w[k]) => w[k].last = w[k].first
    <3>1. CASE k = n
      BY <1>1, <1>4, <1>8, <1>9, <3>1 DEF n
    <3>2. CASE k # n
      BY <1>8, <2>1, <3>2 DEF KindsTold, n
    <3>3. QED
      BY <3>1, <3>2
  <2>3. QED
    BY <1>7, <2>2 DEF KindsTold
<1>11. OrderTold(w)
  <2>1. \A k, l \in 1..n : k < l => k # n
    BY <1>2, <1>1 DEF n
  <2>2. QED
    BY <1>7, <1>8, <2>1 DEF Tells, Told, OrderTold, n
<1>12. LastsTold(w, U)
  <2>1. SUFFICES ASSUME NEW k \in 1..n, ~IsGap(w[k]), NEW q \in U,
                        k = n \/ Before(q, w[k + 1].first)
                 PROVE  ~Before(w[k].last, q)
    BY <1>7 DEF LastsTold
  <2>2. CASE k = n
    BY <1>1, <1>9, <2>2
  <2>3. CASE k # n
    <3>1. k + 1 \in 1..n
      BY <1>1, <2>3 DEF n
    <3>2. w[k + 1].first = p[k + 1].first /\ p[k + 1].first \in T
      BY <1>1, <1>8, <3>1 DEF n
    <3>3. q \in T
      BY <1>1, <2>1, <2>3, <3>2
    <3>4. QED
      BY <1>8, <2>1, <2>3, <3>2, <3>3 DEF Tells, Told, LastsTold, n
  <2>4. QED
    BY <2>2, <2>3
<1>13. GapTold(w, U)
  BY <1>4, <1>7, <1>8, <1>2 DEF GapTold
<1>14. StartsTold(w, U)
  BY <1>5, <1>7, <1>8 DEF Tells, Told, StartsTold, n
<1>15. EndsTold(w)
  <2>1. EndsTold(p)
    BY DEF Tells, Told
  <2>2. ASSUME NEW k \in 1..(n - 1)
        PROVE  w[k].ended = IF IsGap(w[k]) \/ Start(w[k + 1]) - w[k].last.observedAt <= MaxGap
                              THEN Start(w[k + 1]) ELSE w[k].last.observedAt
    <3>1. k \in 1..n /\ k # n /\ k + 1 \in 1..n
      BY <1>1 DEF n
    <3>2. w[k] = p[k] /\ Start(w[k + 1]) = Start(p[k + 1])
      BY <1>8, <3>1 DEF Start
    <3>3. QED
      BY <2>1, <3>2 DEF EndsTold, n
  <2>3. QED
    BY <1>7, <1>9, <2>2 DEF EndsTold
<1>16. r \in U /\ \A q \in U : ~Before(r, q)
  BY <1>1
<1>17. Told(w, U)
  BY <1>7, <1>10, <1>11, <1>12, <1>13, <1>14, <1>15, <1>16 DEF Told
<1>18. QED
  BY <1>17 DEF w, s, n

\* Any other record closes the last segment and begins one.
LEMMA TellOpens ==
  ASSUME NEW p, NEW T, NEW r, Tells(p, T, r), p # <<>>,
         ~(r.kind = "suspended" /\ IsGap(p[Len(p)])), ~Extends(p[Len(p)], r)
  PROVE  Told(Append([p EXCEPT ![Len(p)] = CloseAt(@, r.observedAt)],
                     [first |-> r, last |-> r, ended |-> Open]),
              T \union {r})
<1> DEFINE U == T \union {r}
           n == Len(p)
           c == CloseAt(p[n], r.observedAt)
           s == [first |-> r, last |-> r, ended |-> Open]
           v == [p EXCEPT ![n] = c]
           w == Append(v, s)
<1>1. /\ Observations(T) /\ p \in Seq(SegmentOf(U)) /\ Len(p) \in Nat
      /\ \A q \in T : Before(q, r) /\ ~Before(r, q) /\ q # r
      /\ ~Before(r, r) /\ \A q \in U : ~Before(r, q)
      /\ \A k \in 1..Len(p) : p[k].first \in T /\ p[k].last \in T /\ p[k] \in SegmentOf(T)
  BY ToldOrder
<1>2. n \in 1..n /\ n # 0 /\ n \in Nat
  BY <1>1
<1>3. PICK z \in T : /\ \A q \in T : ~Before(z, q)
                     /\ z.kind = p[n].first.kind
                     /\ ~IsGap(p[n]) => z = p[n].last
  BY <1>1, LatestTold DEF Tells
<1>4. ~JoinsTo(z, r)
  BY <1>3 DEF Tells, Extends, IsGap, JoinsTo
<1>5. FirstsOf(U) = FirstsOf(T) \union {r}
  BY <1>3, <1>4, FirstsGrow DEF Tells
<1>6. r.observedAt \in Int /\ \A x \in T : x.observedAt \in Int
  BY DEF Tells, Observations
<1>7. /\ c \in SegmentOf(U) /\ c.first = p[n].first /\ c.last = p[n].last
      /\ c.ended = IF IsGap(p[n]) \/ r.observedAt - p[n].last.observedAt <= MaxGap
                     THEN r.observedAt ELSE p[n].last.observedAt
  <2>1. p[n] \in SegmentOf(U) /\ p[n].last \in T
    BY <1>1, <1>2
  <2>2. QED
    BY <1>6, <2>1 DEF SegmentOf, CloseAt
<1>8. s \in SegmentOf(U) /\ s.first = r /\ s.last = r /\ s.ended = Open
  BY DEF SegmentOf
<1> HIDE DEF s, c
<1>9. /\ w \in Seq(SegmentOf(U)) /\ Len(w) = n + 1 /\ w # <<>> /\ w[n + 1] = s
      /\ \A k \in 1..n : w[k] = IF k = n THEN c ELSE p[k]
  <2>1. /\ v \in Seq(SegmentOf(U)) /\ Len(v) = n
        /\ \A k \in 1..n : v[k] = IF k = n THEN c ELSE p[k]
    BY <1>1, <1>2, <1>7
  <2> HIDE DEF v, n
  <2>2. /\ w \in Seq(SegmentOf(U)) /\ Len(w) = n + 1 /\ w[n + 1] = s
        /\ \A k \in 1..n : w[k] = v[k]
    BY <1>8, <2>1
  <2>3. w # <<>>
    BY <1>2, <2>2
  <2>4. QED
    BY <2>1, <2>2, <2>3
<1> HIDE DEF w, v
<1>10. \A k \in 1..n : /\ w[k].first = p[k].first /\ w[k].last = p[k].last
                       /\ k # n => w[k] = p[k]
                       /\ IsGap(w[k]) <=> IsGap(p[k])
  BY <1>7, <1>9 DEF IsGap
<1>11. /\ w[n + 1].last = r /\ w[n + 1].ended = Open /\ w[n + 1].first = r
       /\ w[n].ended = c.ended /\ \A k \in 1..(n + 1) : k = n + 1 \/ k \in 1..n
  BY <1>2, <1>8, <1>9
<1> HIDE DEF n
<1>12. KindsTold(w)
  <2>1. ASSUME NEW k \in 1..n PROVE /\ w[k].last.kind = w[k].first.kind
                                    /\ ~Before(w[k].last, w[k].first)
                                    /\ IsGap(w[k]) => w[k].last = w[k].first
    BY <1>10 DEF Tells, Told, KindsTold, n
  <2>2. QED
    BY <1>1, <1>9, <1>11, <2>1 DEF KindsTold
<1>13. OrderTold(w)
  <2>1. OrderTold(p)
    BY DEF Tells, Told
  <2>2. \A k, l \in 1..n : k < l => Before(w[k].first, w[l].first) /\ Before(w[k].last, w[l].first)
    BY <1>10, <2>1 DEF OrderTold, n
  <2>3. \A k \in 1..n : Before(w[k].first, w[n + 1].first) /\ Before(w[k].last, w[n + 1].first)
    BY <1>1, <1>10, <1>11 DEF n
  <2>4. \A k \in 1..(n + 1) : ~(n + 1 < k)
    BY <1>2
  <2>5. QED
    BY <1>9, <1>11, <2>2, <2>3, <2>4 DEF OrderTold
<1>14. LastsTold(w, U)
  <2>1. SUFFICES ASSUME NEW k \in 1..(n + 1), ~IsGap(w[k]), NEW q \in U,
                        k = n + 1 \/ Before(q, w[k + 1].first)
                 PROVE  ~Before(w[k].last, q)
    BY <1>9 DEF LastsTold
  <2>2. CASE k = n + 1
    BY <1>1, <1>11, <2>2
  <2>3. CASE k = n
    <3>1. q \in T
      <4>1. w[k + 1].first = r /\ k # n + 1
        BY <1>2, <1>11, <2>3
      <4>2. QED
        BY <1>1, <2>1, <4>1
    <3>2. ~IsGap(p[n]) /\ w[n].last = p[n].last
      BY <1>2, <1>10, <2>1, <2>3
    <3>3. QED
      BY <1>2, <2>3, <3>1, <3>2 DEF Tells, Told, LastsTold, n
  <2>4. CASE k # n /\ k # n + 1
    <3>1. k \in 1..n /\ k + 1 \in 1..n
      BY <1>2, <2>4
    <3>2. w[k + 1].first = p[k + 1].first /\ p[k + 1].first \in T
      BY <1>1, <1>10, <3>1 DEF n
    <3>3. q \in T
      BY <1>1, <2>1, <2>4, <3>2
    <3>4. QED
      BY <1>10, <2>1, <2>4, <3>1, <3>2, <3>3 DEF Tells, Told, LastsTold, n
  <2>5. QED
    BY <2>2, <2>3, <2>4
<1>15. GapTold(w, U)
  <2>1. SUFFICES ASSUME r.kind = "suspended", NEW q \in U, ~Before(q, r) PROVE q.kind = "suspended"
    BY <1>9, <1>11 DEF GapTold, IsGap
  <2>2. q = r
    BY <1>1, <2>1
  <2>3. QED
    BY <2>1, <2>2
<1>16. StartsTold(w, U)
  <2>1. {w[k].first : k \in 1..(n + 1)} = {w[k].first : k \in 1..n} \union {r}
    <3>1. n + 1 \in 1..(n + 1) /\ \A k \in 1..n : k \in 1..(n + 1)
      BY <1>2
    <3>2. QED
      BY <1>11, <3>1
  <2>2. {w[k].first : k \in 1..n} = {p[k].first : k \in 1..n}
    BY <1>10
  <2>3. QED
    BY <1>5, <1>9, <2>1, <2>2 DEF Tells, Told, StartsTold, n
<1>17. EndsTold(w)
  <2>1. EndsTold(p)
    BY DEF Tells, Told
  <2>2. ASSUME NEW k \in 1..n
        PROVE  w[k].ended = IF IsGap(w[k]) \/ Start(w[k + 1]) - w[k].last.observedAt <= MaxGap
                              THEN Start(w[k + 1]) ELSE w[k].last.observedAt
    <3>1. CASE k = n
      BY <1>7, <1>10, <1>11, <3>1 DEF Start
    <3>2. CASE k # n
      <4>1. k \in 1..(n - 1) /\ k + 1 \in 1..n
        BY <1>2, <3>2
      <4>2. w[k] = p[k] /\ Start(w[k + 1]) = Start(p[k + 1])
        BY <1>10, <3>2, <4>1 DEF Start
      <4>3. QED
        BY <2>1, <4>1, <4>2 DEF EndsTold, n
    <3>3. QED
      BY <3>1, <3>2
  <2>3. (n + 1) - 1 = n
    BY <1>2
  <2>4. QED
    BY <1>9, <1>11, <2>2, <2>3 DEF EndsTold
<1>18. r \in U /\ \A q \in U : ~Before(r, q)
  BY <1>1
<1>19. Told(w, U)
  BY <1>9, <1>12, <1>13, <1>14, <1>15, <1>16, <1>17, <1>18 DEF Told
<1>20. QED
  BY <1>19 DEF w, v, s, c, n

\* The fold tells one record more.
LEMMA TellStep ==
  ASSUME NEW p, NEW T, NEW r, Tells(p, T, r)
  PROVE  Told(Feed(p, r), T \union {r})
<1>1. Len(p) \in Nat /\ (p = <<>> <=> Len(p) = 0)
  <2>1. p \in Seq(SegmentOf(T))
    BY DEF Tells, Told
  <2>2. QED
    BY <2>1
<1>2. CASE p = <<>>
  BY <1>1, <1>2, TellFirst DEF Feed, Tells
<1>3. CASE p # <<>> /\ r.kind = "suspended" /\ IsGap(p[Len(p)])
  BY <1>1, <1>3, TellGap DEF Feed, Tells
<1>4. CASE p # <<>> /\ Extends(p[Len(p)], r)
  BY <1>1, <1>4, TellExtends DEF Feed, Tells, Extends
<1>5. CASE p # <<>> /\ ~(r.kind = "suspended" /\ IsGap(p[Len(p)])) /\ ~Extends(p[Len(p)], r)
  BY <1>1, <1>5, TellOpens DEF Feed, Tells
<1>6. QED
  BY <1>2, <1>3, <1>4, <1>5

\* The fold goes on from segments that tell earlier records.
LEMMA FoldGoesOn ==
  ASSUME NEW V, NEW s, Told(s, V), NEW S, IsFiniteSet(S), Observations(V \union S),
         \A q \in V, r \in S : Before(q, r)
  PROVE  Told(Project(s, MergeOrder(S)), V \union Seen(S))
<1> DEFINE rs == MergeOrder(S)
           N == Len(rs)
           f == Fed(s, rs)
           UpTo(n) == {rs[i] : i \in 1..n}
           T == {n \in 1..(N + 1) : Told(f[n - 1], V \union Seen(UpTo(n - 1)))}
<1>0. Observations(S)
  BY DEF Observations
<1>1. /\ rs \in Seq(S) /\ N \in Nat /\ ToSet(rs) = S
      /\ \A i, j \in 1..N : i < j => Before(rs[i], rs[j])
  <2>1. LET o == MergeOrder(S)
        IN  /\ o \in Seq(S) /\ Len(o) = Cardinality(S) /\ Cardinality(S) \in Nat
            /\ ToSet(o) = S
            /\ \A i, j \in DOMAIN o : i < j => Before(o[i], o[j])
    BY <1>0, MergeOrderSorts
  <2> HIDE DEF rs
  <2>2. DOMAIN rs = 1..N
    BY <2>1 DEF rs
  <2>3. QED
    BY <2>1, <2>2 DEF rs
<1>2. f[0] = s /\ \A n \in 1..N : f[n] = Feed(f[n - 1], rs[n])
  <2> DEFINE R == V \union S
  <2>1. \A r \in R : r.observedAt \in Int
    BY DEF Observations
  <2>2. s \in Seq(SegmentOf(R))
    <3>1. SegmentOf(V) \subseteq SegmentOf(R)
      BY DEF SegmentOf
    <3>2. s \in Seq(SegmentOf(V))
      BY DEF Told
    <3> HIDE DEF R
    <3>3. QED
      BY <3>1, <3>2
  <2>3. rs \in Seq(R)
    BY <1>1
  <2> HIDE DEF rs, R
  <2>4. Feeds(f, s, rs, R)
    BY <2>1, <2>2, <2>3, FedSteps
  <2> HIDE DEF f
  <2>5. QED
    BY <2>4 DEF Feeds
<1> HIDE DEF rs, f
<1>4. 1 \in T
  <2>1. UpTo(0) = {} /\ Seen({}) = {} /\ 1 - 1 = 0 /\ 1 \in 1..(N + 1)
    BY <1>1 DEF Seen
  <2> HIDE DEF UpTo
  <2>2. QED
    BY <1>2, <2>1
<1>5. ASSUME NEW n \in 1..(N + 1), n \in T, n < N + 1 PROVE n + 1 \in T
  <2> DEFINE p == f[n - 1]
             r == rs[n]
             before == V \union Seen(UpTo(n - 1))
  <2>1. n \in 1..N /\ n + 1 \in 1..(N + 1) /\ (n + 1) - 1 = n /\ \A i \in 1..(n - 1) : i \in 1..N /\ i < n
    BY <1>1, <1>5
  <2>2. UpTo(n) = UpTo(n - 1) \union {r}
    <3>1. \A i : i \in 1..n <=> i \in 1..(n - 1) \/ i = n
      BY <2>1
    <3>2. QED
      BY <3>1
  <2>3. UpTo(n) \subseteq S /\ \A q \in UpTo(n - 1) : Before(q, r)
    <3>1. \A i \in 1..n : i \in 1..N
      BY <1>1, <2>1
    <3>2. \A i \in 1..N : rs[i] \in S
      BY <1>1
    <3>3. QED
      BY <1>1, <2>1, <3>1, <3>2
  <2>4. f[n] = Feed(p, r) /\ Told(p, before)
    BY <1>2, <1>5, <2>1
  <2> HIDE DEF UpTo
  <2>5. CASE r.kind = "active"
    <3>1. V \union Seen(UpTo(n)) = before /\ f[n] = p
      BY <2>2, <2>4, <2>5 DEF Seen, Feed
    <3>2. QED
      BY <2>1, <2>4, <3>1
  <2>6. CASE r.kind # "active"
    <3>1. V \union Seen(UpTo(n)) = before \union {r} /\ before \subseteq V \union UpTo(n - 1)
      BY <2>2, <2>6 DEF Seen
    <3>2. Observations(before \union {r})
      BY <2>2, <2>3, <3>1 DEF Observations
    <3>3. \A q \in before : Before(q, r)
      <4>1. r \in S /\ Seen(UpTo(n - 1)) \subseteq UpTo(n - 1)
        BY <2>2, <2>3 DEF Seen
      <4>2. QED
        BY <2>3, <4>1
    <3> HIDE DEF p, r, before
    <3>4. Tells(p, before, r)
      BY <2>4, <3>2, <3>3, <2>6 DEF Tells
    <3>5. Told(f[n], before \union {r})
      BY <2>4, <3>4, TellStep
    <3>6. QED
      BY <2>1, <3>1, <3>5
  <2>7. QED
    BY <2>5, <2>6
<1>6. N + 1 \in Nat /\ N + 1 \in 1..(N + 1) /\ (N + 1) - 1 = N
  BY <1>1
<1>7. N + 1 \in T
  <2> HIDE DEF T
  <2>1. QED
    BY <1>4, <1>5, <1>6, Upwards
<1>8. UpTo(N) = S
  BY <1>1 DEF ToSet
<1>9. Project(s, MergeOrder(S)) = f[N]
  BY DEF Project, f, rs
<1>10. QED
  BY <1>6, <1>7, <1>8, <1>9

\* The replay of a set of records tells all of them.
LEMMA FoldTells ==
  ASSUME NEW S, IsFiniteSet(S), Observations(S)
  PROVE  Told(FullReplay(S), Seen(S))
<1>1. Told(<<>>, {})
  <2>1. <<>> \in Seq(SegmentOf({})) /\ Len(<<>>) = 0
    OBVIOUS
  <2>2. FirstsOf({}) = {}
    BY DEF FirstsOf
  <2>3. 1..0 = {} /\ 1..(0 - 1) = {}
    OBVIOUS
  <2>4. QED
    BY <2>1, <2>2, <2>3 DEF Told, KindsTold, OrderTold, LastsTold, GapTold, StartsTold, EndsTold
<1> DEFINE V == {}
           s == <<>>
<1>2. Told(s, V) /\ V \union S = S /\ V \union Seen(S) = Seen(S) /\ \A q \in V, r \in S : Before(q, r)
  BY <1>1
<1>3. FullReplay(S) = Project(s, MergeOrder(S))
  BY DEF FullReplay
<1> HIDE DEF V, s
<1>4. Told(Project(s, MergeOrder(S)), V \union Seen(S))
  BY <1>2, FoldGoesOn
<1>5. QED
  BY <1>2, <1>3, <1>4

\* Grouping, in its pieces.
LEMMA GroupingInPieces ==
  ASSUME NEW S
  PROVE  LET T == Seen(S)
         IN  Grouping(S) = {[first |-> f, last |-> LastIn(T, f), ended |-> EndIn(T, f)] : f \in FirstsOf(T)}
BY Zenon DEF Grouping, Seen, JoinsTo, NextIn, FirstsOf, LaterIn, MembersIn, LastIn, EndIn

\* The least of a set of instants.
LEMMA MinOf ==
  ASSUME NEW S, S \subseteq Int, NEW m \in S, \A x \in S : m <= x
  PROVE  Min(S) = m
<1>1. \A x \in S : x \in Int
  OBVIOUS
<1>2. \A x \in S : (\A y \in S : x <= y) => x = m
  BY <1>1
<1>3. QED
  BY <1>2 DEF Min

\* The segments that begin after one of those told.
LEMMA LaterTold ==
  ASSUME NEW T, Observations(T), NEW p, Told(p, T), NEW k \in 1..Len(p)
  PROVE  LaterIn(T, p[k].first) = {p[l].first : l \in (k + 1)..Len(p)}
<1>1. /\ Len(p) \in Nat
      /\ \A l \in 1..Len(p) : p[l].first \in T /\ p[l].last \in T
  BY ToldTyped
<1>2. FirstsOf(T) = {p[l].first : l \in 1..Len(p)}
  BY DEF Told, StartsTold
<1>3. ASSUME NEW l \in 1..Len(p) PROVE Before(p[k].first, p[l].first) <=> l \in (k + 1)..Len(p)
  <2>1. CASE k < l
    BY <1>1, <2>1 DEF Told, OrderTold
  <2>2. CASE l < k
    <3>1. Before(p[l].first, p[k].first)
      BY <2>2 DEF Told, OrderTold
    <3>2. ~Before(p[k].first, p[l].first)
      BY <1>1, <3>1, BeforeOrders
    <3>3. QED
      BY <1>1, <2>2, <3>2
  <2>3. CASE l = k
    BY <1>1, <2>3, BeforeOrders
  <2>4. QED
    BY <1>1, <2>1, <2>2, <2>3
<1>4. \A l \in (k + 1)..Len(p) : l \in 1..Len(p)
  BY <1>1
<1>5. QED
  BY <1>2, <1>3, <1>4 DEF LaterIn

\* Its last record is what the rules say.
LEMMA LastTold ==
  ASSUME NEW T, Observations(T), NEW p, Told(p, T), NEW k \in 1..Len(p)
  PROVE  LastIn(T, p[k].first) = p[k].last
<1> DEFINE f == p[k].first
           z == p[k].last
           M == MembersIn(T, f)
<1>1. /\ Len(p) \in Nat
      /\ \A l \in 1..Len(p) : p[l].first \in T /\ p[l].last \in T
  BY ToldTyped
<1>2. LaterIn(T, f) = {p[l].first : l \in (k + 1)..Len(p)}
  BY LaterTold
<1>3. \A l \in (k + 1)..Len(p) : l \in 1..Len(p) /\ k < l
  BY <1>1
<1>4. CASE IsGap(p[k])
  BY <1>4 DEF Told, KindsTold, LastIn, IsGap
<1>5. CASE ~IsGap(p[k])
  <2>1. z \in M
    <3>1. ~Before(z, f)
      BY DEF Told, KindsTold
    <3>2. \A l \in (k + 1)..Len(p) : Before(z, p[l].first)
      BY <1>3 DEF Told, OrderTold
    <3>3. QED
      BY <1>1, <1>2, <3>1, <3>2 DEF MembersIn
  <2>2. ASSUME NEW q \in M PROVE ~Before(z, q)
    <3>1. q \in T /\ (k # Len(p) => k + 1 \in (k + 1)..Len(p))
      BY <1>1 DEF MembersIn
    <3>2. k # Len(p) => Before(q, p[k + 1].first)
      BY <1>2, <3>1 DEF MembersIn
    <3>3. QED
      BY <1>5, <3>1, <3>2 DEF Told, LastsTold
  <2>3. M \subseteq T
    BY DEF MembersIn
  <2>4. \A x \in M : (\A q \in M : ~Before(x, q)) => x = z
    BY <2>1, <2>2, <2>3, BeforeOrders
  <2>5. (CHOOSE x \in M : \A q \in M : ~Before(x, q)) = z
    <3> HIDE DEF M, z
    <3>1. QED
      BY <2>1, <2>2, <2>4
  <2>6. f.kind # "suspended"
    BY <1>5 DEF IsGap
  <2>7. QED
    BY <2>5, <2>6 DEF LastIn
<1>6. QED
  BY <1>4, <1>5

\* Its end is what the rules say, once every silence has passed.
LEMMA EndTold ==
  ASSUME NEW T, Observations(T), NEW p, Told(p, T), NEW k \in 1..Len(p), Max(Clock) \in Int
  PROVE  EndIn(T, p[k].first) = EffectiveEnd(p[k], Max(Clock))
<1> DEFINE f == p[k].first
           z == p[k].last
           next == {g.observedAt : g \in LaterIn(T, f)}
<1>1. /\ Len(p) \in Nat
      /\ \A l \in 1..Len(p) : p[l].first \in T /\ p[l].last \in T
      /\ \A x \in T : x.observedAt \in Int
  BY ToldTyped DEF Observations
<1>2. LaterIn(T, f) = {p[l].first : l \in (k + 1)..Len(p)}
  BY LaterTold
<1>3. LastIn(T, f) = z /\ z.observedAt \in Int /\ f.observedAt \in Int
  BY <1>1, LastTold
<1>4. MaxGap \in Nat /\ Open \notin Int
  BY GapAssumption
<1>5. CASE k = Len(p)
  <2>1. next = {}
    <3>1. (k + 1)..Len(p) = {}
      BY <1>1, <1>5
    <3>2. QED
      BY <1>2, <3>1
  <2>2. p[k].ended = Open
    BY <1>1, <1>5 DEF Told, EndsTold
  <2>3. EndIn(T, f) = IF f.kind # "suspended" /\ Max(Clock) > z.observedAt + MaxGap
                        THEN z.observedAt ELSE Open
    BY <1>3, <2>1 DEF EndIn
  <2>4. Max(Clock) > z.observedAt + MaxGap <=> Max(Clock) - z.observedAt > MaxGap
    BY <1>3, <1>4
  <2>5. QED
    BY <2>2, <2>3, <2>4 DEF EffectiveEnd, IsGap
<1>6. CASE k # Len(p)
  <2>1. k + 1 \in 1..Len(p) /\ k + 1 \in (k + 1)..Len(p) /\ k \in 1..(Len(p) - 1)
    BY <1>1, <1>6
  <2>2. \A l \in (k + 1)..Len(p) : l \in 1..Len(p) /\ (l = k + 1 \/ k + 1 < l)
    BY <1>1
  <2> DEFINE m == Start(p[k + 1])
  <2>3. m \in next /\ next \subseteq Int
    BY <1>1, <1>2, <2>1, <2>2 DEF Start
  <2>4. \A x \in next : m <= x
    <3>1. ASSUME NEW l \in (k + 1)..Len(p) PROVE m <= p[l].first.observedAt
      <4>1. CASE l = k + 1
        BY <1>1, <2>1, <4>1 DEF Start
      <4>2. CASE k + 1 < l
        <5>1. Before(p[k + 1].first, p[l].first)
          BY <2>1, <2>2, <4>2 DEF Told, OrderTold
        <5>2. QED
          BY <1>1, <2>1, <2>2, <5>1, BeforeOrders DEF Start
      <4>3. QED
        BY <2>2, <4>1, <4>2
    <3>2. QED
      BY <1>2, <3>1
  <2> HIDE DEF next, m
  <2>5. Min(next) = m /\ next # {} /\ m \in Int
    BY <2>3, <2>4, MinOf
  <2>6. p[k].ended = IF IsGap(p[k]) \/ m - z.observedAt <= MaxGap THEN m ELSE z.observedAt
    BY <2>1 DEF Told, EndsTold, m
  <2>7. EndIn(T, f) = IF f.kind # "suspended" /\ m > z.observedAt + MaxGap THEN z.observedAt ELSE m
    BY <1>3, <2>5 DEF EndIn, next
  <2>8. m > z.observedAt + MaxGap <=> ~(m - z.observedAt <= MaxGap)
    BY <1>3, <1>4, <2>5
  <2>9. p[k].ended # Open
    BY <1>3, <1>4, <2>5, <2>6
  <2>10. QED
    BY <2>6, <2>7, <2>8, <2>9 DEF EffectiveEnd, IsGap
<1>7. QED
  BY <1>5, <1>6

\* A fold that tells the records shows them grouped by the rules.
LEMMA ToldIsGrouping ==
  ASSUME NEW S, Observations(S), NEW p, Told(p, Seen(S)), Max(Clock) \in Int
  PROVE  ToSet(Shown(p)) = Grouping(S)
<1> DEFINE T == Seen(S)
           Shows(k) == [first |-> p[k].first, last |-> p[k].last, ended |-> EffectiveEnd(p[k], Max(Clock))]
           Part(f) == [first |-> f, last |-> LastIn(T, f), ended |-> EndIn(T, f)]
<1>1. Observations(T) /\ DOMAIN p = 1..Len(p)
  BY DEF Observations, Seen, Told
<1>2. \A k \in 1..Len(p) : Shows(k) = Part(p[k].first)
  <2> HIDE DEF T
  <2>1. QED
    BY <1>1, LastTold, EndTold DEF T
<1>3. ToSet(Shown(p)) = {Shows(k) : k \in 1..Len(p)}
  BY <1>1 DEF ToSet, Shown
<1>4. Grouping(S) = {Part(f) : f \in FirstsOf(T)}
  BY GroupingInPieces
<1>5. FirstsOf(T) = {p[k].first : k \in 1..Len(p)}
  BY DEF Told, StartsTold
<1> HIDE DEF Shows, Part, T
<1>6. QED
  BY <1>2, <1>3, <1>4, <1>5

-----------------------------------------------------------------------------
(* The records of an account *)

\* The stored records are finitely many, each with a device and sequence of its own.
RecordsOK ==
  /\ initialized \in BOOLEAN
  /\ records \subseteq UNION (Batches \union Legacies)
  /\ IsFiniteSet(records) /\ Observations(records)

\* A batch adds the records that no stored one is the same as.
LEMMA RecordsAdded ==
  ASSUME RecordsOK, NEW batch \in Batches
  PROVE  LET adopted == {r \in batch : ~Taken(r)}
         IN  /\ IsFiniteSet(records \union adopted) /\ Observations(records \union adopted)
             /\ IsFiniteSet(adopted) /\ Observations(adopted)
             /\ records \intersect adopted = {}
             /\ records \union adopted \subseteq UNION (Batches \union Legacies)
<1> DEFINE adopted == {r \in batch : ~Taken(r)}
<1>1. IsFiniteSet(batch) /\ Observations(batch)
  BY InputsAssumption
<1>2. IsFiniteSet(adopted)
  BY <1>1, FS_Subset
<1>3. IsFiniteSet(records \union adopted)
  BY <1>2, FS_Union DEF RecordsOK
<1>4. Observations(adopted)
  BY <1>1 DEF Observations
<1>5. Observations(records \union adopted)
  BY <1>4 DEF RecordsOK, Observations, Taken
<1>6. records \intersect adopted = {}
  BY DEF Taken
<1>7. records \union adopted \subseteq UNION (Batches \union Legacies)
  BY DEF RecordsOK
<1>8. QED
  BY <1>2, <1>3, <1>4, <1>5, <1>6, <1>7

LEMMA RecordsHold == Spec => []RecordsOK
<1>1. Init => RecordsOK
  BY InputsAssumption DEF Init, RecordsOK
<1>2. RecordsOK /\ [Next]_vars => RecordsOK'
  <2>1. ASSUME RecordsOK, NEW batch \in Batches, NEW now \in Clock, Process(batch, now)
        PROVE  RecordsOK'
    BY <2>1, RecordsAdded DEF Process, RecordsOK
  <2>2. ASSUME RecordsOK, UNCHANGED vars PROVE RecordsOK'
    BY <2>2 DEF vars, RecordsOK
  <2>3. QED
    BY <2>1, <2>2 DEF Next
<1>3. QED
  BY <1>1, <1>2, PTL DEF Spec

\* The instant at which every silence has passed.
LEMMA LastInstant == Max(Clock) \in Clock /\ Max(Clock) \in Int
<1>1. \E m \in Clock : \A x \in Clock : x <= m
  BY InputsAssumption, GreatestOf
<1>2. \A x \in Clock : x \in Int
  BY InputsAssumption
<1>3. QED
  BY <1>1, <1>2 DEF Max

\* The fold of TimelineProjection groups any records as the product's rules say.
THEOREM FoldFollowsRules == Spec => []FoldGroups
<1>1. RecordsOK => FoldGroups
  <2>1. SUFFICES ASSUME RecordsOK PROVE ToSet(Shown(FullReplay(records))) = Grouping(records)
    BY DEF FoldGroups
  <2>2. Told(FullReplay(records), Seen(records))
    BY <2>1, FoldTells DEF RecordsOK
  <2>3. QED
    BY <2>1, <2>2, LastInstant, ToldIsGrouping DEF RecordsOK
<1>2. QED
  BY <1>1, RecordsHold, PTL

-----------------------------------------------------------------------------
(* The rows written *)

\* A row of records of R.
Row(R) == [id : Nat \ {0}, first : R, last : R, ended : Int \union {Open}]

\* One step of Written.
WriteRow(replaced, kept, acc, s) ==
  LET reuse == ReusableId(s, replaced, acc.reused)
      id == IF reuse # 0 THEN reuse
            ELSE Fresh({row.id : row \in kept \union acc.rows \union ToSet(replaced)})
  IN [rows |-> acc.rows \union {[id |-> id, first |-> s.first, last |-> s.last, ended |-> s.ended]},
      reused |-> acc.reused \union ({reuse} \ {0})]

NothingWritten == [rows |-> {}, reused |-> {}]

\* Written, as the function on sets of positions that the fold is.
LEMMA WrittenIsFold ==
  ASSUME NEW projected, NEW replaced, NEW kept
  PROVE  Written(projected, replaced, kept) =
           (CHOOSE iter : iter = [s \in SUBSET (DOMAIN projected) |->
              IF s = {} THEN NothingWritten
              ELSE WriteRow(replaced, kept, iter[s \ {Max(s)}], projected[Max(s)])])
             [DOMAIN projected].rows
BY Zenon DEF Written, FoldLeft, MapThenFoldSet, WriteRow, NothingWritten

-----------------------------------------------------------------------------
(* The shape of the segments *)

\* A segment is of one kind, which a change to active is not, and ends no earlier than it was last observed.
Shape(s) ==
  /\ s.first.kind # "active" /\ s.first.kind = s.last.kind
  /\ Start(s) <= s.last.observedAt
  /\ s.ended = Open \/ s.last.observedAt <= s.ended

\* Segments of that shape whose first records are of F, in the order of rel.
Sound(p, F, rel) ==
  /\ \A k \in 1..Len(p) : Shape(p[k]) /\ p[k].first \in F
  /\ \A k, l \in 1..Len(p) : k < l => <<p[k].first, p[l].first>> \in rel

\* Segments that begin, and were last observed, before r.
AllBefore(p, r, rel) ==
  \A k \in 1..Len(p) : p[k].last.observedAt <= r.observedAt /\ <<p[k].first, r>> \in rel

\* What a record does to sound segments that precede it.
LEMMA FeedSound ==
  ASSUME NEW R, \A q \in R : q.observedAt \in Int, NEW F, NEW rel,
         NEW p \in Seq(SegmentOf(R)), NEW r \in R, r \in F,
         Sound(p, F, rel), AllBefore(p, r, rel)
  PROVE  /\ Sound(Feed(p, r), F, rel)
         /\ \A q \in R : AllBefore(p, q, rel) /\ r.observedAt <= q.observedAt /\ <<r, q>> \in rel
                         => AllBefore(Feed(p, r), q, rel)
<1> DEFINE n == Len(p)
           opened == [first |-> r, last |-> r, ended |-> Open]
           Good(o) == /\ Sound(o, F, rel)
                      /\ \A q \in R : AllBefore(p, q, rel) /\ r.observedAt <= q.observedAt
                                      /\ <<r, q>> \in rel => AllBefore(o, q, rel)
<1>1. n \in Nat /\ \A k \in 1..n : p[k] \in SegmentOf(R)
  OBVIOUS
<1>2. \A k \in 1..n : /\ p[k].first \in R /\ p[k].last \in R /\ p[k].ended \in Int \union {Open}
                      /\ p[k].first.observedAt \in Int /\ p[k].last.observedAt \in Int
  BY <1>1 DEF SegmentOf
<1>3. (r.kind # "active" => Shape(opened)) /\ opened.first = r /\ opened.last = r
  BY DEF Shape, Start
<1>4. Good(p)
  OBVIOUS
<1>5. r.kind # "active" => Good(<<opened>>)
  <2>1. Len(<<opened>>) = 1 /\ <<opened>>[1] = opened
    OBVIOUS
  <2> HIDE DEF opened
  <2>2. \A q \in R : r.observedAt <= q.observedAt /\ <<r, q>> \in rel => AllBefore(<<opened>>, q, rel)
    BY <1>3, <2>1 DEF AllBefore
  <2>3. r.kind # "active" => Sound(<<opened>>, F, rel)
    BY <1>3, <2>1 DEF Sound
  <2>4. QED
    BY <2>2, <2>3
<1>6. ASSUME n # 0, Extends(p[n], r)
      PROVE  Good([p EXCEPT ![n] = [p[n] EXCEPT !.last = r, !.ended = Open]])
  <2> DEFINE s == [p[n] EXCEPT !.last = r, !.ended = Open]
             o == [p EXCEPT ![n] = s]
  <2>1. n \in 1..n
    BY <1>1, <1>6
  <2>2. s.first = p[n].first /\ s.last = r /\ s.ended = Open
    BY <1>1, <2>1 DEF SegmentOf
  <2>3. Start(p[n]) <= r.observedAt
    <3>1. Start(p[n]) <= p[n].last.observedAt /\ p[n].last.observedAt <= r.observedAt
      BY <2>1 DEF Sound, Shape, AllBefore
    <3>2. QED
      BY <1>2, <2>1, <3>1 DEF Start
  <2>4. Shape(s)
    <3>1. Shape(p[n])
      BY <2>1 DEF Sound
    <3>2. QED
      BY <1>6, <2>2, <2>3, <3>1 DEF Shape, Extends, Start
  <2> HIDE DEF s
  <2>5. Len(o) = n /\ o[n] = s /\ \A k \in 1..n : k # n => o[k] = p[k]
    BY <2>1
  <2>6. \A k \in 1..n : o[k].first = p[k].first
    BY <2>2, <2>5
  <2> HIDE DEF o
  <2>7. Sound(o, F, rel)
    BY <2>1, <2>4, <2>5, <2>6 DEF Sound
  <2>8. ASSUME NEW q \in R, AllBefore(p, q, rel), r.observedAt <= q.observedAt PROVE AllBefore(o, q, rel)
    <3>1. \A k \in 1..n : o[k].last.observedAt <= q.observedAt
      BY <2>2, <2>5, <2>8 DEF AllBefore
    <3>2. QED
      BY <2>5, <2>6, <2>8, <3>1 DEF AllBefore
  <2> HIDE DEF n
  <2>9. QED
    BY <2>7, <2>8 DEF o, s
<1>7. ASSUME n # 0, r.kind # "active" PROVE Good(Append([p EXCEPT ![n] = CloseAt(p[n], r.observedAt)], opened))
  <2> DEFINE s == CloseAt(p[n], r.observedAt)
             m == [p EXCEPT ![n] = s]
             o == Append(m, opened)
  <2>1. n \in 1..n
    BY <1>1, <1>7
  <2>2. /\ s.first = p[n].first /\ s.last = p[n].last
        /\ s.ended = r.observedAt \/ s.ended = p[n].last.observedAt
    BY <1>1, <2>1 DEF SegmentOf, CloseAt
  <2>3. p[n].last.observedAt <= r.observedAt /\ p[n].last.observedAt \in Int /\ Shape(p[n])
    BY <1>2, <2>1 DEF AllBefore, Sound
  <2>4. Shape(s)
    BY <2>2, <2>3 DEF Shape, Start
  <2>4a. s \in SegmentOf(R)
    BY <1>1, <1>2, <2>1 DEF SegmentOf, CloseAt
  <2> HIDE DEF s, opened
  <2>5. /\ Len(m) = n /\ m[n] = s /\ \A k \in 1..n : k # n => m[k] = p[k]
        /\ Len(o) = n + 1 /\ o[n + 1] = opened /\ \A k \in 1..n : o[k] = m[k]
    <3>1. Len(m) = n /\ m[n] = s /\ \A k \in 1..n : k # n => m[k] = p[k]
      BY <2>1
    <3>2. m \in Seq(SegmentOf(R))
      <4>1. p \in [1..n -> SegmentOf(R)]
        OBVIOUS
      <4> HIDE DEF n
      <4>2. m \in [1..n -> SegmentOf(R)]
        BY <2>4a, <4>1
      <4>3. QED
        BY <1>1, <4>2
    <3> HIDE DEF m, n
    <3>3. QED
      BY <1>1, <3>1, <3>2
  <2>6. \A k \in 1..n : o[k].first = p[k].first /\ o[k].last = p[k].last /\ Shape(o[k])
    <3>1. \A k \in 1..n : Shape(p[k])
      BY DEF Sound
    <3>2. QED
      BY <2>2, <2>4, <2>5, <3>1
  <2>7. \A k \in 1..(n + 1) : k \in 1..n \/ k = n + 1
    BY <1>1
  <2> HIDE DEF o, m
  <2>8. \A k \in 1..n : p[k].first \in F /\ <<p[k].first, r>> \in rel
    BY DEF Sound, AllBefore
  <2>9. ASSUME NEW k \in 1..(n + 1), NEW l \in 1..(n + 1), k < l PROVE <<o[k].first, o[l].first>> \in rel
    <3>1. k \in 1..n
      BY <1>1, <2>9
    <3>2. CASE l \in 1..n
      BY <2>6, <2>9, <3>1, <3>2 DEF Sound
    <3>3. CASE l = n + 1
      BY <1>3, <2>5, <2>6, <2>8, <3>1, <3>3
    <3>4. QED
      BY <2>7, <3>2, <3>3
  <2>10. \A k \in 1..(n + 1) : Shape(o[k]) /\ o[k].first \in F
    BY <1>3, <1>7, <2>5, <2>6, <2>7, <2>8
  <2>11. Sound(o, F, rel)
    BY <2>5, <2>9, <2>10 DEF Sound
  <2>12. ASSUME NEW q \in R, AllBefore(p, q, rel), r.observedAt <= q.observedAt, <<r, q>> \in rel
         PROVE  AllBefore(o, q, rel)
    <3>1. \A k \in 1..n : o[k].last.observedAt <= q.observedAt /\ <<o[k].first, q>> \in rel
      BY <2>6, <2>12 DEF AllBefore
    <3>2. o[n + 1].last.observedAt <= q.observedAt /\ <<o[n + 1].first, q>> \in rel
      BY <1>3, <2>5, <2>12
    <3>3. QED
      BY <2>5, <2>7, <3>1, <3>2 DEF AllBefore
  <2> HIDE DEF n
  <2>13. QED
    BY <2>11, <2>12 DEF o, m, s
<1>8. Good(Feed(p, r))
  <2> HIDE DEF Good, opened
  <2>1. QED
    BY <1>4, <1>5, <1>6, <1>7 DEF Feed, opened
<1>9. QED
  BY <1>8

\* So are the segments a projection holds after each of the records it is fed, if they
\* come in the order of rel and of time.
LEMMA FedSound ==
  ASSUME NEW R, \A q \in R : q.observedAt \in Int, NEW F, NEW rel,
         NEW p \in Seq(SegmentOf(R)), Sound(p, F, rel),
         NEW rs \in Seq(R),
         \A j \in 1..Len(rs) : rs[j] \in F /\ AllBefore(p, rs[j], rel),
         \A i, j \in 1..Len(rs) : i < j => rs[i].observedAt <= rs[j].observedAt /\ <<rs[i], rs[j]>> \in rel,
         NEW f, Feeds(f, p, rs, R)
  PROVE  \A n \in 0..Len(rs) : f[n] \in Seq(SegmentOf(R)) /\ Sound(f[n], F, rel)
<1> DEFINE N == Len(rs)
           Good(n) == /\ Sound(f[n - 1], F, rel)
                      /\ \A j \in n..N : AllBefore(f[n - 1], rs[j], rel)
           T == {n \in 1..(N + 1) : Good(n)}
<1>1. N \in Nat /\ \A n \in 1..N : rs[n] \in R
  OBVIOUS
<1>2. /\ \A n \in 0..N : f[n] \in Seq(SegmentOf(R))
      /\ f[0] = p /\ \A n \in 1..N : f[n] = Feed(f[n - 1], rs[n])
  BY DEF Feeds
<1>3. 1 \in T
  <2>1. 1 \in 1..(N + 1) /\ 1 - 1 = 0
    BY <1>1
  <2>2. QED
    BY <1>2, <2>1
<1>4. ASSUME NEW n \in 1..(N + 1), n \in T, n < N + 1 PROVE n + 1 \in T
  <2>1. n \in 1..N /\ n \in n..N /\ (n + 1) - 1 = n /\ n + 1 \in 1..(N + 1) /\ n - 1 \in 0..N
    BY <1>1, <1>4
  <2>2. \A j \in (n + 1)..N : j \in n..N /\ j \in 1..N /\ n < j
    BY <2>1
  <2>3. /\ f[n - 1] \in Seq(SegmentOf(R)) /\ f[n] = Feed(f[n - 1], rs[n]) /\ rs[n] \in R
        /\ Good(n)
    BY <1>1, <1>2, <1>4, <2>1
  <2>4. rs[n] \in F /\ Sound(f[n - 1], F, rel) /\ AllBefore(f[n - 1], rs[n], rel)
    BY <2>1, <2>3
  <2> DEFINE g == f[n - 1]
             r == rs[n]
  <2>5. /\ Sound(Feed(g, r), F, rel)
        /\ \A q \in R : AllBefore(g, q, rel) /\ r.observedAt <= q.observedAt /\ <<r, q>> \in rel
                        => AllBefore(Feed(g, r), q, rel)
    <3>1. g \in Seq(SegmentOf(R)) /\ r \in R /\ r \in F /\ Sound(g, F, rel) /\ AllBefore(g, r, rel)
      BY <2>3, <2>4
    <3> HIDE DEF g, r
    <3>2. QED
      BY <3>1, FeedSound
  <2>6. ASSUME NEW j \in (n + 1)..N PROVE AllBefore(f[n], rs[j], rel)
    <3>1. rs[j] \in R /\ AllBefore(g, rs[j], rel) /\ r.observedAt <= rs[j].observedAt /\ <<r, rs[j]>> \in rel
      BY <1>1, <2>1, <2>2, <2>3
    <3> HIDE DEF g, r
    <3>2. AllBefore(Feed(g, r), rs[j], rel)
      BY <2>5, <3>1
    <3>3. QED
      BY <2>3, <3>2 DEF g, r
  <2>7. Good(n + 1)
    BY <2>1, <2>3, <2>5, <2>6
  <2>8. QED
    BY <2>1, <2>7
<1>5. \A n \in 1..(N + 1) : Good(n)
  <2>1. N + 1 \in Nat
    BY <1>1
  <2> HIDE DEF Good
  <2>2. \A n \in 1..(N + 1) : n \in T
    <3> HIDE DEF T
    <3>1. QED
      BY <1>3, <1>4, <2>1, Upwards
  <2>3. QED
    BY <2>2
<1>6. \A n \in 0..N : n + 1 \in 1..(N + 1) /\ (n + 1) - 1 = n
  BY <1>1
<1>7. QED
  BY <1>2, <1>5, <1>6

\* Silence ends the last segment where it was last observed.
LEMMA FinishSound ==
  ASSUME NEW R, \A q \in R : q.observedAt \in Int, NEW F, NEW rel,
         NEW p \in Seq(SegmentOf(R)), Sound(p, F, rel), NEW now
  PROVE  Finish(p, now) \in Seq(SegmentOf(R)) /\ Sound(Finish(p, now), F, rel)
<1> DEFINE n == Len(p)
           e == EffectiveEnd(p[n], now)
           s == [p[n] EXCEPT !.ended = e]
           o == [p EXCEPT ![n] = s]
<1>1. CASE p = <<>>
  BY <1>1 DEF Finish
<1>2. CASE p # <<>>
  <2>1. n \in Nat /\ n \in 1..n /\ p[n] \in SegmentOf(R) /\ p \in [1..n -> SegmentOf(R)]
    BY <1>2
  <2>2. p[n].last \in R /\ p[n].last.observedAt \in Int /\ p[n].ended \in Int \union {Open}
    BY <2>1 DEF SegmentOf
  <2>3. e = p[n].last.observedAt \/ e = p[n].ended
    BY DEF EffectiveEnd
  <2> HIDE DEF e
  <2>4. s \in SegmentOf(R) /\ s.first = p[n].first /\ s.last = p[n].last /\ s.ended = e
    BY <2>1, <2>2, <2>3 DEF SegmentOf
  <2>5. Shape(p[n])
    BY <2>1 DEF Sound
  <2>6. Shape(s)
    BY <2>2, <2>3, <2>4, <2>5 DEF Shape, Start
  <2> HIDE DEF s
  <2>7. o[n] = s /\ \A k \in 1..n : k # n => o[k] = p[k]
    BY <2>1
  <2> HIDE DEF n
  <2>8. o \in [1..n -> SegmentOf(R)]
    BY <2>1, <2>4
  <2>9. \A k \in 1..n : o[k].first = p[k].first /\ (k # n => o[k] = p[k])
    BY <2>4, <2>7
  <2> HIDE DEF o
  <2>10. o \in Seq(SegmentOf(R)) /\ Len(o) = n
    BY <2>1, <2>8
  <2>11. Sound(o, F, rel)
    BY <2>1, <2>6, <2>7, <2>9, <2>10 DEF Sound, n
  <2>12. Finish(p, now) = o
    BY <1>2 DEF Finish, o, s, e, n
  <2>13. QED
    BY <2>10, <2>11, <2>12
<1>3. QED
  BY <1>1, <1>2

-----------------------------------------------------------------------------
(* Ids and rows *)

\* Rows of records of R as the tables have them: of a segment's shape, and none with the
\* id or the first event of another.
RowsOK(rows, R) ==
  /\ IsFiniteSet(rows) /\ rows \subseteq Row(R)
  /\ \A s \in rows : Shape(s)
  /\ \A s, t \in rows : s # t => s.id # t.id /\ s.first # t.first

\* A set of positions has its first.
LEMMA FirstOf ==
  ASSUME NEW S, S \subseteq Nat, S # {}
  PROVE  Min(S) \in S
<1>1. PICK n \in S : \A m \in S : n <= m
  BY LeastNumber
<1>2. S \subseteq Int
  OBVIOUS
<1>3. Min(S) = n
  BY <1>1, <1>2, MinOf
<1>4. QED
  BY <1>1, <1>3

\* A new id is nobody's.
LEMMA FreshId ==
  ASSUME NEW used, IsFiniteSet(used)
  PROVE  Fresh(used) \in Nat \ {0} /\ Fresh(used) \notin used
<1> DEFINE c == Cardinality(used)
           T == 1..(c + 1) \ used
<1>1. c \in Nat
  BY FS_CardinalityType
<1>2. T # {}
  <2>1. SUFFICES ASSUME T = {} PROVE FALSE
    OBVIOUS
  <2>2. 1..(c + 1) \in SUBSET used
    BY <2>1
  <2>3. Cardinality(1..(c + 1)) <= c
    BY <2>2, FS_Subset
  <2>4. Cardinality(1..(c + 1)) = c + 1
    <3> HIDE DEF c
    <3>1. QED
      BY <1>1, FS_Interval
  <2>5. QED
    BY <1>1, <2>3, <2>4
<1>3. T \subseteq Nat /\ \A x \in T : x \in Nat \ {0} /\ x \notin used
  BY <1>1
<1>4. Fresh(used) = Min(T)
  BY DEF Fresh
<1> HIDE DEF T
<1>5. QED
  BY <1>2, <1>3, <1>4, FirstOf

\* An id that is reused is one of a replaced row, and nobody's yet.
LEMMA ReusedId ==
  ASSUME NEW s, NEW replaced, Len(replaced) \in Nat, DOMAIN replaced = 1..Len(replaced), NEW reused
  PROVE  \/ ReusableId(s, replaced, reused) = 0
         \/ \E i \in 1..Len(replaced) : /\ ReusableId(s, replaced, reused) = replaced[i].id
                                        /\ replaced[i].id \notin reused
<1> DEFINE free == {i \in DOMAIN replaced : replaced[i].id \notin reused}
           same == {i \in free : replaced[i].first = s.first}
           found == IF same # {} THEN same ELSE {i \in free : Continues(s, replaced[i])}
<1>1. ReusableId(s, replaced, reused) =
        IF found # {} /\ CanInherit(s, replaced[Min(found)]) THEN replaced[Min(found)].id ELSE 0
  BY DEF ReusableId
<1>2. found \subseteq free /\ free \subseteq 1..Len(replaced) /\ \A i \in free : replaced[i].id \notin reused
  OBVIOUS
<1> HIDE DEF found, free
<1>3. found # {} => Min(found) \in found
  <2>1. found \subseteq Nat
    BY <1>2
  <2>2. QED
    BY <2>1, FirstOf
<1>4. QED
  BY <1>1, <1>2, <1>3

\* The ids in use are finitely many.
LEMMA UsedFinite ==
  ASSUME NEW rows, IsFiniteSet(rows), NEW R, NEW old \in Seq(Row(R))
  PROVE  /\ IsFiniteSet({row.id : row \in rows \union ToSet(old)})
         /\ IsFiniteSet(ToSet(old))
<1> DEFINE S == rows \union ToSet(old)
           U == {row.id : row \in S}
           f == [row \in S |-> row.id]
<1>1. IsFiniteSet(ToSet(old))
  <2>1. old \in Seq(ToSet(old)) /\ \A x \in ToSet(old) : \E n \in 1..Len(old) : old[n] = x
    BY DEF ToSet
  <2>2. QED
    BY <2>1 DEF IsFiniteSet
<1>2. IsFiniteSet(S)
  BY <1>1, FS_Union
<1>3. f \in Surjection(S, U)
  <2>1. f \in [S -> U]
    OBVIOUS
  <2>2. \A u \in U : \E x \in S : f[x] = u
    OBVIOUS
  <2> HIDE DEF f, S, U
  <2>3. QED
    BY <2>1, <2>2 DEF Surjection
<1>4. IsFiniteSet(U)
  <2> HIDE DEF f, S, U
  <2>1. QED
    BY <1>2, <1>3, FS_Surjection
<1>5. QED
  BY <1>1, <1>4

\* What Written has after some of the segments: finitely many rows, and ids.
Accs(R) == {acc \in [rows : SUBSET Row(R), reused : SUBSET Nat] : IsFiniteSet(acc.rows)}

Made(id, s) == [id |-> id, first |-> s.first, last |-> s.last, ended |-> s.ended]

\* A step of Written adds a row with a new id, or with that of a replaced row.
RowAdded(w, acc, s, old, kept) ==
  \E id \in Nat \ {0} :
    /\ w.rows = acc.rows \union {Made(id, s)}
    /\ \/ /\ \A row \in kept \union acc.rows \union ToSet(old) : row.id # id
          /\ w.reused = acc.reused
       \/ /\ \E i \in 1..Len(old) : old[i].id = id
          /\ id \notin acc.reused
          /\ w.reused = acc.reused \union {id}

LEMMA RowWritten ==
  ASSUME NEW R, NEW kept, IsFiniteSet(kept), NEW old \in Seq(Row(R)),
         NEW acc \in Accs(R), NEW s \in SegmentOf(R)
  PROVE  /\ WriteRow(old, kept, acc, s) \in Accs(R)
         /\ RowAdded(WriteRow(old, kept, acc, s), acc, s, old, kept)
<1> DEFINE reuse == ReusableId(s, old, acc.reused)
           used == {row.id : row \in kept \union acc.rows \union ToSet(old)}
           id == IF reuse # 0 THEN reuse ELSE Fresh(used)
           w == WriteRow(old, kept, acc, s)
<1>1. acc.rows \in SUBSET Row(R) /\ acc.reused \in SUBSET Nat /\ IsFiniteSet(acc.rows)
  BY DEF Accs
<1>2. Fresh(used) \in Nat \ {0} /\ Fresh(used) \notin used
  <2>1. IsFiniteSet(kept \union acc.rows)
    BY <1>1, FS_Union
  <2>2. IsFiniteSet(used)
    BY <2>1, UsedFinite
  <2>3. QED
    BY <2>2, FreshId
<1>3. \/ reuse = 0
      \/ \E i \in 1..Len(old) : reuse = old[i].id /\ reuse \notin acc.reused
  <2>1. Len(old) \in Nat /\ DOMAIN old = 1..Len(old)
    OBVIOUS
  <2>2. QED
    BY <2>1, ReusedId
<1>4. \A i \in 1..Len(old) : old[i].id \in Nat \ {0}
  <2>1. \A i \in 1..Len(old) : old[i] \in Row(R)
    OBVIOUS
  <2>2. QED
    BY <2>1 DEF Row
<1>5. w = [rows |-> acc.rows \union {Made(id, s)}, reused |-> acc.reused \union ({reuse} \ {0})]
  BY DEF WriteRow, Made
<1>6. \A row \in kept \union acc.rows \union ToSet(old) : row.id \in used
  OBVIOUS
<1> HIDE DEF reuse, used, w
<1>7. id \in Nat \ {0}
  BY <1>2, <1>3, <1>4
<1>8. Made(id, s) \in Row(R)
  BY <1>7 DEF Made, Row, SegmentOf
<1> HIDE DEF id
<1>9. w \in Accs(R)
  <2>1. IsFiniteSet(acc.rows \union {Made(id, s)})
    BY <1>1, FS_AddElement
  <2>2. {reuse} \ {0} \subseteq Nat
    BY <1>3, <1>4
  <2>3. QED
    BY <1>1, <1>5, <1>8, <2>1, <2>2 DEF Accs
<1>10. CASE reuse = 0
  <2>1. id = Fresh(used)
    BY <1>10 DEF id
  <2>2. {reuse} \ {0} = {}
    BY <1>10
  <2>3. \A row \in kept \union acc.rows \union ToSet(old) : row.id # id
    BY <1>2, <1>6, <2>1
  <2>4. w.rows = acc.rows \union {Made(id, s)} /\ w.reused = acc.reused
    BY <1>5, <2>2
  <2>5. QED
    BY <1>7, <1>9, <2>3, <2>4 DEF w, RowAdded
<1>11. CASE reuse # 0
  <2>1. id = reuse
    BY <1>11 DEF id
  <2>2. {reuse} \ {0} = {id}
    BY <1>11, <2>1
  <2>3. w.rows = acc.rows \union {Made(id, s)} /\ w.reused = acc.reused \union {id}
    BY <1>5, <2>2
  <2>4. id \notin acc.reused /\ \E i \in 1..Len(old) : old[i].id = id
    BY <1>3, <1>11, <2>1
  <2>5. QED
    BY <1>7, <1>9, <2>3, <2>4 DEF w, RowAdded
<1>12. QED
  BY <1>10, <1>11

\* What Written has after each of the segments.
Writes(h, new, old, kept) ==
  /\ h[0] = NothingWritten
  /\ \A n \in 1..Len(new) : h[n] = WriteRow(old, kept, h[n - 1], new[n])
  /\ Written(new, old, kept) = h[Len(new)].rows

LEMMA WrittenSteps ==
  ASSUME NEW R, NEW kept, IsFiniteSet(kept), NEW old \in Seq(Row(R)), NEW new \in Seq(SegmentOf(R))
  PROVE  \E h : Writes(h, new, old, kept)
<1> DEFINE N == Len(new)
           A == Accs(R)
           g == [n \in 1..N |-> [acc \in A |-> WriteRow(old, kept, acc, new[n])]]
           Is(f) == f = [s \in SUBSET (DOMAIN new) |->
                           IF s = {} THEN NothingWritten
                           ELSE WriteRow(old, kept, f[s \ {Max(s)}], new[Max(s)])]
<1>1. N \in Nat /\ DOMAIN new = 1..N /\ \A n \in 1..N : new[n] \in SegmentOf(R)
  OBVIOUS
<1>2. NothingWritten \in A
  BY FS_EmptySet DEF NothingWritten, Accs
<1>3. g \in [1..N -> [A -> A]] /\ \A n \in 1..N, a \in A : g[n][a] = WriteRow(old, kept, a, new[n])
  <2>1. \A n \in 1..N, a \in A : WriteRow(old, kept, a, new[n]) \in A
    BY <1>1, RowWritten
  <2> HIDE DEF A
  <2>2. QED
    BY <2>1
<1> HIDE DEF N, A, g
<1>4. PICK f : FoldsLeft(f, A, NothingWritten, N, g)
  BY <1>1, <1>2, <1>3, FoldDefined
<1>5. Is(f)
  <2>1. f \in [SUBSET (1..N) -> A]
    BY <1>4 DEF FoldsLeft
  <2>2. ASSUME NEW s \in SUBSET (1..N)
        PROVE  f[s] = IF s = {} THEN NothingWritten
                      ELSE WriteRow(old, kept, f[s \ {Max(s)}], new[Max(s)])
    <3>1. s # {} => Max(s) \in 1..N
      BY <1>1, LastPosition
    <3>2. s \ {Max(s)} \in SUBSET (1..N)
      OBVIOUS
    <3>3. f[s \ {Max(s)}] \in A
      BY <2>1, <3>2
    <3>4. f[s] = IF s = {} THEN NothingWritten ELSE g[Max(s)][f[s \ {Max(s)}]]
      BY <1>4 DEF FoldsLeft
    <3>5. QED
      BY <1>3, <3>1, <3>3, <3>4
  <2>3. QED
    BY <1>1, <2>1, <2>2
<1> DEFINE c == CHOOSE u : Is(u)
<1>6. Is(c)
  <2> HIDE DEF Is
  <2>1. QED
    BY <1>5
<1>7. Written(new, old, kept) = c[1..N].rows
  <2>1. Written(new, old, kept) = c[DOMAIN new].rows
    BY WrittenIsFold
  <2>2. QED
    BY <1>1, <2>1
<1> HIDE DEF c
<1> DEFINE h == [n \in 0..N |-> c[1..n]]
<1>8. h[0] = NothingWritten
  <2>1. 0 \in 0..N /\ 1..0 = {}
    BY <1>1
  <2>2. c[{}] = NothingWritten
    BY <1>6
  <2>3. QED
    BY <2>1, <2>2
<1>9. ASSUME NEW n \in 1..N PROVE h[n] = WriteRow(old, kept, h[n - 1], new[n])
  <2>1. n \in 0..N /\ n - 1 \in 0..N /\ n \in Nat
    BY <1>1
  <2>2. 1..n \in SUBSET (1..N) /\ n \in 1..n /\ (1..n) \ {n} = 1..(n - 1)
    BY <1>1, <2>1
  <2>3. Max(1..n) = n
    BY <2>1, <2>2, LastPosition
  <2>4. c[1..n] = WriteRow(old, kept, c[1..(n - 1)], new[n])
    BY <1>1, <1>6, <2>2, <2>3
  <2>5. QED
    BY <2>1, <2>4
<1>10. h[N] = c[1..N]
  BY <1>1
<1> HIDE DEF h
<1>11. Writes(h, new, old, kept)
  BY <1>7, <1>8, <1>9, <1>10 DEF Writes, N
<1>12. QED
  BY <1>11

\* The rows Written has made of the first n segments: of their shapes, with ids that no
\* kept row has, and those of replaced rows at most once.
MadeOf(acc, n, new, old, kept) ==
  /\ \A r \in acc.rows : Shape(r) /\ \E i \in 1..n : r.first = new[i].first
  /\ \A r, t \in acc.rows : r # t => r.id # t.id /\ r.first # t.first
  /\ \A r \in acc.rows, i \in 1..Len(old) : r.id = old[i].id => r.id \in acc.reused
  /\ \A r \in acc.rows, row \in kept : r.id # row.id

\* A step of Written keeps that, for a segment with a first event of its own.
LEMMA MadeStep ==
  ASSUME NEW R, NEW kept, IsFiniteSet(kept), NEW old \in Seq(Row(R)), NEW new \in Seq(SegmentOf(R)),
         \A row \in kept, i \in 1..Len(old) : row.id # old[i].id,
         \A i \in 1..Len(new) : Shape(new[i]),
         \A i, j \in 1..Len(new) : i < j => new[i].first # new[j].first,
         NEW n \in 1..Len(new), NEW acc \in Accs(R), MadeOf(acc, n - 1, new, old, kept)
  PROVE  MadeOf(WriteRow(old, kept, acc, new[n]), n, new, old, kept)
<1> DEFINE s == new[n]
           w == WriteRow(old, kept, acc, s)
<1>1. s \in SegmentOf(R) /\ Shape(s) /\ n \in Nat
  OBVIOUS
<1>2. PICK id \in Nat \ {0} :
        /\ w.rows = acc.rows \union {Made(id, s)}
        /\ \/ /\ \A row \in kept \union acc.rows \union ToSet(old) : row.id # id
              /\ w.reused = acc.reused
           \/ /\ \E i \in 1..Len(old) : old[i].id = id
              /\ id \notin acc.reused
              /\ w.reused = acc.reused \union {id}
  <2> HIDE DEF s
  <2>1. RowAdded(w, acc, s, old, kept)
    BY <1>1, RowWritten
  <2> HIDE DEF w
  <2>2. QED
    BY <2>1 DEF RowAdded
<1> HIDE DEF w
<1> DEFINE m == Made(id, s)
<1>3. m.id = id /\ m.first = s.first /\ Shape(m)
  BY <1>1 DEF Made, Shape, Start
<1>4. \A i \in 1..Len(old) : old[i] \in ToSet(old)
  BY DEF ToSet
<1>5. \A i \in 1..(n - 1) : i \in 1..n /\ i \in 1..Len(new) /\ i < n
  BY <1>1
<1>6. \A r \in acc.rows : r.first # s.first
  BY <1>5 DEF MadeOf
<1>7. \A r \in acc.rows : r.id # id
  <2>1. CASE \A row \in kept \union acc.rows \union ToSet(old) : row.id # id
    BY <2>1
  <2>2. CASE (\E i \in 1..Len(old) : old[i].id = id) /\ id \notin acc.reused
    BY <2>2 DEF MadeOf
  <2>3. QED
    BY <1>2, <2>1, <2>2
<1>8. \A row \in kept : row.id # id
  BY <1>2
<1>9. \A i \in 1..Len(old) : id = old[i].id => id \in w.reused
  BY <1>2, <1>4
<1>10. acc.reused \subseteq w.reused
  BY <1>2
<1>11. n \in 1..n
  BY <1>1
<1> HIDE DEF m
<1>12. \A r \in w.rows : r \in acc.rows \/ r = m
  BY <1>2 DEF m
<1>13. \A r \in w.rows : Shape(r) /\ \E i \in 1..n : r.first = new[i].first
  BY <1>3, <1>5, <1>11, <1>12 DEF MadeOf
<1>14. \A r, t \in w.rows : r # t => r.id # t.id /\ r.first # t.first
  BY <1>3, <1>6, <1>7, <1>12 DEF MadeOf
<1>15. \A r \in w.rows, i \in 1..Len(old) : r.id = old[i].id => r.id \in w.reused
  BY <1>3, <1>9, <1>10, <1>12 DEF MadeOf
<1>16. \A r \in w.rows, row \in kept : r.id # row.id
  BY <1>3, <1>8, <1>12 DEF MadeOf
<1>17. QED
  BY <1>13, <1>14, <1>15, <1>16 DEF MadeOf, w

\* The rows written with those kept are rows as the tables have them.
LEMMA RowsWritten ==
  ASSUME NEW R, NEW kept, RowsOK(kept, R), NEW old \in Seq(Row(R)), NEW new \in Seq(SegmentOf(R)),
         \A row \in kept, i \in 1..Len(old) : row.id # old[i].id,
         \A i \in 1..Len(new) : Shape(new[i]),
         \A i, j \in 1..Len(new) : i < j => new[i].first # new[j].first,
         \A i \in 1..Len(new), row \in kept : new[i].first # row.first
  PROVE  RowsOK(kept \union Written(new, old, kept), R)
<1> DEFINE N == Len(new)
           W == Written(new, old, kept)
<1>1. IsFiniteSet(kept) /\ N \in Nat /\ \A n \in 1..N : new[n] \in SegmentOf(R)
  BY DEF RowsOK
<1>2. PICK h : Writes(h, new, old, kept)
  BY <1>1, WrittenSteps
<1>3. /\ h[0] = NothingWritten
      /\ \A n \in 1..N : h[n] = WriteRow(old, kept, h[n - 1], new[n])
      /\ W = h[N].rows
  BY <1>2 DEF Writes
<1> DEFINE Good(n) == h[n - 1] \in Accs(R) /\ MadeOf(h[n - 1], n - 1, new, old, kept)
           T == {n \in 1..(N + 1) : Good(n)}
<1>4. 1 \in T
  <2>1. 1 \in 1..(N + 1) /\ 1 - 1 = 0
    BY <1>1
  <2>2. NothingWritten \in Accs(R)
    BY FS_EmptySet DEF NothingWritten, Accs
  <2>3. NothingWritten.rows = {}
    BY DEF NothingWritten
  <2>4. MadeOf(NothingWritten, 0, new, old, kept)
    BY <2>3 DEF MadeOf
  <2>5. QED
    BY <1>3, <2>1, <2>2, <2>4
<1>5. ASSUME NEW n \in 1..(N + 1), n \in T, n < N + 1 PROVE n + 1 \in T
  <2>1. n \in 1..N /\ (n + 1) - 1 = n /\ n + 1 \in 1..(N + 1)
    BY <1>1, <1>5
  <2>2. Good(n)
    BY <1>5
  <2>3. h[n] = WriteRow(old, kept, h[n - 1], new[n])
    BY <1>3, <2>1
  <2>4. h[n] \in Accs(R)
    BY <1>1, <2>1, <2>2, <2>3, RowWritten
  <2>5. MadeOf(h[n], n, new, old, kept)
    BY <1>1, <2>1, <2>2, <2>3, MadeStep
  <2>6. QED
    BY <2>1, <2>4, <2>5
<1>6. h[N] \in Accs(R) /\ MadeOf(h[N], N, new, old, kept)
  <2>1. N + 1 \in Nat /\ N + 1 \in 1..(N + 1) /\ (N + 1) - 1 = N
    BY <1>1
  <2>2. N + 1 \in T
    <3> HIDE DEF T
    <3>1. QED
      BY <1>4, <1>5, <2>1, Upwards
  <2>3. QED
    BY <2>1, <2>2
<1> HIDE DEF W
<1>7. W \in SUBSET Row(R) /\ IsFiniteSet(W)
  BY <1>3, <1>6 DEF Accs
<1>8. /\ \A r \in W : Shape(r) /\ \E i \in 1..N : r.first = new[i].first
      /\ \A r, t \in W : r # t => r.id # t.id /\ r.first # t.first
      /\ \A r \in W, row \in kept : r.id # row.id
  BY <1>3, <1>6 DEF MadeOf
<1>9. \A r \in W, row \in kept : r.first # row.first
  BY <1>8
<1>10. IsFiniteSet(kept \union W)
  BY <1>1, <1>7, FS_Union
<1>11. QED
  BY <1>7, <1>8, <1>9, <1>10 DEF RowsOK, W

-----------------------------------------------------------------------------
(* What a transaction leaves *)

\* The pairs of records of which one is before the other.
Earlier(R) == {p \in R \X R : Before(p[1], p[2])}

\* The j-th row begins with the first event of s.
RowOfFirst(j, s, existing) == j \in 1..Len(existing) /\ existing[j].first = s.first

\* Where a segment converges with a stored row they have one first event.
LEMMA ConvergedRow ==
  ASSUME NEW s, NEW rows, NEW existing \in Seq(rows), NEW t, ConvergedIndex(s, existing, t) # 0
  PROVE  RowOfFirst(ConvergedIndex(s, existing, t), s, existing)
<1> DEFINE I == {k \in 1..Len(existing) : SameAs(s, existing[k])}
           j == ConvergedIndex(s, existing, t)
<1>1. j # 0 => I # {} /\ j = Min(I)
  BY DEF ConvergedIndex, SelectInSeq
<1>2. I \subseteq Nat /\ I \subseteq 1..Len(existing) /\ \A k \in I : existing[k].first = s.first
  BY DEF SameAs
<1> HIDE DEF I
<1>3. j \in I
  BY <1>1, <1>2, FirstOf DEF j
<1>4. QED
  BY <1>2, <1>3 DEF RowOfFirst, j

\* The segments that are written and the rows they replace end where both converge.
LEMMA CutsAgree ==
  ASSUME NEW projected, Len(projected) \in Nat, NEW rows, NEW existing \in Seq(rows), NEW t,
         NEW i, i = SelectInSeq(projected, LAMBDA s : ConvergedIndex(s, existing, t) # 0)
  PROVE  /\ i \in 0..Len(projected)
         /\ i # 0 => RowOfFirst(ConvergedIndex(projected[i], existing, t), projected[i], existing)
<1> DEFINE I == {k \in 1..Len(projected) : ConvergedIndex(projected[k], existing, t) # 0}
<1>1. i = IF I # {} THEN Min(I) ELSE 0
  BY DEF SelectInSeq
<1>2. I \subseteq Nat /\ I \subseteq 1..Len(projected) /\ \A k \in I : ConvergedIndex(projected[k], existing, t) # 0
  OBVIOUS
<1> HIDE DEF I
<1>3. i = 0 \/ i \in I
  BY <1>1, <1>2, FirstOf
<1>4. i \in I => ConvergedIndex(projected[i], existing, t) # 0
  BY <1>2
<1>5. i \in I => RowOfFirst(ConvergedIndex(projected[i], existing, t), projected[i], existing)
  BY <1>4, ConvergedRow
<1>6. i \in 0..Len(projected)
  BY <1>2, <1>3
<1>7. QED
  BY <1>3, <1>5, <1>6

\* The first m elements of a sequence.
LEMMA Beginning ==
  ASSUME NEW S, NEW s \in Seq(S), NEW m \in 0..Len(s)
  PROVE  /\ SubSeq(s, 1, m) \in Seq(S) /\ Len(SubSeq(s, 1, m)) = m
         /\ \A k \in 1..m : SubSeq(s, 1, m)[k] = s[k]
OBVIOUS

\* Segments that replace rows leave rows as the tables have them, if all rows that begin
\* with a segment's first event are among those that may be replaced.
LEMMA ReplacedRows ==
  ASSUME NEW R, Observations(R), NEW rows, RowsOK(rows, R),
         NEW projected \in Seq(SegmentOf(R)), Sound(projected, R, Earlier(R)),
         NEW existing \in Seq(rows),
         \A k, l \in 1..Len(existing) : k < l => Before(existing[k].first, existing[l].first),
         \A row \in rows : \/ row \in ToSet(existing)
                           \/ \A k \in 1..Len(projected) : projected[k].first # row.first,
         NEW t
  PROVE  RowsOK(Replace(rows, projected, existing, t), R)
<1> DEFINE i == SelectInSeq(projected, LAMBDA s : ConvergedIndex(s, existing, t) # 0)
           j == ConvergedIndex(projected[i], existing, t)
           new == IF i = 0 THEN projected ELSE SubSeq(projected, 1, i - 1)
           old == IF i = 0 THEN existing ELSE SubSeq(existing, 1, j - 1)
           kept == rows \ ToSet(old)
<1>1. Replace(rows, projected, existing, t) = kept \union Written(new, old, kept)
  BY DEF Replace
<1>2. Len(projected) \in Nat /\ Len(existing) \in Nat
  OBVIOUS
<1>3. /\ i \in 0..Len(projected)
      /\ i # 0 => j \in 1..Len(existing) /\ existing[j].first = projected[i].first
  <2>1. i \in 0..Len(projected) /\ (i # 0 => RowOfFirst(j, projected[i], existing))
    BY <1>2, CutsAgree, Zenon
  <2>2. QED
    BY <2>1 DEF RowOfFirst
<1> HIDE DEF i, j
<1>4. /\ new \in Seq(SegmentOf(R)) /\ Len(new) <= Len(projected)
      /\ i # 0 => Len(new) = i - 1
      /\ \A k \in 1..Len(new) : k \in 1..Len(projected) /\ new[k] = projected[k]
  <2>1. CASE i = 0
    BY <1>2, <2>1
  <2>2. CASE i # 0
    <3>1. i - 1 \in 0..Len(projected) /\ i - 1 <= Len(projected)
      BY <1>2, <1>3, <2>2
    <3> DEFINE m == i - 1
    <3> HIDE DEF m
    <3>2. /\ SubSeq(projected, 1, m) \in Seq(SegmentOf(R)) /\ Len(SubSeq(projected, 1, m)) = m
          /\ \A k \in 1..m : SubSeq(projected, 1, m)[k] = projected[k]
      BY <3>1, Beginning DEF m
    <3>3. new = SubSeq(projected, 1, m) /\ m <= Len(projected) /\ m \in Nat
      BY <1>2, <2>2, <3>1 DEF m
    <3> HIDE DEF new
    <3>4. \A k \in 1..m : k \in 1..Len(projected)
      BY <1>2, <3>3
    <3>5. QED
      BY <3>2, <3>3, <3>4 DEF m
  <2>3. QED
    BY <2>1, <2>2
<1>5. /\ old \in Seq(rows)
      /\ i = 0 => old = existing
      /\ i # 0 => \A k \in 1..(j - 1) : k \in DOMAIN old /\ old[k] = existing[k]
  <2>1. CASE i = 0
    BY <2>1
  <2>2. CASE i # 0
    <3> DEFINE m == j - 1
    <3>1. m \in 0..Len(existing)
      BY <1>2, <1>3, <2>2
    <3> HIDE DEF m
    <3>2. /\ SubSeq(existing, 1, m) \in Seq(rows) /\ Len(SubSeq(existing, 1, m)) = m
          /\ \A k \in 1..m : SubSeq(existing, 1, m)[k] = existing[k]
      BY <3>1, Beginning
    <3>3. old = SubSeq(existing, 1, m) /\ m \in Nat
      BY <1>2, <2>2, <3>1 DEF m
    <3> HIDE DEF old
    <3>4. DOMAIN old = 1..m
      BY <3>2, <3>3
    <3>5. QED
      BY <2>2, <3>2, <3>3, <3>4 DEF m
  <2>3. QED
    BY <2>1, <2>2
<1> HIDE DEF new, old
<1>6. IsFiniteSet(rows) /\ rows \subseteq Row(R)
  BY DEF RowsOK
<1>7. RowsOK(kept, R) /\ old \in Seq(Row(R))
  <2>1. IsFiniteSet(kept)
    BY <1>6, FS_Subset
  <2>2. RowsOK(kept, R)
    BY <2>1 DEF RowsOK
  <2>3. QED
    BY <1>5, <1>6, <2>2
<1>8. ASSUME NEW row \in kept, NEW k \in 1..Len(old) PROVE row.id # old[k].id
  <2>1. old[k] \in rows /\ old[k] \in ToSet(old)
    BY <1>5 DEF ToSet
  <2>2. QED
    BY <2>1 DEF RowsOK
<1>9. \A k \in 1..Len(new) : Shape(new[k])
  BY <1>4 DEF Sound
<1>10. \A k \in 1..Len(projected) : projected[k].first \in R
  BY DEF Sound
<1>11. \A k, l \in 1..Len(projected) : k < l => Before(projected[k].first, projected[l].first)
  <2>1. \A x, y : <<x, y>> \in Earlier(R) => Before(x, y)
    BY DEF Earlier
  <2>2. QED
    BY <2>1 DEF Sound
<1>12. \A k, l \in 1..Len(new) : k < l => new[k].first # new[l].first
  BY <1>4, <1>10, <1>11, BeforeOrders
<1>13. ASSUME NEW k \in 1..Len(new), NEW row \in kept PROVE new[k].first # row.first
  <2>1. k \in 1..Len(projected) /\ new[k] = projected[k] /\ row \in rows
    BY <1>4
  <2>2. CASE row \notin ToSet(existing)
    BY <2>1, <2>2
  <2>3. CASE row \in ToSet(existing)
    <3>1. i # 0
      BY <1>5, <2>3
    <3>2. PICK m \in 1..Len(existing) : existing[m] = row
      BY <2>3 DEF ToSet
    <3>3. j \in 1..Len(existing) /\ existing[j].first = projected[i].first /\ i \in 1..Len(projected)
      BY <1>2, <1>3, <3>1
    <3>4. ~(m <= j - 1)
      <4>1. SUFFICES ASSUME m <= j - 1 PROVE FALSE
        OBVIOUS
      <4>2. m \in 1..(j - 1)
        BY <1>2, <3>3, <4>1
      <4>3. row \in ToSet(old)
        BY <1>5, <3>1, <3>2, <4>2 DEF ToSet
      <4>4. QED
        BY <4>3
    <3>5. m = j \/ j < m
      BY <1>2, <3>3, <3>4
    <3>6. k < i
      BY <1>2, <1>4, <2>1, <3>1, <3>3
    <3>7. Before(projected[k].first, projected[i].first)
      BY <1>11, <2>1, <3>3, <3>6
    <3>8. row.first = projected[i].first \/ Before(projected[i].first, row.first)
      BY <3>2, <3>3, <3>5
    <3>9. row.first \in R
      BY <1>6, <2>1 DEF Row
    <3>10. Before(projected[k].first, row.first)
      BY <1>10, <2>1, <3>3, <3>7, <3>8, <3>9, BeforeOrders
    <3>11. QED
      BY <1>10, <2>1, <3>9, <3>10, BeforeOrders
  <2>4. QED
    BY <2>2, <2>3
<1> HIDE DEF kept
<1>14. RowsOK(kept \union Written(new, old, kept), R)
  BY <1>4, <1>7, <1>8, <1>9, <1>12, <1>13, RowsWritten
<1>15. QED
  BY <1>1, <1>14

\* The segments of records projected in an order, after none or some that precede them.
LEMMA ProjectSound ==
  ASSUME NEW R, \A q \in R : q.observedAt \in Int, NEW F, NEW rel,
         NEW p \in Seq(SegmentOf(R)), Sound(p, F, rel),
         NEW rs \in Seq(R),
         \A j \in 1..Len(rs) : rs[j] \in F /\ AllBefore(p, rs[j], rel),
         \A i, j \in 1..Len(rs) : i < j => rs[i].observedAt <= rs[j].observedAt /\ <<rs[i], rs[j]>> \in rel
  PROVE  Project(p, rs) \in Seq(SegmentOf(R)) /\ Sound(Project(p, rs), F, rel)
<1>1. Feeds(Fed(p, rs), p, rs, R)
  BY FedSteps
<1> DEFINE f == Fed(p, rs)
<1> HIDE DEF f
<1>2. \A n \in 0..Len(rs) : f[n] \in Seq(SegmentOf(R)) /\ Sound(f[n], F, rel)
  <2>1. Feeds(f, p, rs, R)
    BY <1>1 DEF f
  <2>2. QED
    BY <2>1, FedSound
<1>3. Len(rs) \in 0..Len(rs)
  OBVIOUS
<1>4. Project(p, rs) = f[Len(rs)]
  BY DEF Project, f
<1>5. QED
  BY <1>2, <1>3, <1>4

\* No segments are sound, and precede every record.
LEMMA NoneSound ==
  ASSUME NEW R, NEW F, NEW rel
  PROVE  <<>> \in Seq(SegmentOf(R)) /\ Sound(<<>>, F, rel) /\ \A r : AllBefore(<<>>, r, rel)
<1>1. Len(<<>>) = 0 /\ <<>> \in Seq(SegmentOf(R))
  OBVIOUS
<1>2. QED
  BY <1>1 DEF Sound, AllBefore

\* Records in their merge order come in the order of time.
LEMMA MergedInTime ==
  ASSUME NEW R, Observations(R), NEW S \in SUBSET R, IsFiniteSet(S)
  PROVE  LET o == MergeOrder(S)
         IN  /\ o \in Seq(R) /\ o \in Seq(S) /\ ToSet(o) = S /\ Len(o) \in Nat
             /\ \A i \in 1..Len(o) : o[i] \in S
             /\ \A i, j \in 1..Len(o) : i < j => /\ o[i].observedAt <= o[j].observedAt
                                                 /\ <<o[i], o[j]>> \in Earlier(R)
<1> DEFINE o == MergeOrder(S)
<1>1. Observations(S)
  BY DEF Observations
<1>2. /\ o \in Seq(S) /\ Len(o) \in Nat /\ ToSet(o) = S
      /\ \A i, j \in DOMAIN o : i < j => Before(o[i], o[j])
  BY <1>1, MergeOrderSorts
<1> HIDE DEF o
<1>3. /\ o \in Seq(R) /\ DOMAIN o = 1..Len(o) /\ \A i \in 1..Len(o) : o[i] \in S
  BY <1>2
<1>4. \A i, j \in 1..Len(o) : i < j => o[i].observedAt <= o[j].observedAt /\ <<o[i], o[j]>> \in Earlier(R)
  <2>1. \A x, y \in S : Before(x, y) => x.observedAt <= y.observedAt /\ <<x, y>> \in Earlier(R)
    BY <1>1, BeforeOrders DEF Earlier
  <2>2. QED
    BY <1>2, <1>3, <2>1
<1>5. QED
  BY <1>2, <1>3, <1>4 DEF o

\* Rows as the tables have them are read in order.
LEMMA RowsInOrder ==
  ASSUME NEW R, Observations(R), NEW rows, RowsOK(rows, R), NEW S \in SUBSET rows
  PROVE  LET o == Rows(S)
         IN  /\ o \in Seq(rows) /\ o \in Seq(S) /\ ToSet(o) = S /\ Len(o) \in Nat
             /\ S # {} => Len(o) # 0
             /\ \A k, l \in 1..Len(o) : k < l => Before(o[k].first, o[l].first)
<1> DEFINE o == Rows(S)
           F == {s.first : s \in S}
<1>1. RowsApart(S)
  <2>1. IsFiniteSet(S)
    BY FS_Subset DEF RowsOK
  <2>2. F \subseteq R
    BY DEF RowsOK, Row
  <2> HIDE DEF F
  <2>3. Observations(F)
    BY <2>2 DEF Observations
  <2>4. \A s, t \in S : s # t => s.first # t.first
    BY DEF RowsOK
  <2>5. QED
    BY <2>1, <2>3, <2>4 DEF RowsApart, F
<1>2. /\ o \in Seq(S) /\ Len(o) \in Nat /\ ToSet(o) = S
      /\ \A i, j \in DOMAIN o : i < j => Before(o[i].first, o[j].first)
  BY <1>1, RowsSort
<1> HIDE DEF o
<1>3. o \in Seq(rows) /\ DOMAIN o = 1..Len(o)
  BY <1>2
<1>4. S # {} => Len(o) # 0
  <2>1. SUFFICES ASSUME Len(o) = 0 PROVE S = {}
    OBVIOUS
  <2>2. QED
    BY <1>2, <1>3, <2>1 DEF ToSet
<1>5. QED
  BY <1>2, <1>3, <1>4 DEF o

\* The first rebuild of an account with history.
LEMMA RebuildKeeps ==
  ASSUME NEW rows, IsFiniteSet(records), Observations(records), RowsOK(rows, records), NEW now
  PROVE  RowsOK(RebuildLegacy(rows, now), records)
<1> DEFINE ordered == MergeOrder(records)
           projected == Finish(Project(<<>>, ordered), now)
           existing == Rows(rows)
<1>1. PICK R : R = records
  OBVIOUS
<1>2. \A q \in R : q.observedAt \in Int
  BY <1>1 DEF Observations
<1>3. /\ ordered \in Seq(R)
      /\ \A i \in 1..Len(ordered) : ordered[i] \in R
      /\ \A i, j \in 1..Len(ordered) : i < j => /\ ordered[i].observedAt <= ordered[j].observedAt
                                                /\ <<ordered[i], ordered[j]>> \in Earlier(R)
  BY <1>1, MergedInTime
<1> HIDE DEF ordered
<1>4. Project(<<>>, ordered) \in Seq(SegmentOf(R)) /\ Sound(Project(<<>>, ordered), R, Earlier(R))
  <2>1. /\ <<>> \in Seq(SegmentOf(R)) /\ Sound(<<>>, R, Earlier(R))
        /\ \A r : AllBefore(<<>>, r, Earlier(R))
    BY NoneSound
  <2> DEFINE p == <<>>
  <2>2. p \in Seq(SegmentOf(R)) /\ Sound(p, R, Earlier(R)) /\ \A r : AllBefore(p, r, Earlier(R))
    BY <2>1
  <2> HIDE DEF p
  <2>3. Project(p, ordered) \in Seq(SegmentOf(R)) /\ Sound(Project(p, ordered), R, Earlier(R))
    BY <1>2, <1>3, <2>2, ProjectSound
  <2>4. QED
    BY <2>3 DEF p
<1>5. projected \in Seq(SegmentOf(R)) /\ Sound(projected, R, Earlier(R))
  BY <1>2, <1>4, FinishSound
<1>6. /\ existing \in Seq(rows) /\ ToSet(existing) = rows
      /\ \A k, l \in 1..Len(existing) : k < l => Before(existing[k].first, existing[l].first)
  BY RowsInOrder
<1>7. RebuildLegacy(rows, now) = Replace(rows, projected, existing, Last(ordered).observedAt)
  BY DEF RebuildLegacy, ordered
<1> HIDE DEF projected, existing
<1>8. RowsOK(Replace(rows, projected, existing, Last(ordered).observedAt), R)
  <2>1. Observations(R) /\ RowsOK(rows, R)
    BY <1>1
  <2>2. QED
    BY <1>5, <1>6, <2>1, ReplacedRows
<1>9. QED
  BY <1>1, <1>7, <1>8

\* Rows of fewer records are rows of more.
LEMMA RowsOfMore ==
  ASSUME NEW S, NEW R, S \subseteq R, NEW rows, RowsOK(rows, S)
  PROVE  RowsOK(rows, R)
<1>1. Row(S) \subseteq Row(R)
  BY DEF Row
<1>2. QED
  BY <1>1 DEF RowsOK

LEMMA SoundInMore ==
  ASSUME NEW F, NEW R, F \subseteq R, NEW rel, NEW p, Sound(p, F, rel)
  PROVE  Sound(p, R, rel)
BY DEF Sound

\* The last of the rows.
LEMMA LastOfRows ==
  ASSUME NEW S, Observations(S), NEW rows, RowsOK(rows, S), rows # {}
  PROVE  LET z == Last(Rows(rows))
         IN  z \in rows /\ z.first \in S /\ \A s \in rows : s # z => Before(s.first, z.first)
<1> DEFINE o == Rows(rows)
           z == Last(o)
<1>1. /\ o \in Seq(rows) /\ ToSet(o) = rows /\ Len(o) \in Nat /\ Len(o) # 0
      /\ \A k, l \in 1..Len(o) : k < l => Before(o[k].first, o[l].first)
  BY RowsInOrder
<1> HIDE DEF o
<1>2. z = o[Len(o)] /\ Len(o) \in 1..Len(o) /\ DOMAIN o = 1..Len(o)
  BY <1>1 DEF Last
<1>3. z \in rows
  BY <1>1, <1>2
<1>4. ASSUME NEW s \in rows, s # z PROVE Before(s.first, z.first)
  <2>1. PICK k \in 1..Len(o) : o[k] = s
    BY <1>1, <1>2 DEF ToSet
  <2>2. k < Len(o)
    BY <1>1, <1>2, <1>4, <2>1
  <2>3. QED
    BY <1>1, <1>2, <2>1, <2>2
<1>5. QED
  BY <1>3, <1>4 DEF RowsOK, Row, o

\* What the records that are after all yield when they are fed to a row.
LEMMA AppendSound ==
  ASSUME NEW S, NEW adopted, NEW R, R = S \union adopted, Observations(R), IsFiniteSet(adopted),
         NEW rows, RowsOK(rows, S), NEW z \in rows, NEW now,
         \A r \in S : Before(r, MergeOrder(adopted)[1])
  PROVE  LET p == Project(<<Seed(z)>>, MergeOrder(adopted))
         IN  /\ Seed(z) \in SegmentOf(R) /\ p \in Seq(SegmentOf(R))
             /\ Finish(p, now) \in Seq(SegmentOf(R))
             /\ Sound(Finish(p, now), {z.first} \union adopted, Earlier(R))
<1> DEFINE ordered == MergeOrder(adopted)
           p == <<Seed(z)>>
           projected == Finish(Project(p, ordered), now)
           F == {z.first} \union adopted
<1>1. adopted \in SUBSET R /\ S \subseteq R /\ \A q \in R : q.observedAt \in Int
  BY DEF Observations
<1>2. /\ ordered \in Seq(R) /\ Len(ordered) \in Nat
      /\ \A i \in 1..Len(ordered) : ordered[i] \in adopted
      /\ \A i, j \in 1..Len(ordered) : i < j => /\ ordered[i].observedAt <= ordered[j].observedAt
                                                /\ <<ordered[i], ordered[j]>> \in Earlier(R)
  BY <1>1, MergedInTime
<1>3. \A r \in S : Before(r, ordered[1])
  OBVIOUS
<1> HIDE DEF ordered
<1>4. z \in Row(S) /\ z.first \in S /\ z.last \in S /\ Shape(z)
  BY DEF RowsOK, Row
<1> DEFINE s == Seed(z)
<1>5. s \in SegmentOf(R) /\ s.first = z.first /\ s.last = z.last /\ Shape(s)
  BY <1>1, <1>4 DEF Seed, SegmentOf, Shape, Start
<1>6. /\ p \in Seq(SegmentOf(R)) /\ Len(p) = 1 /\ p[1] = s
  <2> HIDE DEF s
  <2>1. <<s>> \in Seq(SegmentOf(R)) /\ Len(<<s>>) = 1 /\ <<s>>[1] = s
    BY <1>5
  <2>2. QED
    BY <2>1 DEF s
<1> HIDE DEF p, s
<1>7. \A k \in 1..Len(p) : p[k] = s
  BY <1>6
<1>8. Sound(p, F, Earlier(R))
  BY <1>5, <1>6, <1>7 DEF Sound
<1>9. ASSUME NEW j \in 1..Len(ordered)
      PROVE  ordered[j] \in F /\ AllBefore(p, ordered[j], Earlier(R))
  <2>1. 1 \in 1..Len(ordered) /\ (j = 1 \/ 1 < j)
    BY <1>2
  <2>2. ordered[1] \in R /\ ordered[j] \in R /\ ordered[j] \in adopted
    BY <1>1, <1>2, <2>1
  <2>3. ordered[j] = ordered[1] \/ Before(ordered[1], ordered[j])
    BY <1>2, <2>1 DEF Earlier
  <2>4. Before(s.first, ordered[j]) /\ Before(s.last, ordered[j])
    BY <1>1, <1>3, <1>4, <1>5, <2>2, <2>3, BeforeOrders
  <2>5. s.last.observedAt <= ordered[j].observedAt /\ <<s.first, ordered[j]>> \in Earlier(R)
    BY <1>1, <1>4, <1>5, <2>2, <2>4, BeforeOrders DEF Earlier
  <2>6. QED
    BY <1>7, <2>2, <2>5 DEF AllBefore
<1> HIDE DEF F
<1>10. Project(p, ordered) \in Seq(SegmentOf(R)) /\ Sound(Project(p, ordered), F, Earlier(R))
  BY <1>1, <1>2, <1>6, <1>8, <1>9, ProjectSound
<1>11. projected \in Seq(SegmentOf(R)) /\ Sound(projected, F, Earlier(R))
  BY <1>1, <1>10, FinishSound
<1>12. QED
  BY <1>5, <1>10, <1>11 DEF p, s, ordered, F

\* Appending to the last row the records that are after all.
LEMMA AppendKeeps ==
  ASSUME NEW adopted, IsFiniteSet(adopted), records \intersect adopted = {},
         Observations(records \union adopted),
         NEW rows, RowsOK(rows, records), rows # {}, NEW now,
         \A r \in records : Before(r, MergeOrder(adopted)[1])
  PROVE  RowsOK(AppendTo(rows, MergeOrder(adopted), now), records \union adopted)
<1> DEFINE ordered == MergeOrder(adopted)
           lastRow == Last(Rows(rows))
           p == <<Seed(lastRow)>>
           existing == <<lastRow>>
           projected == Finish(Project(p, ordered), now)
           F == {lastRow.first} \union adopted
<1>1. PICK S, R : S = records /\ R = S \union adopted
  OBVIOUS
<1>2. Observations(R) /\ Observations(S) /\ RowsOK(rows, S) /\ RowsOK(rows, R) /\ S \subseteq R /\ adopted \subseteq R
  <2>1. Observations(R) /\ Observations(S) /\ RowsOK(rows, S) /\ S \subseteq R /\ adopted \subseteq R
    BY <1>1 DEF Observations
  <2>2. QED
    BY <2>1, RowsOfMore
<1>3. AppendTo(rows, ordered, now) = Replace(rows, projected, existing, Last(ordered).observedAt)
  BY DEF AppendTo
<1>4. lastRow \in rows /\ lastRow.first \in S
  BY <1>2, LastOfRows
<1>5. projected \in Seq(SegmentOf(R)) /\ Sound(projected, F, Earlier(R))
  <2> HIDE DEF lastRow
  <2>1. QED
    BY <1>1, <1>2, <1>4, AppendSound
<1>6. F \subseteq R
  BY <1>2, <1>4
<1> HIDE DEF ordered, projected, lastRow
<1>7. Sound(projected, R, Earlier(R))
  BY <1>5, <1>6, SoundInMore
<1>8. /\ existing \in Seq(rows) /\ lastRow \in ToSet(existing) /\ Len(existing) = 1
      /\ \A k, l \in 1..Len(existing) : k < l => Before(existing[k].first, existing[l].first)
  BY <1>4 DEF ToSet
<1> HIDE DEF existing
<1>9. ASSUME NEW row \in rows, row \notin ToSet(existing), NEW k \in 1..Len(projected)
      PROVE  projected[k].first # row.first
  <2>1. row # lastRow
    BY <1>8, <1>9
  <2>2. row.first # lastRow.first
    BY <1>4, <2>1 DEF RowsOK
  <2>3. row.first \notin adopted
    BY DEF RowsOK, Row
  <2>4. projected[k].first \in {lastRow.first} \union adopted
    BY <1>5 DEF Sound
  <2>5. QED
    BY <2>2, <2>3, <2>4
<1>10. RowsOK(Replace(rows, projected, existing, Last(ordered).observedAt), R)
  BY <1>2, <1>5, <1>7, <1>8, <1>9, ReplacedRows
<1>11. QED
  BY <1>1, <1>3, <1>10 DEF ordered

\* All but the last of sound segments: they begin no later than the last of them.
LEMMA FrontSound ==
  ASSUME NEW R, Observations(R), NEW F, F \subseteq R,
         NEW p \in Seq(SegmentOf(R)), Sound(p, F, Earlier(R)), Len(p) > 1
  PROVE  /\ Front(p) \in Seq(SegmentOf(R)) /\ Sound(Front(p), F, Earlier(R))
         /\ Start(p[Len(p) - 1]) \in Int
         /\ \A k \in 1..Len(Front(p)) : Front(p)[k].first.observedAt <= Start(p[Len(p) - 1])
<1> DEFINE n == Len(p) - 1
           o == SubSeq(p, 1, n)
<1>1. n \in 0..Len(p) /\ n \in 1..n /\ n \in 1..Len(p) /\ n \in Nat
  OBVIOUS
<1> HIDE DEF n
<1>2. o \in Seq(SegmentOf(R)) /\ Len(o) = n /\ \A k \in 1..n : o[k] = p[k]
  BY <1>1, Beginning
<1> HIDE DEF o
<1>3. \A k \in 1..n : k \in 1..Len(p) /\ (k = n \/ k < n)
  BY <1>1
<1>4. Sound(o, F, Earlier(R))
  BY <1>2, <1>3 DEF Sound
<1>5. \A k \in 1..n : p[k].first \in F
  BY <1>3 DEF Sound
<1>6. p[n].first.observedAt \in Int
  BY <1>1, <1>5 DEF Observations
<1>7. ASSUME NEW k \in 1..n PROVE o[k].first.observedAt <= p[n].first.observedAt
  <2>1. k = n \/ Before(p[k].first, p[n].first)
    BY <1>1, <1>3 DEF Sound, Earlier
  <2>2. p[k].first \in R /\ p[n].first \in R
    BY <1>1, <1>5
  <2>3. QED
    BY <1>2, <1>6, <2>1, <2>2, BeforeOrders
<1>8. o = Front(p)
  BY DEF Front, o, n
<1>9. QED
  BY <1>2, <1>4, <1>6, <1>7, <1>8 DEF Start, n

\* Replaying from the segment before the earliest new record.
LEMMA ReplayKeeps ==
  ASSUME NEW adopted, IsFiniteSet(records), IsFiniteSet(adopted),
         Observations(records \union adopted),
         NEW rows, RowsOK(rows, records), NEW now
  PROVE  RowsOK(ReplayOn(rows, MergeOrder(adopted), now), records \union adopted)
<1> DEFINE ordered == MergeOrder(adopted)
           t == Last(ordered).observedAt
           start == ReplayStart(rows, ordered[1].observedAt)
           F == {r \in records \union ToSet(ordered) : r.observedAt >= start}
           source == MergeOrder(F)
           fed == Fed(<<>>, source)
           closed(n) == fed[n][Len(fed[n]) - 1]
           Converged(n) ==
             /\ Len(fed[n]) > Len(fed[n - 1]) /\ Len(fed[n]) > 1
             /\ ToSet(ordered) \subseteq {source[i] : i \in 1..n}
             /\ Reaches(closed(n), t)
             /\ \E row \in rows : SameAs(closed(n), row)
           conv == [i \in 1..Len(source) |-> Converged(i)]
           n == SelectInSeq(conv, LAMBDA c : c)
           Held(through) == {s \in rows : Start(s) >= start /\ (through = Open \/ Start(s) <= through)}
<1>1. PICK R : R = records \union adopted
  OBVIOUS
<1>2. ReplayOn(rows, ordered, now) =
        IF n # 0
          THEN Replace(rows, Front(fed[n]), Rows(Held(Start(closed(n)))), t)
          ELSE Replace(rows, Finish(fed[Len(source)], now), Rows(Held(Open)), t)
  BY Zenon DEF ReplayOn
<1>3. Observations(R) /\ records \in SUBSET R /\ adopted \in SUBSET R /\ \A q \in R : q.observedAt \in Int
  BY <1>1 DEF Observations
<1>4. ToSet(ordered) = adopted
  BY <1>3, MergedInTime
<1> HIDE DEF ordered, t, start
<1>5. F \in SUBSET R /\ IsFiniteSet(F) /\ \A r \in F : r.observedAt >= start
  <2>1. IsFiniteSet(records \union ToSet(ordered))
    BY <1>4, FS_Union
  <2>2. QED
    BY <1>1, <1>4, <2>1, FS_Subset
<1> HIDE DEF F
<1>6. /\ source \in Seq(R) /\ Len(source) \in Nat
      /\ \A i \in 1..Len(source) : source[i] \in F
      /\ \A i, j \in 1..Len(source) : i < j => /\ source[i].observedAt <= source[j].observedAt
                                               /\ <<source[i], source[j]>> \in Earlier(R)
  BY <1>3, <1>5, MergedInTime
<1> HIDE DEF source
<1>7. \A i \in 0..Len(source) : fed[i] \in Seq(SegmentOf(R)) /\ Sound(fed[i], F, Earlier(R))
  <2> DEFINE p == <<>>
  <2>1. p \in Seq(SegmentOf(R)) /\ Sound(p, F, Earlier(R)) /\ \A r : AllBefore(p, r, Earlier(R))
    BY NoneSound
  <2> HIDE DEF p
  <2> DEFINE f == Fed(p, source)
  <2>2. Feeds(f, p, source, R)
    BY <1>3, <1>6, <2>1, FedSteps
  <2> HIDE DEF f
  <2>3. \A i \in 0..Len(source) : f[i] \in Seq(SegmentOf(R)) /\ Sound(f[i], F, Earlier(R))
    BY <1>3, <1>6, <2>1, <2>2, FedSound
  <2>4. QED
    BY <2>3 DEF f, p
<1> HIDE DEF fed
<1>8. n # 0 => n \in 0..Len(source) /\ Len(fed[n]) > 1
  <2> DEFINE I == {i \in 1..Len(conv) : conv[i]}
  <2>1. Len(conv) = Len(source)
    BY <1>6
  <2>2. n = IF I # {} THEN Min(I) ELSE 0
    BY DEF SelectInSeq
  <2>3. \A i \in 1..Len(source) : conv[i] => Len(fed[i]) > 1
    <3>1. \A i \in 1..Len(source) : conv[i] = Converged(i)
      BY Zenon
    <3>2. \A i : Converged(i) => Len(fed[i]) > 1
      OBVIOUS
    <3> HIDE DEF Converged, conv
    <3>3. QED
      BY <3>1, <3>2, Zenon
  <2> HIDE DEF conv
  <2>4. I \subseteq Nat /\ I \subseteq 1..Len(source) /\ \A i \in I : Len(fed[i]) > 1
    BY <2>1, <2>3
  <2> HIDE DEF I, n
  <2>5. n # 0 => n \in I
    BY <2>2, <2>4, FirstOf
  <2>6. \A i \in I : i \in 0..Len(source) /\ Len(fed[i]) > 1
    BY <1>6, <2>4
  <2>7. QED
    BY <2>5, <2>6
<1>9. RowsOK(rows, R)
  BY <1>3, RowsOfMore
<1> HIDE DEF n
<1>10. ASSUME NEW through, NEW projected \in Seq(SegmentOf(R)), Sound(projected, F, Earlier(R)),
              \/ through = Open
              \/ /\ through \in Int
                 /\ \A k \in 1..Len(projected) : projected[k].first.observedAt <= through
       PROVE  RowsOK(Replace(rows, projected, Rows(Held(through)), t), R)
  <2> DEFINE existing == Rows(Held(through))
  <2>1. /\ existing \in Seq(rows) /\ ToSet(existing) = Held(through)
        /\ \A k, l \in 1..Len(existing) : k < l => Before(existing[k].first, existing[l].first)
    <3>1. Held(through) \in SUBSET rows
      OBVIOUS
    <3> HIDE DEF Held
    <3>2. QED
      BY <1>3, <1>9, <3>1, RowsInOrder
  <2> HIDE DEF existing
  <2>2. ASSUME NEW row \in rows, row \notin ToSet(existing), NEW k \in 1..Len(projected)
        PROVE  projected[k].first # row.first
    <3>1. SUFFICES ASSUME projected[k].first = row.first PROVE FALSE
      OBVIOUS
    <3>2. row.first \in F
      BY <1>10, <2>2, <3>1 DEF Sound
    <3>3. Start(row) >= start /\ Start(row) \in Int
      BY <1>3, <1>5, <3>2 DEF Start
    <3>4. ~(through = Open \/ Start(row) <= through)
      BY <2>1, <2>2, <3>3
    <3>5. Start(row) <= through
      BY <1>10, <3>1, <3>4 DEF Start
    <3>6. QED
      BY <3>4, <3>5
  <2>3. Sound(projected, R, Earlier(R))
    BY <1>5, <1>10, SoundInMore
  <2>4. RowsOK(Replace(rows, projected, existing, t), R)
    BY <1>3, <1>9, <1>10, <2>1, <2>2, <2>3, ReplacedRows
  <2>5. QED
    BY <2>4 DEF existing
<1> HIDE DEF Held
<1>11. CASE n # 0
  <2> DEFINE p == fed[n]
  <2>1. p \in Seq(SegmentOf(R)) /\ Sound(p, F, Earlier(R)) /\ Len(p) > 1
    BY <1>7, <1>8, <1>11
  <2>2. Start(closed(n)) = Start(p[Len(p) - 1])
    OBVIOUS
  <2> HIDE DEF p, closed
  <2>3. /\ Front(p) \in Seq(SegmentOf(R)) /\ Sound(Front(p), F, Earlier(R))
        /\ Start(closed(n)) \in Int
        /\ \A k \in 1..Len(Front(p)) : Front(p)[k].first.observedAt <= Start(closed(n))
    BY <1>3, <1>5, <2>1, <2>2, FrontSound
  <2>4. RowsOK(Replace(rows, Front(p), Rows(Held(Start(closed(n)))), t), R)
    BY <1>10, <2>3
  <2>5. ReplayOn(rows, ordered, now) = Replace(rows, Front(p), Rows(Held(Start(closed(n)))), t)
    BY <1>2, <1>11 DEF p
  <2>6. QED
    BY <1>1, <2>4, <2>5 DEF ordered
<1>12. CASE n = 0
  <2> DEFINE p == fed[Len(source)]
             projected == Finish(p, now)
  <2>1. Len(source) \in 0..Len(source)
    BY <1>6
  <2>2. p \in Seq(SegmentOf(R)) /\ Sound(p, F, Earlier(R))
    BY <1>7, <2>1
  <2> HIDE DEF p
  <2>3. projected \in Seq(SegmentOf(R)) /\ Sound(projected, F, Earlier(R))
    BY <1>3, <2>2, FinishSound
  <2> HIDE DEF projected
  <2>4. RowsOK(Replace(rows, projected, Rows(Held(Open)), t), R)
    BY <1>10, <2>3
  <2>5. ReplayOn(rows, ordered, now) = Replace(rows, projected, Rows(Held(Open)), t)
    BY <1>2, <1>12 DEF p, projected
  <2>6. QED
    BY <1>1, <2>4, <2>5 DEF ordered
<1>13. QED
  BY <1>11, <1>12

\* The rows of a legacy account, in whatever order its ties arrived.
LEMMA LegacyRows ==
  ASSUME NEW R, IsFiniteSet(R), Observations(R), NEW order \in SetToSeqs(R),
         \A i, j \in DOMAIN order : i < j => order[i].observedAt <= order[j].observedAt
  PROVE  RowsOK(Written(Project(<<>>, order), <<>>, {}), R)
<1> DEFINE rel == {q \in R \X R : q[1] # q[2]}
           n == Cardinality(R)
<1>1. n \in Nat
  BY FS_CardinalityType
<1>2. /\ order \in [1..n -> R]
      /\ \A i, j \in 1..n : i # j => order[i] # order[j]
  BY DEF SetToSeqs
<1> HIDE DEF n
<1>3. /\ order \in Seq(R) /\ Len(order) = n /\ DOMAIN order = 1..n
      /\ \A i \in 1..n : order[i] \in R
  BY <1>1, <1>2
<1>4. \A i, j \in 1..n : i < j => order[i].observedAt <= order[j].observedAt /\ <<order[i], order[j]>> \in rel
  BY <1>1, <1>2, <1>3
<1>5. \A q \in R : q.observedAt \in Int
  BY DEF Observations
<1>6. \A x, y : <<x, y>> \in rel => x # y
  OBVIOUS
<1> DEFINE p == <<>>
<1>7. p \in Seq(SegmentOf(R)) /\ Sound(p, R, rel) /\ \A r : AllBefore(p, r, rel)
  <2> HIDE DEF rel
  <2>1. QED
    BY NoneSound
<1>8. p \in Seq(Row(R)) /\ Len(p) = 0
  OBVIOUS
<1> HIDE DEF p, rel
<1> DEFINE new == Project(p, order)
<1>9. new \in Seq(SegmentOf(R)) /\ Sound(new, R, rel)
  BY <1>3, <1>4, <1>5, <1>7, ProjectSound
<1> HIDE DEF new
<1>10. /\ \A i \in 1..Len(new) : Shape(new[i])
       /\ \A i, j \in 1..Len(new) : i < j => new[i].first # new[j].first
  BY <1>6, <1>9 DEF Sound
<1> DEFINE kept == {}
<1>11. RowsOK(kept, R) /\ \A row \in kept : FALSE
  BY FS_EmptySet DEF RowsOK
<1>12. kept \union Written(new, p, kept) = Written(new, p, {})
  OBVIOUS
<1> HIDE DEF kept
<1>13. RowsOK(kept \union Written(new, p, kept), R)
  BY <1>8, <1>9, <1>10, <1>11, RowsWritten
<1>14. QED
  BY <1>12, <1>13 DEF new, p

\* Finitely many records with a key each, and rows of them as the tables have them: no
\* projection can make rows from worse, and every transaction leaves it so.
TimelineInv == RecordsOK /\ RowsOK(segments, records)

\* A batch brings the rows up to date.
LEMMA ProcessKeeps ==
  ASSUME TimelineInv, NEW batch \in Batches, NEW now \in Clock, Process(batch, now)
  PROVE  TimelineInv'
<1> DEFINE adopted == {r \in batch : ~Taken(r)}
           base == IF initialized \/ records = {} THEN segments ELSE RebuildLegacy(segments, now)
<1>1. /\ IsFiniteSet(records \union adopted) /\ Observations(records \union adopted)
      /\ IsFiniteSet(adopted) /\ Observations(adopted)
      /\ records \intersect adopted = {}
      /\ records \union adopted \subseteq UNION (Batches \union Legacies)
  BY RecordsAdded DEF TimelineInv
<1>2. /\ initialized' = TRUE /\ records' = records \union adopted
      /\ segments' = IF adopted = {} THEN base ELSE ProjectOn(base, adopted, now)
  BY DEF Process
<1>3. IsFiniteSet(records) /\ Observations(records) /\ RowsOK(segments, records)
  BY DEF TimelineInv, RecordsOK
<1> HIDE DEF adopted
<1>4. RowsOK(base, records)
  BY <1>3, RebuildKeeps
<1> HIDE DEF base
<1>5. RowsOK(segments', records')
  <2>1. CASE adopted = {}
    <3>1. records' = records /\ segments' = base
      BY <1>2, <2>1
    <3>2. QED
      BY <1>4, <3>1
  <2>2. CASE adopted # {}
    <3>1. segments' = ProjectOn(base, adopted, now)
      BY <1>2, <2>2
    <3>2. ProjectOn(base, adopted, now) =
            IF (\A r \in records : Before(r, MergeOrder(adopted)[1])) /\ base # {}
              THEN AppendTo(base, MergeOrder(adopted), now)
              ELSE ReplayOn(base, MergeOrder(adopted), now)
      BY DEF ProjectOn
    <3>3. RowsOK(ProjectOn(base, adopted, now), records \union adopted)
      BY <1>1, <1>3, <1>4, <3>2, AppendKeeps, ReplayKeeps
    <3>4. QED
      BY <1>2, <3>1, <3>3
  <2>3. QED
    BY <2>1, <2>2
<1>6. RecordsOK'
  BY <1>1, <1>2 DEF RecordsOK
<1>7. QED
  BY <1>5, <1>6 DEF TimelineInv

\* The inductive invariant of the timeline.
THEOREM TimelineInvariant == Spec => []TimelineInv
<1>1. Init => TimelineInv
  <2>1. SUFFICES ASSUME Init PROVE TimelineInv
    OBVIOUS
  <2>2. RecordsOK
    BY <2>1, InputsAssumption DEF Init, RecordsOK
  <2>3. PICK R : R = records
    OBVIOUS
  <2>4. PICK order \in SetToSeqs(R) :
          /\ \A i, j \in DOMAIN order : i < j => order[i].observedAt <= order[j].observedAt
          /\ segments = Written(Project(<<>>, order), <<>>, {})
    BY <2>1, <2>3 DEF Init
  <2>5. RowsOK(Written(Project(<<>>, order), <<>>, {}), R)
    BY <2>2, <2>3, <2>4, LegacyRows DEF RecordsOK
  <2>6. QED
    BY <2>2, <2>3, <2>4, <2>5 DEF TimelineInv
<1>2. TimelineInv /\ [Next]_vars => TimelineInv'
  <2>1. ASSUME TimelineInv, NEW batch \in Batches, NEW now \in Clock, Process(batch, now)
        PROVE  TimelineInv'
    BY <2>1, ProcessKeeps
  <2>2. ASSUME TimelineInv, UNCHANGED vars PROVE TimelineInv'
    BY <2>2 DEF vars, TimelineInv, RecordsOK
  <2>3. QED
    BY <2>1, <2>2 DEF Next
<1>3. QED
  BY <1>1, <1>2, PTL DEF Spec

\* Every transaction leaves segments that the tables accept, of stored records, one per
\* id and per first event, whatever it appends, replays, replaces or rebuilds, and
\* whichever ids it takes over.
THEOREM SegmentsStayWellFormed == Spec => []TypeOK
<1>1. TimelineInv => TypeOK
  <2>1. SUFFICES ASSUME TimelineInv PROVE TypeOK
    OBVIOUS
  <2>2. RecordsOK /\ RowsOK(segments, records)
    BY <2>1 DEF TimelineInv
  <2>3. segments \subseteq [id : Nat \ {0}, first : records, last : records, ended : Int \union {Open}]
    BY <2>2 DEF RowsOK, Row
  <2>4. QED
    BY <2>2, <2>3 DEF TypeOK, RecordsOK, RowsOK, Shape
<1>2. QED
  BY <1>1, TimelineInvariant, PTL

-----------------------------------------------------------------------------
(* The groups of a day *)

\* What _group_items does with an entry.
PlaceEntry(items, e) ==
  IF items # <<>> /\ JoinsEntry(e, Last(Last(items)))
    THEN Append(Front(items), Append(Last(items), e))
    ELSE Append(items, <<e>>)

\* GroupItems, as the function on sets of positions that the fold is.
LEMMA GroupsAreFold ==
  ASSUME NEW entries
  PROVE  GroupItems(entries) =
           (CHOOSE iter : iter = [s \in SUBSET (DOMAIN entries) |->
              IF s = {} THEN <<>> ELSE PlaceEntry(iter[s \ {Max(s)}], entries[Max(s)])])
             [DOMAIN entries]
BY Zenon DEF GroupItems, FoldLeft, MapThenFoldSet, PlaceEntry

\* The last element of a sequence, and those before it.
LEMMA FrontAndLast ==
  ASSUME NEW S, NEW s \in Seq(S), s # <<>>
  PROVE  /\ Last(s) \in S /\ Front(s) \in Seq(S) /\ s = Append(Front(s), Last(s))
         /\ Len(Front(s)) = Len(s) - 1 /\ Len(s) \in Nat \ {0} /\ Last(s) = s[Len(s)]
<1>1. Len(s) \in Nat \ {0}
  OBVIOUS
<1>2. Last(s) = s[Len(s)] /\ Last(s) \in S
  BY <1>1 DEF Last
<1>3. Front(s) \in Seq(S) /\ Len(Front(s)) = Len(s) - 1 /\ \A i \in 1..(Len(s) - 1) : Front(s)[i] = s[i]
  <2>1. Front(s) = SubSeq(s, 1, Len(s) - 1)
    BY DEF Front
  <2>2. Len(s) - 1 \in 0..Len(s)
    BY <1>1
  <2>3. QED
    BY <2>1, <2>2, Beginning
<1> DEFINE t == Append(Front(s), Last(s))
<1>4. /\ t \in Seq(S) /\ Len(t) = Len(s) /\ t[Len(s)] = s[Len(s)]
      /\ \A i \in 1..(Len(s) - 1) : t[i] = s[i]
  <2> DEFINE f == Front(s)
             l == Last(s)
             n == Len(s)
  <2>1. f \in Seq(S) /\ l \in S /\ Len(f) = n - 1 /\ n \in Nat \ {0}
    BY <1>1, <1>2, <1>3
  <2> HIDE DEF f, l, n
  <2>2. /\ Append(f, l) \in Seq(S) /\ Len(Append(f, l)) = n /\ Append(f, l)[n] = l
        /\ \A i \in 1..(n - 1) : Append(f, l)[i] = f[i]
    BY <2>1
  <2>3. QED
    BY <1>2, <1>3, <2>2 DEF f, l, n
<1> HIDE DEF t
<1>5. s = t
  <2>1. \A i \in 1..Len(s) : i \in 1..(Len(s) - 1) \/ i = Len(s)
    BY <1>1
  <2>2. \A i \in 1..Len(s) : s[i] = t[i]
    BY <1>4, <2>1
  <2>3. QED
    BY <1>4, <2>2
<1>6. QED
  BY <1>1, <1>2, <1>3, <1>5 DEF t

\* Items of entries are items with one more.
LEMMA PlaceTyped ==
  ASSUME NEW E, NEW items \in Seq(Seq(E)), NEW e \in E
  PROVE  PlaceEntry(items, e) \in Seq(Seq(E))
<1>1. <<e>> \in Seq(E)
  OBVIOUS
<1>2. CASE items # <<>> /\ JoinsEntry(e, Last(Last(items)))
  <2>1. Last(items) \in Seq(E) /\ Front(items) \in Seq(Seq(E))
    BY <1>2, FrontAndLast
  <2>2. Append(Last(items), e) \in Seq(E)
    BY <2>1
  <2>3. Append(Front(items), Append(Last(items), e)) \in Seq(Seq(E))
    BY <2>1, <2>2
  <2>4. QED
    BY <1>2, <2>3 DEF PlaceEntry
<1>3. CASE ~(items # <<>> /\ JoinsEntry(e, Last(Last(items))))
  BY <1>1, <1>3 DEF PlaceEntry
<1>4. QED
  BY <1>2, <1>3

\* The items after each of the entries.
Groups(h, entries) ==
  /\ h[0] = <<>>
  /\ \A n \in 1..Len(entries) : h[n] = PlaceEntry(h[n - 1], entries[n])
  /\ GroupItems(entries) = h[Len(entries)]

LEMMA GroupSteps ==
  ASSUME NEW E, NEW entries \in Seq(E)
  PROVE  \E h : Groups(h, entries)
<1> DEFINE N == Len(entries)
           A == Seq(Seq(E))
           g == [n \in 1..N |-> [items \in A |-> PlaceEntry(items, entries[n])]]
           Is(f) == f = [s \in SUBSET (DOMAIN entries) |->
                           IF s = {} THEN <<>> ELSE PlaceEntry(f[s \ {Max(s)}], entries[Max(s)])]
<1>1. N \in Nat /\ DOMAIN entries = 1..N /\ \A n \in 1..N : entries[n] \in E
  OBVIOUS
<1>2. <<>> \in A
  OBVIOUS
<1>3. g \in [1..N -> [A -> A]] /\ \A n \in 1..N, a \in A : g[n][a] = PlaceEntry(a, entries[n])
  <2>1. \A n \in 1..N, a \in A : PlaceEntry(a, entries[n]) \in A
    BY <1>1, PlaceTyped
  <2> HIDE DEF A
  <2>2. QED
    BY <2>1
<1> HIDE DEF N, A, g
<1>4. PICK f : FoldsLeft(f, A, <<>>, N, g)
  BY <1>1, <1>2, <1>3, FoldDefined
<1>5. Is(f)
  <2>1. f \in [SUBSET (1..N) -> A]
    BY <1>4 DEF FoldsLeft
  <2>2. ASSUME NEW s \in SUBSET (1..N)
        PROVE  f[s] = IF s = {} THEN <<>> ELSE PlaceEntry(f[s \ {Max(s)}], entries[Max(s)])
    <3>1. s # {} => Max(s) \in 1..N
      BY <1>1, LastPosition
    <3>2. s \ {Max(s)} \in SUBSET (1..N)
      OBVIOUS
    <3>3. f[s \ {Max(s)}] \in A
      BY <2>1, <3>2
    <3>4. f[s] = IF s = {} THEN <<>> ELSE g[Max(s)][f[s \ {Max(s)}]]
      BY <1>4 DEF FoldsLeft
    <3>5. QED
      BY <1>3, <3>1, <3>3, <3>4
  <2>3. QED
    BY <1>1, <2>1, <2>2
<1> DEFINE c == CHOOSE u : Is(u)
<1>6. Is(c)
  <2> HIDE DEF Is
  <2>1. QED
    BY <1>5
<1>7. GroupItems(entries) = c[1..N]
  <2>1. GroupItems(entries) = c[DOMAIN entries]
    BY GroupsAreFold
  <2>2. QED
    BY <1>1, <2>1
<1> HIDE DEF c
<1> DEFINE h == [n \in 0..N |-> c[1..n]]
<1>8. h[0] = <<>>
  <2>1. 0 \in 0..N /\ 1..0 = {}
    BY <1>1
  <2>2. c[{}] = <<>>
    BY <1>6
  <2>3. QED
    BY <2>1, <2>2
<1>9. ASSUME NEW n \in 1..N PROVE h[n] = PlaceEntry(h[n - 1], entries[n])
  <2>1. n \in 0..N /\ n - 1 \in 0..N /\ n \in Nat
    BY <1>1
  <2>2. 1..n \in SUBSET (1..N) /\ n \in 1..n /\ (1..n) \ {n} = 1..(n - 1)
    BY <1>1, <2>1
  <2>3. Max(1..n) = n
    BY <2>1, <2>2, LastPosition
  <2>4. c[1..n] = PlaceEntry(c[1..(n - 1)], entries[n])
    BY <1>1, <1>6, <2>2, <2>3
  <2>5. QED
    BY <2>1, <2>4
<1>10. h[N] = c[1..N]
  BY <1>1
<1> HIDE DEF h
<1>11. Groups(h, entries)
  BY <1>7, <1>8, <1>9, <1>10 DEF Groups, N
<1>12. QED
  BY <1>11

\* The entries up to the n-th that join the one before them.
Joined(entries, n) == {i \in 2..n : JoinsEntry(entries[i], entries[i - 1])}

\* The items of the first n entries: one after the other they are these entries, and there
\* is one item for each that does not join the one before it.
Grouped(items, n, entries, E) ==
  /\ items \in Seq(Seq(E))
  /\ FlattenSeq(items) = SubSeq(entries, 1, n)
  /\ n = 0 => items = <<>>
  /\ n # 0 => items # <<>> /\ Last(Last(items)) = entries[n]
  /\ Len(items) = n - Cardinality(Joined(entries, n))

\* The last element of a sequence that has one more.
LEMMA LastAppended ==
  ASSUME NEW S, NEW s \in Seq(S), NEW x \in S
  PROVE  /\ Append(s, x) \in Seq(S) /\ Append(s, x) # <<>> /\ Last(Append(s, x)) = x
         /\ Len(Append(s, x)) = Len(s) + 1
<1>1. /\ Append(s, x) \in Seq(S) /\ Len(Append(s, x)) = Len(s) + 1 /\ Len(s) \in Nat
      /\ Append(s, x)[Len(s) + 1] = x
  OBVIOUS
<1>2. Append(s, x) # <<>>
  BY <1>1
<1>3. QED
  BY <1>1, <1>2 DEF Last

\* One more entry.
LEMMA JoinedMore ==
  ASSUME NEW E, NEW entries \in Seq(E), NEW n \in 1..Len(entries)
  PROVE  /\ Cardinality(Joined(entries, n - 1)) \in Nat
         /\ Cardinality(Joined(entries, n)) =
              Cardinality(Joined(entries, n - 1))
                + IF n # 1 /\ JoinsEntry(entries[n], entries[n - 1]) THEN 1 ELSE 0
<1> DEFINE before == Joined(entries, n - 1)
<1>1. n \in Nat /\ \A i \in 2..n : i \in 2..(n - 1) \/ i = n
  OBVIOUS
<1>2. IsFiniteSet(before) /\ Cardinality(before) \in Nat
  <2>1. IsFiniteSet(2..(n - 1))
    BY <1>1, FS_Interval
  <2>2. before \subseteq 2..(n - 1)
    BY DEF Joined
  <2>3. QED
    BY <2>1, <2>2, FS_Subset, FS_CardinalityType
<1>3. before \subseteq Joined(entries, n) /\ n \notin before
  BY <1>1 DEF Joined
<1>4. \A i \in Joined(entries, n) : i \in before \/ (i = n /\ n # 1 /\ JoinsEntry(entries[n], entries[n - 1]))
  BY <1>1 DEF Joined
<1>5. n # 1 /\ JoinsEntry(entries[n], entries[n - 1]) => n \in Joined(entries, n)
  BY <1>1 DEF Joined
<1> HIDE DEF before
<1>6. CASE n # 1 /\ JoinsEntry(entries[n], entries[n - 1])
  <2>1. Joined(entries, n) = before \union {n}
    BY <1>3, <1>4, <1>5, <1>6
  <2>2. Cardinality(before \union {n}) = Cardinality(before) + 1
    BY <1>2, <1>3, FS_AddElement
  <2>3. QED
    BY <1>2, <1>6, <2>1, <2>2 DEF before
<1>7. CASE ~(n # 1 /\ JoinsEntry(entries[n], entries[n - 1]))
  <2>1. Joined(entries, n) = before
    BY <1>3, <1>4, <1>7
  <2>2. QED
    BY <1>2, <1>7, <2>1 DEF before
<1>8. QED
  BY <1>6, <1>7

\* An entry is placed as Grouped says.
LEMMA GroupStep ==
  ASSUME NEW E, NEW entries \in Seq(E), NEW n \in 1..Len(entries),
         NEW items, Grouped(items, n - 1, entries, E)
  PROVE  Grouped(PlaceEntry(items, entries[n]), n, entries, E)
<1> DEFINE e == entries[n]
           before == SubSeq(entries, 1, n - 1)
           c == Cardinality(Joined(entries, n - 1))
           placed == PlaceEntry(items, e)
<1>1. /\ e \in E /\ <<e>> \in Seq(E) /\ n \in Nat \ {0} /\ n - 1 \in Nat
      /\ items \in Seq(Seq(E)) /\ FlattenSeq(items) = before /\ Len(items) = n - 1 - c
  BY DEF Grouped
<1>2. before \in Seq(E) /\ SubSeq(entries, 1, n) = Append(before, e)
  <2>1. n - 1 \in 0..Len(entries) /\ n \in 0..Len(entries)
    BY <1>1
  <2>2. /\ before \in Seq(E) /\ Len(before) = n - 1 /\ \A k \in 1..(n - 1) : before[k] = entries[k]
        /\ SubSeq(entries, 1, n) \in Seq(E) /\ Len(SubSeq(entries, 1, n)) = n
        /\ \A k \in 1..n : SubSeq(entries, 1, n)[k] = entries[k]
    BY <2>1, Beginning
  <2> DEFINE s == SubSeq(entries, 1, n)
             t == Append(before, e)
  <2>3. t \in Seq(E) /\ Len(t) = n /\ t[n] = e /\ \A k \in 1..(n - 1) : t[k] = before[k]
    <3> HIDE DEF before, e
    <3>1. QED
      BY <1>1, <2>2
  <2> HIDE DEF t
  <2>4. \A k \in 1..n : (k \in 1..(n - 1) \/ k = n) /\ n \in 1..n
    BY <1>1
  <2>5. \A k \in 1..n : t[k] = s[k]
    <3>1. ASSUME NEW k \in 1..(n - 1) PROVE t[k] = s[k]
      <4>1. k \in 1..n
        BY <1>1
      <4>2. QED
        BY <2>2, <2>3, <4>1
    <3>2. t[n] = s[n]
      BY <2>2, <2>3, <2>4
    <3>3. QED
      BY <2>4, <3>1, <3>2
  <2> HIDE DEF s
  <2>6. s = t
    BY <2>2, <2>3, <2>5 DEF s
  <2>7. QED
    BY <2>2, <2>6 DEF s, t
<1>3. /\ c \in Nat
      /\ Cardinality(Joined(entries, n)) = c + IF n # 1 /\ JoinsEntry(e, entries[n - 1]) THEN 1 ELSE 0
  BY JoinedMore
<1>4. items # <<>> <=> n # 1
  BY <1>1 DEF Grouped
<1>5. items # <<>> => Last(Last(items)) = entries[n - 1]
  BY <1>1 DEF Grouped
<1> HIDE DEF e, before, c, placed
<1>6. CASE items # <<>> /\ JoinsEntry(e, Last(Last(items)))
  <2> DEFINE front == Front(items)
             last == Last(items)
             longer == Append(last, e)
  <2>1. /\ last \in Seq(E) /\ front \in Seq(Seq(E)) /\ items = Append(front, last)
        /\ Len(front) = Len(items) - 1 /\ Len(items) \in Nat \ {0}
    BY <1>1, <1>6, FrontAndLast
  <2>2. placed = Append(front, longer)
    BY <1>6 DEF placed, PlaceEntry
  <2> HIDE DEF front, last
  <2>3. longer \in Seq(E) /\ Last(longer) = e
    BY <1>1, <2>1, LastAppended
  <2>4. FlattenSeq(placed) = FlattenSeq(front) \o longer /\ FlattenSeq(items) = FlattenSeq(front) \o last
    <3> HIDE DEF longer
    <3>1. QED
      BY <2>1, <2>2, <2>3, FlattenAppend
  <2>5. FlattenSeq(front) \in Seq(E)
    BY <2>1, FlattenedSet
  <2>6. FlattenSeq(front) \o longer = Append(FlattenSeq(front) \o last, e)
    <3> DEFINE a == FlattenSeq(front)
    <3> HIDE DEF a
    <3>1. a \in Seq(E)
      BY <2>5 DEF a
    <3>2. a \o Append(last, e) = Append(a \o last, e)
      BY <1>1, <2>1, <3>1
    <3>3. QED
      BY <3>2 DEF a
  <2> HIDE DEF longer
  <2>7. /\ placed \in Seq(Seq(E)) /\ placed # <<>> /\ Last(placed) = longer
        /\ Len(placed) = Len(front) + 1
    BY <2>1, <2>2, <2>3, LastAppended
  <2>8. Len(placed) = n - Cardinality(Joined(entries, n))
    <3>1. n # 1 /\ JoinsEntry(e, entries[n - 1])
      BY <1>4, <1>5, <1>6
    <3>2. Cardinality(Joined(entries, n)) = c + 1
      BY <1>3, <3>1
    <3>3. QED
      BY <1>1, <1>3, <2>1, <2>7, <3>2
  <2>9. FlattenSeq(placed) = SubSeq(entries, 1, n)
    BY <1>1, <1>2, <2>4, <2>6
  <2>10. QED
    BY <1>1, <2>3, <2>7, <2>8, <2>9 DEF Grouped, placed, e
<1>7. CASE ~(items # <<>> /\ JoinsEntry(e, Last(Last(items))))
  <2>1. placed = Append(items, <<e>>)
    BY <1>7 DEF placed, PlaceEntry
  <2>2. /\ placed \in Seq(Seq(E)) /\ placed # <<>> /\ Last(placed) = <<e>>
        /\ Len(placed) = Len(items) + 1
    BY <1>1, <2>1, LastAppended
  <2>3. Last(<<e>>) = e
    BY DEF Last
  <2>4. Len(placed) = n - Cardinality(Joined(entries, n))
    <3>1. ~(n # 1 /\ JoinsEntry(e, entries[n - 1]))
      BY <1>4, <1>5, <1>7
    <3>2. Cardinality(Joined(entries, n)) = c + 0
      BY <1>3, <3>1
    <3>3. QED
      BY <1>1, <1>3, <2>2, <3>2
  <2>5. FlattenSeq(placed) = before \o <<e>>
    BY <1>1, <2>1, FlattenAppend
  <2>6. before \o <<e>> = Append(before, e)
    BY <1>1, <1>2
  <2>7. QED
    BY <1>1, <1>2, <2>2, <2>3, <2>4, <2>5, <2>6 DEF Grouped, placed, e
<1>8. QED
  BY <1>6, <1>7 DEF placed, e

\* GroupItems groups all entries so.
LEMMA ItemsGrouped ==
  ASSUME NEW E, NEW entries \in Seq(E)
  PROVE  Grouped(GroupItems(entries), Len(entries), entries, E)
<1> DEFINE N == Len(entries)
<1>1. PICK h : Groups(h, entries)
  BY GroupSteps
<1>2. /\ h[0] = <<>> /\ N \in Nat
      /\ \A n \in 1..N : h[n] = PlaceEntry(h[n - 1], entries[n])
      /\ GroupItems(entries) = h[N]
  BY <1>1 DEF Groups
<1> HIDE DEF N
<1> DEFINE T == {n \in 1..(N + 1) : Grouped(h[n - 1], n - 1, entries, E)}
<1>3. 1 \in T
  <2>1. 1 \in 1..(N + 1) /\ 1 - 1 = 0
    BY <1>2
  <2>2. Joined(entries, 0) = {} /\ Cardinality({}) = 0
    BY FS_EmptySet DEF Joined
  <2>3. FlattenSeq(<<>>) = <<>> /\ SubSeq(entries, 1, 0) = <<>> /\ <<>> \in Seq(Seq(E)) /\ Len(<<>>) = 0
    BY DEF FlattenSeq
  <2>4. Grouped(<<>>, 0, entries, E)
    <3>1. Cardinality(Joined(entries, 0)) = 0
      BY <2>2
    <3>2. Len(<<>>) = 0 - Cardinality(Joined(entries, 0))
      BY <2>3, <3>1
    <3>3. QED
      BY <2>3, <3>2 DEF Grouped
  <2>5. QED
    BY <1>2, <2>1, <2>4
<1>4. ASSUME NEW n \in 1..(N + 1), n \in T, n < N + 1 PROVE n + 1 \in T
  <2>1. n \in 1..N /\ (n + 1) - 1 = n /\ n + 1 \in 1..(N + 1)
    BY <1>2, <1>4
  <2>2. Grouped(h[n - 1], n - 1, entries, E)
    BY <1>4
  <2>3. Grouped(h[n], n, entries, E)
    BY <1>2, <2>1, <2>2, GroupStep DEF N
  <2>4. QED
    BY <2>1, <2>3
<1>5. N + 1 \in Nat /\ N + 1 \in 1..(N + 1) /\ (N + 1) - 1 = N
  BY <1>2
<1>6. N + 1 \in T
  <2> HIDE DEF T
  <2>1. QED
    BY <1>3, <1>4, <1>5, Upwards
<1>7. QED
  BY <1>2, <1>5, <1>6 DEF N

-----------------------------------------------------------------------------
(* What a day shows *)

\* The instants from a to u, and a itself, that are within a day.
LEMMA WithinDay ==
  ASSUME NEW a \in Int, NEW u \in Int, NEW start \in Int, NEW end \in Int, start < end
  PROVE  ({a} \union (a..u)) \intersect (start..(end - 1)) # {}
           <=> a < end /\ (start <= a \/ (start <= u /\ a <= u))
<1>1. ASSUME NEW x \in ({a} \union (a..u)) \intersect (start..(end - 1))
      PROVE  a < end /\ (start <= a \/ (start <= u /\ a <= u))
  BY <1>1
<1>2. ASSUME a < end, start <= a
      PROVE  a \in ({a} \union (a..u)) \intersect (start..(end - 1))
  BY <1>2
<1>3. ASSUME a < end, ~(start <= a), start <= u, a <= u
      PROVE  start \in ({a} \union (a..u)) \intersect (start..(end - 1))
  BY <1>3
<1>4. QED
  BY <1>1, <1>2, <1>3

\* The two conditions of the code, the database's by the stored end and the reader's by the
\* end that silence gives, together let pass what has an instant in the day.
LEMMA ShownInDay ==
  ASSUME NEW R, \A r \in R : r.observedAt \in Int, NEW rows, NEW s \in rows, s \in Row(R), Shape(s),
         NEW now \in Int, NEW start \in Int, NEW end \in Int, start <= now, start < end
  PROVE  s \in ListDateSegments(rows, start, end) /\ OverlapsWindow(s, start, end, now)
           <=> Extent(s, now) \intersect (start..(end - 1)) # {}
<1> DEFINE a == Start(s)
           l == s.last.observedAt
           o == s.ended
           e == EffectiveEnd(s, now)
<1>1. /\ a \in Int /\ l \in Int /\ o \in Int \union {Open} /\ a <= l
      /\ o = Open \/ l <= o
  BY DEF Row, Shape, Start
<1>2. e = IF ~IsGap(s) /\ o = Open /\ now - l > MaxGap THEN l ELSE o
  BY DEF EffectiveEnd
<1>3. s \in ListDateSegments(rows, start, end) <=>
        /\ a < end
        /\ \/ o # Open /\ o > start
           \/ o = a /\ a >= start
           \/ o = Open /\ ~IsGap(s) /\ l >= start
           \/ o = Open /\ IsGap(s)
  BY DEF ListDateSegments
<1>4. /\ e = Open => (OverlapsWindow(s, start, end, now) <=> a < end /\ (IsGap(s) \/ l >= start))
      /\ e # Open /\ e = a => (OverlapsWindow(s, start, end, now) <=> start <= a /\ a < end)
      /\ e # Open /\ e # a => (OverlapsWindow(s, start, end, now) <=> a < end /\ e > start)
  <2> HIDE DEF e
  <2>1. OverlapsWindow(s, start, end, now) =
          CASE e = Open -> a < end /\ (IsGap(s) \/ l >= start)
            [] e = a    -> start <= a /\ a < end
            [] OTHER    -> a < end /\ e > start
    BY Zenon DEF OverlapsWindow, e
  <2>2. a # Open
    BY <1>1, GapAssumption
  <2> HIDE DEF a, l
  <2>3. QED
    BY <2>1, <2>2
<1> DEFINE until == IF e # Open THEN e - 1 ELSE IF IsGap(s) THEN now ELSE l
<1>5. Extent(s, now) = {a} \union (a..until)
  BY DEF Extent
<1> HIDE DEF a, l, o, e
<1>6. e # Open => e \in Int /\ a <= e
  BY <1>1, <1>2
<1>7. until \in Int
  BY <1>1, <1>6
<1> HIDE DEF until
<1>8. Extent(s, now) \intersect (start..(end - 1)) # {}
        <=> a < end /\ (start <= a \/ (start <= until /\ a <= until))
  BY <1>1, <1>5, <1>7, WithinDay
<1>9. CASE e # Open
  <2>1. until = e - 1
    BY <1>9 DEF until
  <2>2. OverlapsWindow(s, start, end, now) <=> a < end /\ (start <= a \/ (start <= until /\ a <= until))
    BY <1>1, <1>4, <1>6, <1>9, <2>1
  <2>3. OverlapsWindow(s, start, end, now) => s \in ListDateSegments(rows, start, end)
    BY <1>1, <1>2, <1>3, <1>4, <1>6, <1>9, GapAssumption
  <2>4. QED
    BY <1>8, <2>2, <2>3
<1>10. CASE e = Open
  <2>1. o = Open
    BY <1>1, <1>2, <1>10, GapAssumption
  <2>2. until = IF IsGap(s) THEN now ELSE l
    BY <1>10 DEF until
  <2>3. OverlapsWindow(s, start, end, now) <=> a < end /\ (start <= a \/ (start <= until /\ a <= until))
    <3>1. CASE IsGap(s)
      BY <1>1, <1>4, <1>10, <2>2, <3>1
    <3>2. CASE ~IsGap(s)
      BY <1>1, <1>4, <1>10, <2>2, <3>2
    <3>3. QED
      BY <3>1, <3>2
  <2>4. OverlapsWindow(s, start, end, now) => s \in ListDateSegments(rows, start, end)
    BY <1>3, <1>4, <1>10, <2>1
  <2>5. QED
    BY <1>8, <2>3, <2>4
<1>11. QED
  BY <1>9, <1>10

\* The confirmations that a choice puts to the rows.
Confirmations(rows, choice, now) ==
  {[first |-> s.first,
    version |-> IF choice.stale THEN <<>> ELSE SegmentVersion(s, EffectiveEnd(s, now)),
    label |-> choice.label[s.first.kind]] :
      s \in {s \in rows : ~IsGap(s) /\ choice.label[s.first.kind] # Pending}}

\* A row as the label timeline has it.
EntryOf(s, rows, choice, now) ==
  Entry(Observed(s, choice.opaque, now), Confirmations(rows, choice, now))

\* Closed, and of a context that may be labelled.
Detailed(s, choice, now) ==
  ~IsGap(s) /\ EffectiveEnd(s, now) # Open /\ s.first.kind \notin choice.opaque

Chosen(s, choice) == IF choice.stale THEN Pending ELSE choice.label[s.first.kind]

LEMMA EntryFields ==
  ASSUME NEW s, NEW rows, NEW choice, NEW now
  PROVE  LET e == EntryOf(s, rows, choice, now)
         IN  /\ e.segment.id = s.id /\ Start(e.segment) = Start(s)
             /\ e.segment.ended = EffectiveEnd(s, now)
             /\ e.segment.kind = "closed_detailed" <=> Detailed(s, choice, now)
             /\ e.segment.kind = "closed_detailed" =>
                  e.label = LabelOf(e.segment, Confirmations(rows, choice, now))
BY DEF EntryOf, Entry, Observed, KindAt, Detailed, Start

\* A row that may be labelled has the label chosen for its version: the confirmation found is
\* its own, since no other row has its first event.
LEMMA LabelIsChosen ==
  ASSUME NEW rows, NEW s \in rows, \A t \in rows : t # s => t.first # s.first,
         NEW choice, NEW now, Detailed(s, choice, now)
  PROVE  LabelOf(Observed(s, choice.opaque, now), Confirmations(rows, choice, now)) = Chosen(s, choice)
<1> DEFINE C == Confirmations(rows, choice, now)
           observed == Observed(s, choice.opaque, now)
           version == SegmentVersion(s, EffectiveEnd(s, now))
           label == choice.label[s.first.kind]
           found == {c \in C : c.first = observed.first /\ c.version = observed.version}
<1>1. observed.first = s.first /\ observed.version = version
  BY DEF Observed, KindAt, Detailed
<1>2. LabelOf(observed, C) = IF found = {} THEN Pending ELSE (CHOOSE c \in found : TRUE).label
  BY DEF LabelOf
<1>3. ASSUME NEW c \in C, c.first = s.first
      PROVE  /\ c.version = IF choice.stale THEN <<>> ELSE version
             /\ c.label = label /\ label # Pending
  <2>1. PICK t \in rows : /\ choice.label[t.first.kind] # Pending
                          /\ c = [first |-> t.first,
                                  version |-> IF choice.stale THEN <<>> ELSE SegmentVersion(t, EffectiveEnd(t, now)),
                                  label |-> choice.label[t.first.kind]]
    BY DEF Confirmations
  <2>2. t = s
    BY <1>3, <2>1
  <2>3. QED
    BY <2>1, <2>2
<1>4. version # <<>>
  <2>1. Len(<<s.first, s.last, EffectiveEnd(s, now)>>) = 3 /\ Len(<<>>) = 0
    OBVIOUS
  <2>2. QED
    BY <2>1 DEF SegmentVersion
<1> HIDE DEF observed, version
<1>5. CASE choice.stale
  <2>1. found = {}
    <3> HIDE DEF C
    <3>1. QED
      BY <1>1, <1>3, <1>4, <1>5
  <2>2. QED
    BY <1>2, <1>5, <2>1 DEF Chosen, observed
<1>6. CASE ~choice.stale /\ label = Pending
  <2>1. found = {}
    <3> HIDE DEF C, label
    <3>1. QED
      BY <1>1, <1>3, <1>6
  <2>2. QED
    BY <1>2, <1>6, <2>1 DEF Chosen, observed
<1>7. CASE ~choice.stale /\ label # Pending
  <2> DEFINE own == [first |-> s.first, version |-> version, label |-> label]
  <2>1. own \in C
    <3>1. ~IsGap(s)
      BY DEF Detailed
    <3>2. QED
      BY <1>7, <3>1 DEF Confirmations, version
  <2>2. own \in found
    BY <1>1, <2>1
  <2>3. \A c \in found : c.label = label
    <3> HIDE DEF C, label
    <3>1. QED
      BY <1>1, <1>3
  <2> HIDE DEF own, found, C
  <2>4. (CHOOSE c \in found : TRUE) \in found
    BY <2>2
  <2>5. LabelOf(observed, C) = label
    BY <1>2, <2>2, <2>3, <2>4
  <2>6. QED
    BY <1>7, <2>5 DEF Chosen, observed, C
<1>8. QED
  BY <1>5, <1>6, <1>7

\* The label timeline of a day that has begun.
LEMMA DayEntries ==
  ASSUME NEW rows, NEW choice, NEW day, NEW now, DateWindow(day, now) # <<>>
  PROVE  LET window == DateWindow(day, now)
             listed == ListWindow(rows, choice.opaque, window[1], window[2], now)
         IN  GetLabelTimeline(rows, choice, day, now) =
               GroupItems([i \in DOMAIN listed |-> Entry(listed[i], Confirmations(rows, choice, now))])
<1>1. GetLabelTimeline(rows, choice, day, now) =
        LET window == DateWindow(day, now)
            listed == ListWindow(rows, choice.opaque, window[1], window[2], now)
        IN  IF window = <<>> THEN <<>>
            ELSE GroupItems([i \in DOMAIN listed |-> Entry(listed[i], Confirmations(rows, choice, now))])
  BY Zenon DEF GetLabelTimeline, Confirmations
<1>2. QED
  BY <1>1, Zenon

\* Whether an entry joins the one before it, by the rows.
LEMMA JoinsByRow ==
  ASSUME NEW rows, \A s, t \in rows : s # t => s.first # t.first,
         NEW s \in rows, NEW t \in rows, NEW choice, NEW now
  PROVE  JoinsEntry(EntryOf(t, rows, choice, now), EntryOf(s, rows, choice, now))
           <=> /\ Detailed(t, choice, now) /\ Detailed(s, choice, now)
               /\ EffectiveEnd(s, now) = Start(t)
               /\ Chosen(s, choice) = Chosen(t, choice)
<1> DEFINE Of(r) == EntryOf(r, rows, choice, now)
<1>1. ASSUME NEW r \in rows
      PROVE  /\ Start(Of(r).segment) = Start(r) /\ Of(r).segment.ended = EffectiveEnd(r, now)
             /\ Of(r).segment.kind = "closed_detailed" <=> Detailed(r, choice, now)
             /\ Detailed(r, choice, now) => Of(r).label = Chosen(r, choice)
  <2>1. Of(r).segment = Observed(r, choice.opaque, now)
    BY DEF EntryOf, Entry
  <2>2. /\ Start(Of(r).segment) = Start(r) /\ Of(r).segment.ended = EffectiveEnd(r, now)
        /\ Of(r).segment.kind = "closed_detailed" <=> Detailed(r, choice, now)
        /\ Of(r).segment.kind = "closed_detailed" =>
             Of(r).label = LabelOf(Of(r).segment, Confirmations(rows, choice, now))
    BY EntryFields
  <2>3. ASSUME Detailed(r, choice, now)
        PROVE  LabelOf(Observed(r, choice.opaque, now), Confirmations(rows, choice, now)) = Chosen(r, choice)
    <3>1. \A q \in rows : q # r => q.first # r.first
      OBVIOUS
    <3>2. QED
      BY <2>3, <3>1, LabelIsChosen
  <2> HIDE DEF Of
  <2>4. QED
    BY <2>1, <2>2, <2>3
<1> HIDE DEF Of
<1>2. JoinsEntry(Of(t), Of(s))
        <=> /\ Detailed(t, choice, now) /\ Detailed(s, choice, now)
            /\ EffectiveEnd(s, now) = Start(t)
            /\ Chosen(s, choice) = Chosen(t, choice)
  BY <1>1 DEF JoinsEntry
<1>3. QED
  BY <1>2 DEF Of

\* Whatever the batches and the history, whenever the user reads and whatever the user has
\* confirmed: a day shows each segment with an instant in it, once and in order, and joins
\* neighbours exactly when they touch and carry one label (list_date_segments,
\* overlaps_window, _timeline_entry, _group_items).
THEOREM DaysAreTold == Spec => []DayIsTold
<1>1. TimelineInv => DayIsTold
  <2> SUFFICES ASSUME TimelineInv, NEW now \in Reads, NEW day \in 1..(Len(Midnights) - 1),
                      Midnights[day] <= now, NEW choice \in Confirmed
               PROVE  LET hours == Midnights[day]..(Midnights[day + 1] - 1)
                          told == Rows({s \in segments : Extent(s, now) \intersect hours # {}})
                          Closed(s) == ~IsGap(s) /\ EffectiveEnd(s, now) # Open
                          touching == {i \in 2..Len(told) : Closed(told[i - 1]) /\ Closed(told[i])
                                                            /\ EffectiveEnd(told[i - 1], now) = Start(told[i])}
                          items == GetLabelTimeline(segments, choice, day, now)
                          shown == FlattenSeq(items)
                          Label(s) == IF choice.stale THEN Pending ELSE choice.label[s.first.kind]
                          one == {i \in touching : /\ {told[i - 1].first.kind, told[i].first.kind} \intersect choice.opaque = {}
                                                   /\ Label(told[i - 1]) = Label(told[i])}
                      IN /\ [i \in DOMAIN shown |-> shown[i].segment.id] = [i \in DOMAIN told |-> told[i].id]
                         /\ Len(items) = Len(told) - Cardinality(one)
    BY Zenon DEF DayIsTold
  <2> DEFINE start == Midnights[day]
             end == Midnights[day + 1]
             hours == start..(end - 1)
             inDay == {s \in segments : Extent(s, now) \intersect hours # {}}
             told == Rows(inDay)
             N == Len(told)
             Of(s) == EntryOf(s, segments, choice, now)
             entries == [i \in 1..N |-> Of(told[i])]
             items == GetLabelTimeline(segments, choice, day, now)
             shown == FlattenSeq(items)
             E == {entries[i] : i \in 1..N}
  <2>1. /\ now \in Int /\ start \in Int /\ end \in Int /\ start <= now /\ start < end
    BY ReadsAssumption
  <2>2. /\ Observations(records) /\ RowsOK(segments, records)
        /\ \A r \in records : r.observedAt \in Int
        /\ \A s \in segments : s \in Row(records) /\ Shape(s)
        /\ \A s, t \in segments : s # t => s.first # t.first
    BY DEF TimelineInv, RecordsOK, RowsOK, Observations
  <2>3. {s \in ListDateSegments(segments, start, end) : OverlapsWindow(s, start, end, now)} = inDay
    <3>1. \A s \in ListDateSegments(segments, start, end) : s \in segments
      BY DEF ListDateSegments
    <3> HIDE DEF start, end
    <3>2. \A s \in segments : s \in ListDateSegments(segments, start, end) /\ OverlapsWindow(s, start, end, now)
                               <=> Extent(s, now) \intersect hours # {}
      BY <2>1, <2>2, ShownInDay
    <3> HIDE DEF hours
    <3>3. QED
      BY <3>1, <3>2
  <2>4. /\ told \in Seq(inDay) /\ N \in Nat /\ DOMAIN told = 1..N
        /\ \A i \in 1..N : told[i] \in segments
    <3>1. inDay \in SUBSET segments
      OBVIOUS
    <3> HIDE DEF inDay
    <3>2. told \in Seq(inDay) /\ N \in Nat
      BY <2>2, <3>1, RowsInOrder
    <3> HIDE DEF told
    <3>3. QED
      BY <3>1, <3>2
  <2>5. /\ DateWindow(day, now) = <<start, end>> /\ DateWindow(day, now) # <<>>
    <3>1. DateWindow(day, now) = <<start, end>>
      BY <2>1 DEF DateWindow
    <3>2. <<start, end>> # <<>>
      OBVIOUS
    <3>3. QED
      BY <3>1, <3>2
  <2>6. items = GroupItems(entries)
    <3> DEFINE listed == ListWindow(segments, choice.opaque, start, end, now)
    <3>1. items = GroupItems([i \in DOMAIN listed |-> Entry(listed[i], Confirmations(segments, choice, now))])
      <4>1. DateWindow(day, now)[1] = start /\ DateWindow(day, now)[2] = end
        <5> HIDE DEF start, end
        <5>1. QED
          BY <2>5
      <4> HIDE DEF start, end
      <4>2. QED
        BY <2>5, <4>1, DayEntries
    <3>2. listed = [i \in DOMAIN told |-> Observed(told[i], choice.opaque, now)]
      <4> HIDE DEF inDay, start, end
      <4>1. QED
        BY <2>3, Zenon DEF ListWindow
    <3> HIDE DEF listed, told
    <3>3. [i \in DOMAIN listed |-> Entry(listed[i], Confirmations(segments, choice, now))] = entries
      BY <2>4, <3>2 DEF EntryOf
    <3>4. QED
      BY <3>1, <3>3
  <2> HIDE DEF told, items
  <2>7. entries \in Seq(E) /\ Len(entries) = N /\ \A i \in 1..N : entries[i] = Of(told[i])
    <3> HIDE DEF Of
    <3>1. QED
      BY <2>4
  <2> HIDE DEF N, entries, E
  <2>8. Grouped(items, N, entries, E)
    BY <2>6, <2>7, ItemsGrouped
  <2>9. shown = entries
    <3>1. N \in 0..Len(entries)
      BY <2>4, <2>7
    <3>2. /\ SubSeq(entries, 1, N) \in Seq(E) /\ Len(SubSeq(entries, 1, N)) = N
          /\ \A k \in 1..N : SubSeq(entries, 1, N)[k] = entries[k]
      BY <2>7, <3>1, Beginning
    <3> DEFINE p == SubSeq(entries, 1, N)
    <3>3. shown = p
      BY <2>8 DEF Grouped
    <3> HIDE DEF p, shown
    <3>4. p = entries
      BY <2>7, <3>2 DEF p
    <3>5. QED
      BY <3>3, <3>4
  <2>10. [i \in DOMAIN shown |-> shown[i].segment.id] = [i \in DOMAIN told |-> told[i].id]
    <3>1. DOMAIN shown = 1..N
      BY <2>4, <2>7, <2>9
    <3>2. \A i \in 1..N : shown[i].segment.id = told[i].id
      BY <2>7, <2>9, EntryFields
    <3> HIDE DEF shown
    <3>3. QED
      BY <2>4, <3>1, <3>2
  <2> DEFINE Closed(s) == ~IsGap(s) /\ EffectiveEnd(s, now) # Open
             touching == {i \in 2..Len(told) : Closed(told[i - 1]) /\ Closed(told[i])
                                               /\ EffectiveEnd(told[i - 1], now) = Start(told[i])}
             Label(s) == IF choice.stale THEN Pending ELSE choice.label[s.first.kind]
             one == {i \in touching : /\ {told[i - 1].first.kind, told[i].first.kind} \intersect choice.opaque = {}
                                      /\ Label(told[i - 1]) = Label(told[i])}
  <2>11. one = Joined(entries, N)
    <3>1. ASSUME NEW i \in 2..N PROVE i \in one <=> JoinsEntry(entries[i], entries[i - 1])
      <4>1. /\ i \in 1..N /\ i - 1 \in 1..N
        BY <2>4, <3>1
      <4> DEFINE s == told[i - 1]
                 t == told[i]
      <4>2. s \in segments /\ t \in segments /\ entries[i] = Of(t) /\ entries[i - 1] = Of(s)
        BY <2>4, <2>7, <4>1
      <4>3. JoinsEntry(entries[i], entries[i - 1])
              <=> /\ Detailed(t, choice, now) /\ Detailed(s, choice, now)
                  /\ EffectiveEnd(s, now) = Start(t)
                  /\ Chosen(s, choice) = Chosen(t, choice)
        BY <2>2, <4>2, JoinsByRow
      <4>4. i \in one <=> /\ Closed(s) /\ Closed(t) /\ EffectiveEnd(s, now) = Start(t)
                          /\ {s.first.kind, t.first.kind} \intersect choice.opaque = {}
                          /\ Label(s) = Label(t)
        BY <3>1 DEF N
      <4>5. Label(s) = Chosen(s, choice) /\ Label(t) = Chosen(t, choice)
        BY DEF Chosen
      <4> HIDE DEF s, t, Label
      <4>6. QED
        BY <4>3, <4>4, <4>5 DEF Detailed
    <3>2. \A i \in one : i \in 2..N
      BY DEF N
    <3> HIDE DEF one
    <3>3. QED
      BY <3>1, <3>2 DEF Joined
  <2>12. Len(items) = Len(told) - Cardinality(one)
    <3> HIDE DEF one
    <3>1. QED
      BY <2>8, <2>11 DEF Grouped, N
  <2>13. QED
    BY <2>10, <2>12 DEF told, items
<1>2. QED
  BY <1>1, TimelineInvariant, PTL
-----------------------------------------------------------------------------
(* Versions that stand *)

\* The rows written are those of the segments, whatever ids they get.
WrittenAs(rows, new, n) ==
  /\ \A i \in 1..n : \E row \in rows : SameAs(new[i], row)
  /\ \A row \in rows : \E i \in 1..n : SameAs(new[i], row)

LEMMA WrittenFields ==
  ASSUME NEW R, NEW kept, IsFiniteSet(kept), NEW old \in Seq(Row(R)), NEW new \in Seq(SegmentOf(R))
  PROVE  WrittenAs(Written(new, old, kept), new, Len(new))
<1> DEFINE N == Len(new)
<1>1. N \in Nat /\ \A n \in 1..N : new[n] \in SegmentOf(R)
  OBVIOUS
<1>2. PICK h : Writes(h, new, old, kept)
  BY WrittenSteps
<1>3. /\ h[0] = NothingWritten
      /\ \A n \in 1..N : h[n] = WriteRow(old, kept, h[n - 1], new[n])
      /\ Written(new, old, kept) = h[N].rows
  BY <1>2 DEF Writes
<1> HIDE DEF N
<1> DEFINE Good(n) == h[n - 1] \in Accs(R) /\ WrittenAs(h[n - 1].rows, new, n - 1)
           T == {n \in 1..(N + 1) : Good(n)}
<1>4. 1 \in T
  <2>1. 1 \in 1..(N + 1) /\ 1 - 1 = 0
    BY <1>1
  <2>2. NothingWritten \in Accs(R) /\ NothingWritten.rows = {}
    BY FS_EmptySet DEF NothingWritten, Accs
  <2>3. WrittenAs(NothingWritten.rows, new, 0)
    BY <2>2 DEF WrittenAs
  <2>4. QED
    BY <1>3, <2>1, <2>2, <2>3
<1>5. ASSUME NEW n \in 1..(N + 1), n \in T, n < N + 1 PROVE n + 1 \in T
  <2>1. n \in 1..N /\ (n + 1) - 1 = n /\ n + 1 \in 1..(N + 1)
    BY <1>1, <1>5
  <2>2. Good(n)
    BY <1>5
  <2>3. h[n] = WriteRow(old, kept, h[n - 1], new[n]) /\ new[n] \in SegmentOf(R)
    BY <1>1, <1>3, <2>1
  <2>4. h[n] \in Accs(R) /\ RowAdded(h[n], h[n - 1], new[n], old, kept)
    BY <2>2, <2>3, RowWritten
  <2>5. PICK id : h[n].rows = h[n - 1].rows \union {Made(id, new[n])}
    BY <2>4 DEF RowAdded
  <2>6. SameAs(new[n], Made(id, new[n]))
    BY DEF SameAs, Made
  <2>7. \A i \in 1..n : i \in 1..(n - 1) \/ i = n
    BY <2>1
  <2>8. \A i \in 1..(n - 1) : i \in 1..n
    BY <2>1
  <2>9. n \in 1..n
    BY <2>1
  <2>10. WrittenAs(h[n].rows, new, n)
    BY <2>2, <2>5, <2>6, <2>7, <2>8, <2>9 DEF WrittenAs
  <2>11. QED
    BY <2>1, <2>4, <2>10
<1>6. WrittenAs(h[N].rows, new, N)
  <2>1. N + 1 \in Nat /\ N + 1 \in 1..(N + 1) /\ (N + 1) - 1 = N
    BY <1>1
  <2>2. N + 1 \in T
    <3> HIDE DEF T
    <3>1. QED
      BY <1>4, <1>5, <2>1, Upwards
  <2>3. QED
    BY <2>1, <2>2
<1>7. QED
  BY <1>3, <1>6 DEF N

\* What Replace keeps and writes: rows before a cut are replaced by segments before one.
ReplacedBy(rows, projected, existing, t, result, i, j) ==
  /\ i \in 0..Len(projected)
  /\ i = 0 => \A k \in 1..Len(projected), m \in 1..Len(existing) :
                 Reaches(projected[k], t) => ~SameAs(projected[k], existing[m])
  /\ i = 0 => j = Len(existing) + 1
  /\ i # 0 => j \in 1..Len(existing) /\ SameAs(projected[i], existing[j]) /\ Reaches(projected[i], t)
  /\ \A k \in 1..Len(projected) : k < i \/ i = 0 =>
       \E row \in result : SameAs(projected[k], row)
  /\ \A row \in rows : (\A k \in 1..(j - 1) : existing[k] # row) => row \in result
  /\ \A row \in result :
       \/ row \in rows /\ \A k \in 1..(j - 1) : existing[k] # row
       \/ \E k \in 1..Len(projected) : (k < i \/ i = 0) /\ SameAs(projected[k], row)

\* Where a segment converges it is the row.
LEMMA ConvergesSame ==
  ASSUME NEW s, NEW rows, NEW existing \in Seq(rows), NEW t, ConvergedIndex(s, existing, t) # 0
  PROVE  \E j \in 1..Len(existing) : /\ j = ConvergedIndex(s, existing, t)
                                     /\ SameAs(s, existing[j]) /\ Reaches(s, t)
<1> DEFINE I == {k \in 1..Len(existing) : SameAs(s, existing[k])}
           j == ConvergedIndex(s, existing, t)
<1>1. j # 0 => I # {} /\ j = Min(I) /\ Reaches(s, t)
  BY DEF ConvergedIndex, SelectInSeq
<1>2. I \subseteq Nat /\ I \subseteq 1..Len(existing) /\ \A k \in I : SameAs(s, existing[k])
  OBVIOUS
<1> HIDE DEF I
<1>3. j \in I
  BY <1>1, <1>2, FirstOf DEF j
<1>4. QED
  BY <1>1, <1>2, <1>3 DEF j

LEMMA SameConverges ==
  ASSUME NEW s, NEW rows, NEW existing \in Seq(rows), NEW t, Reaches(s, t),
         NEW j \in 1..Len(existing), SameAs(s, existing[j])
  PROVE  ConvergedIndex(s, existing, t) # 0
<1> DEFINE I == {k \in 1..Len(existing) : SameAs(s, existing[k])}
<1>1. ConvergedIndex(s, existing, t) = IF I # {} THEN Min(I) ELSE 0
  BY DEF ConvergedIndex, SelectInSeq
<1>2. I \subseteq Nat /\ I \subseteq 1..Len(existing) /\ j \in I
  OBVIOUS
<1> HIDE DEF I
<1>3. Min(I) \in I
  BY <1>2, FirstOf
<1>4. QED
  BY <1>1, <1>2, <1>3

\* The segments new are written and the rows old replaced: those before the first that converge,
\* the i-th segment with the j-th row, or all.
CutAt(R, rows, projected, existing, t, i, j, new, old) ==
  /\ Replace(rows, projected, existing, t) =
       (rows \ ToSet(old)) \union Written(new, old, rows \ ToSet(old))
  /\ i \in 0..Len(projected)
  /\ i = 0 => j = Len(existing) + 1
  /\ i = 0 => \A k \in 1..Len(projected), m \in 1..Len(existing) :
                 Reaches(projected[k], t) => ~SameAs(projected[k], existing[m])
  /\ i # 0 => j \in 1..Len(existing) /\ SameAs(projected[i], existing[j]) /\ Reaches(projected[i], t)
  /\ new \in Seq(SegmentOf(R)) /\ Len(new) = IF i = 0 THEN Len(projected) ELSE i - 1
  /\ \A k \in 1..Len(new) : k \in 1..Len(projected) /\ (k < i \/ i = 0) /\ new[k] = projected[k]
  /\ \A k \in 1..Len(projected) : k < i \/ i = 0 => k \in 1..Len(new) /\ new[k] = projected[k]
  /\ old \in Seq(rows) /\ Len(old) = j - 1 /\ \A k \in 1..(j - 1) : old[k] = existing[k]
  /\ ToSet(old) = {existing[k] : k \in 1..(j - 1)}

LEMMA ReplaceCuts ==
  ASSUME NEW R, NEW rows,
         NEW projected \in Seq(SegmentOf(R)), NEW existing \in Seq(rows), NEW t
  PROVE  \E i, j, new, old : CutAt(R, rows, projected, existing, t, i, j, new, old)
<1> DEFINE i == SelectInSeq(projected, LAMBDA s : ConvergedIndex(s, existing, t) # 0)
           c == ConvergedIndex(projected[i], existing, t)
           new == IF i = 0 THEN projected ELSE SubSeq(projected, 1, i - 1)
           old == IF i = 0 THEN existing ELSE SubSeq(existing, 1, c - 1)
           kept == rows \ ToSet(old)
           j == IF i = 0 THEN Len(existing) + 1 ELSE c
<1>1. Replace(rows, projected, existing, t) = kept \union Written(new, old, kept)
  BY DEF Replace
<1>2. Len(projected) \in Nat /\ Len(existing) \in Nat
  OBVIOUS
<1>3. /\ i \in 0..Len(projected) /\ (i # 0 => c # 0)
      /\ i = 0 => \A k \in 1..Len(projected) : ConvergedIndex(projected[k], existing, t) = 0
  <2> DEFINE I == {k \in 1..Len(projected) : ConvergedIndex(projected[k], existing, t) # 0}
  <2>1. i = IF I # {} THEN Min(I) ELSE 0
    BY DEF SelectInSeq
  <2>2. I \subseteq Nat /\ I \subseteq 1..Len(projected) /\ \A k \in I : ConvergedIndex(projected[k], existing, t) # 0
    OBVIOUS
  <2>2a. \A k \in 1..Len(projected) : ConvergedIndex(projected[k], existing, t) # 0 => k \in I
    OBVIOUS
  <2> HIDE DEF I
  <2>3. i = 0 \/ i \in I
    BY <2>1, <2>2, FirstOf
  <2>4. i \in I => c # 0
    BY <2>2
  <2>5. i \in I => i \in 1..Len(projected)
    BY <2>2
  <2>6. i = 0 => I = {}
    <3>1. I # {} => Min(I) \in I
      BY <2>2, FirstOf
    <3>2. I # {} => Min(I) # 0
      BY <2>2, <3>1
    <3>3. QED
      BY <2>1, <3>2
  <2>7. i = 0 => \A k \in 1..Len(projected) : ConvergedIndex(projected[k], existing, t) = 0
    BY <2>2a, <2>6
  <2> HIDE DEF i
  <2>8. i \in 0..Len(projected)
    BY <1>2, <2>3, <2>5
  <2>9. i # 0 => c # 0
    BY <2>3, <2>4
  <2>10. QED
    BY <2>7, <2>8, <2>9
<1>4. ASSUME i = 0, NEW k \in 1..Len(projected), Reaches(projected[k], t),
             NEW m \in 1..Len(existing), SameAs(projected[k], existing[m])
      PROVE  FALSE
  <2>1. ConvergedIndex(projected[k], existing, t) = 0
    BY <1>3, <1>4
  <2> HIDE DEF i
  <2>2. QED
    BY <1>4, <2>1, SameConverges
<1>5. i # 0 => c \in 1..Len(existing) /\ SameAs(projected[i], existing[c]) /\ Reaches(projected[i], t)
  <2> HIDE DEF i
  <2>1. QED
    BY <1>3, ConvergesSame
<1> HIDE DEF i, c
<1>6. /\ new \in Seq(SegmentOf(R)) /\ Len(new) = IF i = 0 THEN Len(projected) ELSE i - 1
      /\ \A k \in 1..Len(new) : k \in 1..Len(projected) /\ (k < i \/ i = 0) /\ new[k] = projected[k]
      /\ \A k \in 1..Len(projected) : k < i \/ i = 0 => k \in 1..Len(new) /\ new[k] = projected[k]
  <2>1. CASE i = 0
    BY <1>2, <2>1
  <2>2. CASE i # 0
    <3> DEFINE m == i - 1
    <3>1. m \in 0..Len(projected) /\ i = m + 1
      BY <1>2, <1>3, <2>2
    <3> HIDE DEF m
    <3>2. /\ SubSeq(projected, 1, m) \in Seq(SegmentOf(R)) /\ Len(SubSeq(projected, 1, m)) = m
          /\ \A k \in 1..m : SubSeq(projected, 1, m)[k] = projected[k]
      BY <3>1, Beginning
    <3>3. new = SubSeq(projected, 1, m) /\ m \in Nat /\ m <= Len(projected)
      BY <1>2, <2>2, <3>1 DEF m
    <3> HIDE DEF new
    <3>4. \A k \in 1..m : k \in 1..Len(projected) /\ k < i
      BY <1>2, <3>1
    <3>5. \A k \in 1..Len(projected) : k < i => k \in 1..m
      BY <1>2, <3>1
    <3>6. Len(new) = i - 1
      BY <3>2, <3>3 DEF m
    <3>7. QED
      BY <2>2, <3>2, <3>3, <3>4, <3>5, <3>6
  <2>3. QED
    BY <2>1, <2>2
<1>7. /\ old \in Seq(rows) /\ Len(old) = j - 1 /\ \A k \in 1..(j - 1) : old[k] = existing[k]
      /\ ToSet(old) = {existing[k] : k \in 1..(j - 1)}
  <2> DEFINE m == j - 1
  <2>1. m \in 0..Len(existing)
    BY <1>2, <1>5
  <2>2. old = SubSeq(existing, 1, m)
    <3>1. CASE i = 0
      <4>1. m = Len(existing)
        BY <1>2, <3>1
      <4> HIDE DEF m
      <4>2. SubSeq(existing, 1, m) = existing
        BY <4>1
      <4>3. QED
        BY <3>1, <4>2
    <3>2. CASE i # 0
      BY <3>2
    <3>3. QED
      BY <3>1, <3>2
  <2> HIDE DEF old, m
  <2>3. old \in Seq(rows) /\ Len(old) = m /\ \A k \in 1..m : old[k] = existing[k]
    BY <2>1, <2>2, Beginning
  <2>4. ToSet(old) = {old[k] : k \in 1..m}
    BY <2>3 DEF ToSet
  <2>5. QED
    BY <2>3, <2>4 DEF m
<1> HIDE DEF new, old, j
<1>8. /\ i = 0 => j = Len(existing) + 1
      /\ i # 0 => j \in 1..Len(existing) /\ SameAs(projected[i], existing[j]) /\ Reaches(projected[i], t)
  BY <1>5 DEF j
<1>9. \A k \in 1..Len(projected), m \in 1..Len(existing) :
        i = 0 => (Reaches(projected[k], t) => ~SameAs(projected[k], existing[m]))
  BY <1>4
<1> HIDE DEF kept
<1>10. CutAt(R, rows, projected, existing, t, i, j, new, old)
  BY <1>1, <1>3, <1>6, <1>7, <1>8, <1>9 DEF CutAt, kept
<1>11. QED
  BY <1>10

LEMMA ReplaceResult ==
  ASSUME NEW R, NEW rows, IsFiniteSet(rows), rows \subseteq Row(R),
         NEW projected \in Seq(SegmentOf(R)), NEW existing \in Seq(rows), NEW t
  PROVE  \E i, j : ReplacedBy(rows, projected, existing, t, Replace(rows, projected, existing, t), i, j)
<1>1. PICK i, j, new, old : CutAt(R, rows, projected, existing, t, i, j, new, old)
  BY ReplaceCuts
<1> DEFINE kept == rows \ ToSet(old)
<1>2. /\ Replace(rows, projected, existing, t) = kept \union Written(new, old, kept)
      /\ i \in 0..Len(projected)
      /\ i = 0 => j = Len(existing) + 1
      /\ i # 0 => j \in 1..Len(existing) /\ SameAs(projected[i], existing[j]) /\ Reaches(projected[i], t)
  BY <1>1 DEF CutAt
<1>3. i = 0 => \A k \in 1..Len(projected), m \in 1..Len(existing) :
                 Reaches(projected[k], t) => ~SameAs(projected[k], existing[m])
  BY <1>1 DEF CutAt
<1>4. /\ new \in Seq(SegmentOf(R))
      /\ \A k \in 1..Len(new) : k \in 1..Len(projected) /\ (k < i \/ i = 0) /\ new[k] = projected[k]
      /\ \A k \in 1..Len(projected) : k < i \/ i = 0 => k \in 1..Len(new) /\ new[k] = projected[k]
  BY <1>1 DEF CutAt
<1>5. old \in Seq(rows) /\ ToSet(old) = {existing[k] : k \in 1..(j - 1)}
  BY <1>1 DEF CutAt
<1>6. WrittenAs(Written(new, old, kept), new, Len(new))
  <2>1. IsFiniteSet(kept)
    BY FS_Subset
  <2>2. old \in Seq(Row(R))
    BY <1>5
  <2> HIDE DEF kept
  <2>3. QED
    BY <1>4, <2>1, <2>2, WrittenFields
<1> DEFINE result == kept \union Written(new, old, kept)
<1>7. \A row \in rows : row \in kept <=> \A k \in 1..(j - 1) : existing[k] # row
  BY <1>5
<1>8. \A k \in 1..Len(projected) : k < i \/ i = 0 => \E row \in result : SameAs(projected[k], row)
  BY <1>4, <1>6 DEF WrittenAs
<1>9. \A row \in result :
         \/ row \in rows /\ \A k \in 1..(j - 1) : existing[k] # row
         \/ \E k \in 1..Len(projected) : (k < i \/ i = 0) /\ SameAs(projected[k], row)
  <2>1. \A row \in kept : row \in rows
    OBVIOUS
  <2> HIDE DEF kept
  <2>2. QED
    BY <1>4, <1>6, <1>7, <2>1 DEF WrittenAs
<1>10. \A row \in rows : (\A k \in 1..(j - 1) : existing[k] # row) => row \in result
  BY <1>7
<1> HIDE DEF result
<1>11. ReplacedBy(rows, projected, existing, t, result, i, j)
  BY <1>2, <1>3, <1>8, <1>9, <1>10 DEF ReplacedBy
<1>12. QED
  BY <1>2, <1>11 DEF result

\* The first of the segments is z still, closed by the silence before the second.
ClosedBySilence(p, z) ==
  /\ p # <<>>
  /\ \/ p = <<z>>
     \/ Len(p) > 1 /\ SameAs(p[1], [z EXCEPT !.ended = z.last.observedAt])

\* Records that come more than MaxGap after an activity's last observation leave it so.
LEMMA SilenceStands ==
  ASSUME NEW R, \A q \in R : q.observedAt \in Int, NEW z \in SegmentOf(R), ~IsGap(z), z.ended = Open,
         NEW rs \in Seq(R), \A k \in 1..Len(rs) : rs[k].observedAt - z.last.observedAt > MaxGap
  PROVE  /\ Project(<<z>>, rs) \in Seq(SegmentOf(R))
         /\ ClosedBySilence(Project(<<z>>, rs), z)
<1> DEFINE N == Len(rs)
           p == <<z>>
           f == Fed(p, rs)
<1>1. N \in Nat /\ \A n \in 1..N : rs[n] \in R
  OBVIOUS
<1>2. p \in Seq(SegmentOf(R)) /\ ClosedBySilence(p, z)
  <2>1. p \in Seq(SegmentOf(R)) /\ p # <<>>
    OBVIOUS
  <2>2. QED
    BY <2>1 DEF ClosedBySilence
<1>2a. p = <<z>>
  OBVIOUS
<1> HIDE DEF p
<1>3. Feeds(f, p, rs, R)
  BY <1>2, FedSteps
<1>4. Project(p, rs) = f[N]
  BY DEF Project
<1> HIDE DEF f
<1>5. /\ \A n \in 0..N : f[n] \in Seq(SegmentOf(R))
      /\ f[0] = p /\ \A n \in 1..N : f[n] = Feed(f[n - 1], rs[n])
  BY <1>3 DEF Feeds
<1>6. z.last \in R /\ z.last.observedAt \in Int /\ MaxGap \in Int
  BY GapAssumption DEF SegmentOf
<1>7. ASSUME NEW g \in Seq(SegmentOf(R)), ClosedBySilence(g, z), NEW r \in R,
             r.observedAt - z.last.observedAt > MaxGap
      PROVE  ClosedBySilence(Feed(g, r), z)
  <2> DEFINE n == Len(g)
             opened == [first |-> r, last |-> r, ended |-> Open]
  <2>1. n \in Nat /\ n # 0 /\ n \in 1..n /\ g \in [1..n -> SegmentOf(R)]
    BY <1>7 DEF ClosedBySilence
  <2>2. ClosedBySilence(g, z)
    BY <1>7
  <2>3. ASSUME Extends(g[n], r)
        PROVE  ClosedBySilence([g EXCEPT ![n] = [g[n] EXCEPT !.last = r, !.ended = Open]], z)
    <3> DEFINE s == [g[n] EXCEPT !.last = r, !.ended = Open]
               o == [g EXCEPT ![n] = s]
    <3>1. Len(g) > 1 /\ SameAs(g[1], [z EXCEPT !.ended = z.last.observedAt])
      <4>1. g # <<z>>
        <5>1. SUFFICES ASSUME g = <<z>> PROVE FALSE
          OBVIOUS
        <5>2. g[n] = z
          BY <5>1
        <5>3. QED
          BY <1>6, <1>7, <2>3, <5>2 DEF Extends
      <4>2. QED
        BY <1>7, <4>1 DEF ClosedBySilence
    <3> HIDE DEF s
    <3>2. Len(o) = n /\ o[1] = g[1] /\ o # <<>>
      BY <2>1, <3>1
    <3> HIDE DEF o
    <3>3. ClosedBySilence(o, z)
      BY <3>1, <3>2 DEF ClosedBySilence
    <3>4. QED
      BY <3>3 DEF o, s
  <2>4. ClosedBySilence(Append([g EXCEPT ![n] = CloseAt(g[n], r.observedAt)], opened), z)
    <3> DEFINE s == CloseAt(g[n], r.observedAt)
               m == [g EXCEPT ![n] = s]
               o == Append(m, opened)
    <3>1. s \in SegmentOf(R)
      <4>1. g[n] \in SegmentOf(R)
        BY <2>1
      <4>2. QED
        BY <4>1 DEF SegmentOf, CloseAt
    <3>2. SameAs(m[1], [z EXCEPT !.ended = z.last.observedAt])
      <4>1. CASE g = <<z>>
        <5>1. n = 1 /\ g[1] = z
          BY <4>1
        <5>2. s = [z EXCEPT !.ended = z.last.observedAt]
          BY <1>6, <1>7, <5>1 DEF CloseAt
        <5> HIDE DEF s
        <5>3. m[1] = s
          BY <2>1, <5>1
        <5>4. QED
          BY <5>2, <5>3 DEF SameAs
      <4>2. CASE g # <<z>>
        <5>1. Len(g) > 1 /\ SameAs(g[1], [z EXCEPT !.ended = z.last.observedAt])
          BY <1>7, <4>2 DEF ClosedBySilence
        <5> HIDE DEF s
        <5>2. m[1] = g[1]
          BY <2>1, <5>1
        <5>3. QED
          BY <5>1, <5>2
      <4>3. QED
        BY <4>1, <4>2
    <3> HIDE DEF s, opened
    <3>3. Len(m) = n /\ m \in [1..n -> SegmentOf(R)]
      <4> HIDE DEF n
      <4>1. m \in [1..n -> SegmentOf(R)]
        BY <2>1, <3>1
      <4>2. QED
        BY <2>1, <4>1
    <3>4. m \in Seq(SegmentOf(R))
      <4> HIDE DEF n, m
      <4>1. QED
        BY <2>1, <3>3
    <3> HIDE DEF m, n
    <3>5. Len(o) = n + 1 /\ o[1] = m[1] /\ o # <<>>
      BY <2>1, <3>3, <3>4
    <3> HIDE DEF o
    <3>6. ClosedBySilence(o, z)
      BY <2>1, <3>2, <3>5 DEF ClosedBySilence
    <3>7. QED
      BY <3>6 DEF o, m, n, s
  <2> HIDE DEF n, opened
  <2>5. QED
    BY <2>1, <2>2, <2>3, <2>4 DEF Feed, opened, n
<1> DEFINE T == {n \in 1..(N + 1) : ClosedBySilence(f[n - 1], z)}
<1>8. 1 \in T
  <2>1. 1 \in 1..(N + 1) /\ 1 - 1 = 0
    BY <1>1
  <2>2. QED
    BY <1>2, <1>5, <2>1
<1>9. ASSUME NEW n \in 1..(N + 1), n \in T, n < N + 1 PROVE n + 1 \in T
  <2>1. n \in 1..N /\ (n + 1) - 1 = n /\ n + 1 \in 1..(N + 1) /\ n - 1 \in 0..N
    BY <1>1, <1>9
  <2>2. f[n - 1] \in Seq(SegmentOf(R)) /\ ClosedBySilence(f[n - 1], z) /\ rs[n] \in R
        /\ rs[n].observedAt - z.last.observedAt > MaxGap /\ f[n] = Feed(f[n - 1], rs[n])
    BY <1>1, <1>5, <1>9, <2>1
  <2>3. ClosedBySilence(f[n], z)
    BY <1>7, <2>2
  <2>4. QED
    BY <2>1, <2>3
<1>10. ClosedBySilence(f[N], z)
  <2>1. N + 1 \in Nat /\ N + 1 \in 1..(N + 1) /\ (N + 1) - 1 = N
    BY <1>1
  <2>2. N + 1 \in T
    <3> HIDE DEF T
    <3>1. QED
      BY <1>8, <1>9, <2>1, Upwards
  <2>3. QED
    BY <2>1, <2>2
<1>11. f[N] \in Seq(SegmentOf(R))
  BY <1>1, <1>5
<1>12. QED
  BY <1>2a, <1>4, <1>10, <1>11
\* What finish leaves of the first segment.
LEMMA FinishStands ==
  ASSUME NEW R, NEW z \in SegmentOf(R), NEW p \in Seq(SegmentOf(R)), ClosedBySilence(p, z),
         z.ended = Open, NEW now
  PROVE  LET s == Finish(p, now)[1]
         IN  /\ Finish(p, now) # <<>>
             /\ s.first = z.first /\ s.last = z.last
             /\ s.ended = Open \/ s.ended = z.last.observedAt
<1> DEFINE n == Len(p)
           e == EffectiveEnd(p[n], now)
           s == [p[n] EXCEPT !.ended = e]
           o == [p EXCEPT ![n] = s]
<1>1. n \in Nat /\ n # 0 /\ n \in 1..n /\ p[n] \in SegmentOf(R) /\ p # <<>> /\ 1 \in 1..n
  BY DEF ClosedBySilence
<1>2. Finish(p, now) = o
  BY <1>1 DEF Finish
<1>3. s.first = p[n].first /\ s.last = p[n].last /\ s.ended = e
  BY <1>1 DEF SegmentOf
<1>4. e = p[n].last.observedAt \/ e = p[n].ended
  BY DEF EffectiveEnd
<1> HIDE DEF s, e
<1>5. o # <<>> /\ (n # 1 => o[1] = p[1]) /\ (n = 1 => o[1] = s)
  BY <1>1
<1>6. CASE p = <<z>>
  <2>1. n = 1 /\ p[1] = z
    BY <1>6
  <2>2. QED
    BY <1>2, <1>3, <1>4, <1>5, <2>1
<1>7. CASE p # <<z>>
  <2>1. n > 1 /\ SameAs(p[1], [z EXCEPT !.ended = z.last.observedAt])
    BY <1>7 DEF ClosedBySilence
  <2>2. p[1].first = z.first /\ p[1].last = z.last /\ p[1].ended = z.last.observedAt
    BY <2>1 DEF SameAs, SegmentOf
  <2>3. QED
    BY <1>2, <1>5, <2>1, <2>2
<1>8. QED
  BY <1>6, <1>7

\* A version is the hash of a closed activity.
LEMMA VersionOf ==
  ASSUME NEW s, NEW now
  PROVE  Observed(s, {}, now).version =
           IF EffectiveEnd(s, now) # Open /\ ~IsGap(s) THEN <<s.first, s.last, EffectiveEnd(s, now)>> ELSE <<>>
<1>1. KindAt(s, {}, now) # "capture_gap" <=> ~IsGap(s)
  BY DEF KindAt
<1>2. QED
  BY <1>1 DEF Observed, SegmentVersion

\* A row of the same records that silence has ended has the version of the one before.
LEMMA SameVersion ==
  ASSUME NEW s, NEW row, row.first = s.first, row.last = s.last,
         ~IsGap(s), s.last.observedAt \in Int,
         NEW seen \in Int, NEW later \in Int, seen <= later,
         EffectiveEnd(s, seen) # Open,
         \/ row.ended = s.ended
         \/ /\ EffectiveEnd(s, seen) = s.last.observedAt /\ seen - s.last.observedAt > MaxGap
            /\ row.ended = Open \/ row.ended = s.last.observedAt
  PROVE  Observed(row, {}, later).version = Observed(s, {}, seen).version
<1>1. MaxGap \in Int /\ Open \notin Int
  BY GapAssumption
<1>2. EffectiveEnd(row, later) = EffectiveEnd(s, seen)
  BY <1>1 DEF EffectiveEnd, IsGap
<1>3. ~IsGap(row)
  BY DEF IsGap
<1>4. QED
  BY <1>2, <1>3, VersionOf

\* Appending newer records keeps the versions that were read before them.
LEMMA AppendStands ==
  ASSUME NEW R, Observations(R), NEW rows, RowsOK(rows, R), rows # {},
         NEW ordered \in Seq(R), NEW now, NEW seen \in Int, NEW later \in Int, seen <= later,
         \A k \in 1..Len(ordered) : ordered[k].observedAt > seen,
         ReadsAfter(rows, seen),
         NEW s \in rows, Observed(s, {}, seen).version # <<>>
  PROVE  \E row \in AppendTo(rows, ordered, now) :
           Observed(row, {}, later).version = Observed(s, {}, seen).version
<1> DEFINE lastRow == Last(Rows(rows))
           z == Seed(lastRow)
           existing == <<lastRow>>
           projected == Finish(Project(<<z>>, ordered), now)
           t == Last(ordered).observedAt
           result == Replace(rows, projected, existing, t)
<1>1. AppendTo(rows, ordered, now) = result
  BY DEF AppendTo
<1>2. lastRow \in rows
  <2> DEFINE o == Rows(rows)
  <2>1. o \in Seq(rows) /\ Len(o) \in Nat /\ Len(o) # 0
    BY RowsInOrder
  <2> HIDE DEF o
  <2>2. o[Len(o)] \in rows
    BY <2>1
  <2>3. QED
    BY <2>2 DEF Last, o
<1>3. \A q \in R : q.observedAt \in Int
  BY DEF Observations
<1>4. \A row \in rows : /\ row \in Row(R) /\ row.first \in R /\ row.last \in R
                        /\ row.last.observedAt \in Int /\ row.ended \in Int \union {Open}
  BY <1>3 DEF RowsOK, Row
<1>5. ReadsAfter(rows, seen) => lastRow.ended = EffectiveEnd(z, seen) \/ lastRow.ended = Open
  BY DEF ReadsAfter
<1> HIDE DEF lastRow
<1>6. /\ z \in SegmentOf(R) /\ z.first = lastRow.first /\ z.last = lastRow.last /\ z.ended = Open
  BY <1>2, <1>4 DEF Seed, SegmentOf
<1> HIDE DEF z
<1>7. ~IsGap(s) /\ EffectiveEnd(s, seen) # Open
  BY VersionOf
<1>8. MaxGap \in Nat /\ Open \notin Int
  BY GapAssumption
<1>9. Project(<<z>>, ordered) \in Seq(SegmentOf(R))
  <2>1. <<z>> \in Seq(SegmentOf(R))
    BY <1>6
  <2> DEFINE p == <<z>>
             f == Fed(p, ordered)
  <2>2. p \in Seq(SegmentOf(R))
    BY <2>1
  <2> HIDE DEF p
  <2>3. Feeds(f, p, ordered, R)
    BY <1>3, <2>2, FedSteps
  <2>4. Project(p, ordered) = f[Len(ordered)]
    BY DEF Project
  <2> HIDE DEF f
  <2>5. f[Len(ordered)] \in Seq(SegmentOf(R))
    <3>1. Len(ordered) \in 0..Len(ordered)
      OBVIOUS
    <3>2. QED
      BY <2>3, <3>1 DEF Feeds
  <2>6. QED
    BY <2>4, <2>5 DEF p
<1>10. projected \in Seq(SegmentOf(R))
  <2> DEFINE p == Project(<<z>>, ordered)
             n == Len(p)
  <2>1. p \in Seq(SegmentOf(R))
    BY <1>9
  <2> HIDE DEF p
  <2>2. p = <<>> => Finish(p, now) \in Seq(SegmentOf(R))
    BY <2>1 DEF Finish
  <2>3. ASSUME p # <<>> PROVE Finish(p, now) \in Seq(SegmentOf(R))
    <3> DEFINE e == EffectiveEnd(p[n], now)
               x == [p[n] EXCEPT !.ended = e]
    <3>1. n \in Nat /\ n \in 1..n /\ p[n] \in SegmentOf(R) /\ p \in [1..n -> SegmentOf(R)]
      BY <2>1, <2>3
    <3>2. e \in Int \union {Open}
      <4>1. e = p[n].last.observedAt \/ e = p[n].ended
        BY DEF EffectiveEnd
      <4>2. p[n].last \in R /\ p[n].ended \in Int \union {Open}
        BY <3>1 DEF SegmentOf
      <4>3. QED
        BY <1>3, <4>1, <4>2
    <3> HIDE DEF e
    <3>3. x \in SegmentOf(R)
      BY <3>1, <3>2 DEF SegmentOf
    <3>4. Finish(p, now) = [p EXCEPT ![n] = x]
      BY <2>3 DEF Finish, e
    <3> HIDE DEF x, n
    <3>5. [p EXCEPT ![n] = x] \in [1..n -> SegmentOf(R)]
      BY <3>1, <3>3
    <3>6. QED
      BY <3>1, <3>4, <3>5
  <2>4. QED
    BY <2>2, <2>3 DEF p
<1> HIDE DEF projected
<1>11. existing \in Seq(rows) /\ Len(existing) = 1 /\ existing[1] = lastRow
  BY <1>2
<1> HIDE DEF existing
<1>12. PICK i, j : ReplacedBy(rows, projected, existing, t, result, i, j)
  <2>1. IsFiniteSet(rows) /\ rows \subseteq Row(R)
    BY DEF RowsOK
  <2> HIDE DEF t
  <2>2. QED
    BY <1>10, <1>11, <2>1, ReplaceResult
<1> HIDE DEF result
<1>13. ASSUME s \in result PROVE \E row \in result : Observed(row, {}, later).version = Observed(s, {}, seen).version
  BY <1>4, <1>7, <1>13, SameVersion
<1>14. ASSUME s \notin result
       PROVE  \E row \in result : Observed(row, {}, later).version = Observed(s, {}, seen).version
  <2>1. /\ i = 0 => j = Len(existing) + 1
        /\ i # 0 => j \in 1..Len(existing)
        /\ \A k \in 1..Len(projected) : k < i \/ i = 0 => \E row \in result : SameAs(projected[k], row)
        /\ (\A k \in 1..(j - 1) : existing[k] # s) => s \in result
    BY <1>12 DEF ReplacedBy
  <2>2. PICK k \in 1..(j - 1) : existing[k] = s
    BY <1>14, <2>1
  <2>3. i = 0 /\ j = 2 /\ k = 1 /\ s = lastRow
    <3>1. i # 0 => j = 1
      BY <1>11, <2>1
    <3>2. i = 0
      <4>1. SUFFICES ASSUME j = 1 PROVE FALSE
        BY <3>1
      <4>2. QED
        BY <2>2, <4>1
    <3>3. j = 2
      BY <1>11, <2>1, <3>2
    <3>4. QED
      BY <1>11, <2>2, <3>2, <3>3
  <2>4. /\ EffectiveEnd(s, seen) = s.last.observedAt /\ seen - s.last.observedAt > MaxGap
    <3>1. s.ended = EffectiveEnd(z, seen) \/ s.ended = Open
      BY <1>5, <2>3
    <3>2. IsGap(z) = IsGap(s) /\ z.last = s.last
      BY <1>6, <2>3 DEF IsGap
    <3>3. s.last.observedAt \in Int /\ s.ended \in Int \union {Open}
      BY <1>4
    <3>4. QED
      BY <1>6, <1>7, <1>8, <3>1, <3>2, <3>3 DEF EffectiveEnd
  <2>5. ClosedBySilence(Project(<<z>>, ordered), z)
    <3>1. ~IsGap(z) /\ z.last.observedAt \in Int /\ seen - z.last.observedAt > MaxGap
      BY <1>4, <1>6, <1>7, <2>3, <2>4 DEF IsGap
    <3>2. \A m \in 1..Len(ordered) : ordered[m].observedAt \in Int
      BY <1>3
    <3>3. \A m \in 1..Len(ordered) : ordered[m].observedAt - z.last.observedAt > MaxGap
      BY <1>8, <3>1, <3>2
    <3>4. QED
      BY <1>3, <1>6, <3>1, <3>3, SilenceStands
  <2>6. /\ projected # <<>>
        /\ projected[1].first = z.first /\ projected[1].last = z.last
        /\ projected[1].ended = Open \/ projected[1].ended = z.last.observedAt
    BY <1>6, <1>9, <2>5, FinishStands DEF projected
  <2>7. 1 \in 1..Len(projected)
    BY <1>10, <2>6
  <2>8. PICK row \in result : SameAs(projected[1], row)
    BY <2>1, <2>3, <2>7
  <2>9. /\ row.first = s.first /\ row.last = s.last
        /\ row.ended = Open \/ row.ended = s.last.observedAt
    BY <1>6, <2>3, <2>6, <2>8 DEF SameAs
  <2>10. s.last.observedAt \in Int
    BY <1>4
  <2>11. QED
    BY <1>7, <2>4, <2>9, <2>10, SameVersion
<1>15. QED
  BY <1>1, <1>13, <1>14

\* The version of a closed segment that a user has seen is one of the timeline's versions
\* still once newer records are appended, so the label chosen for it finds it.
THEOREM SeenVersionsStand == Spec => VersionStands
<1> DEFINE Stands ==
      initialized /\ records' # records =>
        \A seen \in {t \in Reads : /\ \A r \in records : r.observedAt <= t
                                   /\ \A r \in records' \ records : r.observedAt > t} :
          ReadsAfter(segments, seen) =>
            \A s \in segments, later \in {t \in Reads : seen <= t} :
              LET version == Observed(s, {}, seen).version
              IN version # <<>> => \E t \in segments' : Observed(t, {}, later).version = version
<1>1. TimelineInv /\ [Next]_vars => [Stands]_vars
  <2>1. SUFFICES ASSUME TimelineInv, NEW batch \in Batches, NEW now \in Clock, Process(batch, now),
                        initialized, records' # records,
                        NEW seen \in Reads, \A r \in records : r.observedAt <= seen,
                        \A r \in records' \ records : r.observedAt > seen,
                        ReadsAfter(segments, seen),
                        NEW s \in segments, NEW later \in Reads, seen <= later,
                        Observed(s, {}, seen).version # <<>>
                 PROVE  \E t \in segments' :
                          Observed(t, {}, later).version = Observed(s, {}, seen).version
    BY DEF Next, vars
  <2> DEFINE adopted == {r \in batch : ~Taken(r)}
  <2>2. /\ IsFiniteSet(adopted) /\ Observations(records \union adopted)
        /\ records \intersect adopted = {} /\ Observations(adopted)
    BY <2>1, RecordsAdded DEF TimelineInv
  <2>3. /\ records' = records \union adopted
        /\ segments' = IF adopted = {} THEN segments ELSE ProjectOn(segments, adopted, now)
    BY <2>1 DEF Process
  <2> HIDE DEF adopted
  <2>4. adopted # {} /\ segments' = ProjectOn(segments, adopted, now)
    BY <2>1, <2>3
  <2>5. PICK R : R = records \union adopted
    OBVIOUS
  <2>6. Observations(R) /\ adopted \subseteq R /\ records \subseteq R /\ RowsOK(segments, records)
    BY <2>1, <2>2, <2>5 DEF TimelineInv
  <2>7. \A r \in adopted : r.observedAt > seen
    BY <2>1, <2>2, <2>3
  <2>8. seen \in Int /\ later \in Int
    BY ReadsAssumption
  <2> DEFINE ordered == MergeOrder(adopted)
  <2>9. /\ ordered \in Seq(R) /\ ordered \in Seq(adopted) /\ Len(ordered) # 0
        /\ \A k \in 1..Len(ordered) : ordered[k] \in adopted
    <3>1. /\ ordered \in Seq(R) /\ ordered \in Seq(adopted) /\ ToSet(ordered) = adopted
          /\ \A k \in 1..Len(ordered) : ordered[k] \in adopted
      BY <2>2, <2>6, MergedInTime
    <3> HIDE DEF ordered
    <3>2. Len(ordered) # 0
      BY <2>4, <3>1 DEF ToSet
    <3>3. QED
      BY <3>1, <3>2
  <2>10. \A r \in records : Before(r, ordered[1])
    <3>1. ordered[1] \in adopted
      BY <2>9
    <3>2. ordered[1].observedAt > seen /\ ordered[1].observedAt \in Int
      BY <2>6, <2>7, <3>1 DEF Observations
    <3>3. \A r \in records : r.observedAt \in Int
      BY <2>6 DEF Observations
    <3>4. QED
      BY <2>1, <2>8, <3>2, <3>3 DEF Before
  <2>11. segments' = AppendTo(segments, ordered, now)
    BY <2>1, <2>4, <2>10 DEF ProjectOn
  <2> HIDE DEF ordered
  <2>12. RowsOK(segments, R)
    BY <2>6, RowsOfMore
  <2>13. \A k \in 1..Len(ordered) : ordered[k].observedAt > seen
    BY <2>7, <2>9
  <2>14. \E row \in AppendTo(segments, ordered, now) :
           Observed(row, {}, later).version = Observed(s, {}, seen).version
    BY <2>1, <2>6, <2>8, <2>9, <2>12, <2>13, AppendStands
  <2>15. QED
    BY <2>11, <2>14
<1>2. QED
  BY <1>1, TimelineInvariant, PTL DEF Spec, VersionStands
-----------------------------------------------------------------------------
(* The timeline in pieces *)

\* A set of records has its first and its last.
LEMMA FirstAndLast ==
  ASSUME NEW T, IsFiniteSet(T), Observations(T), NEW Q \in SUBSET T, Q # {}
  PROVE  /\ \E m \in Q : \A x \in Q : ~Before(x, m)
         /\ \E m \in Q : \A x \in Q : ~Before(m, x)
<1> DEFINE o == MergeOrder(Q)
<1>1. IsFiniteSet(Q) /\ Observations(Q)
  BY FS_Subset DEF Observations
<1>2. /\ o \in Seq(Q) /\ Len(o) \in Nat /\ ToSet(o) = Q
      /\ \A i, j \in DOMAIN o : i < j => Before(o[i], o[j])
  BY <1>1, MergeOrderSorts
<1> HIDE DEF o
<1>3. DOMAIN o = 1..Len(o) /\ \A x \in Q : \E i \in 1..Len(o) : o[i] = x
  BY <1>2 DEF ToSet
<1>4. 1 \in 1..Len(o) /\ Len(o) \in 1..Len(o)
  BY <1>2, <1>3
<1>5. o[1] \in Q /\ o[Len(o)] \in Q
  BY <1>2, <1>4
<1>6. ASSUME NEW i \in 1..Len(o) PROVE ~Before(o[i], o[1]) /\ ~Before(o[Len(o)], o[i])
  <2>1. (i = 1 \/ 1 < i) /\ (i = Len(o) \/ i < Len(o)) /\ o[i] \in Q
    BY <1>2
  <2>2. /\ i = 1 \/ Before(o[1], o[i])
        /\ i = Len(o) \/ Before(o[i], o[Len(o)])
    BY <1>2, <1>3, <1>4, <2>1
  <2>3. QED
    BY <1>1, <1>5, <2>1, <2>2, BeforeOrders
<1>7. QED
  BY <1>3, <1>5, <1>6

\* A segment of the grouping of T, all of them, and those from f on.
PieceOf(T, f) == [first |-> f, last |-> LastIn(T, f), ended |-> EndIn(T, f)]

PiecesFrom(T, f) == {PieceOf(T, g) : g \in {g \in FirstsOf(T) : ~Before(g, f)}}

PiecesBefore(T, f) == {PieceOf(T, g) : g \in {g \in FirstsOf(T) : Before(g, f)}}

\* T and S have the same records from f on; or before f.
AgreeFrom(T, S, f) == \A r \in T \union S : ~Before(r, f) => (r \in T <=> r \in S)

AgreeBefore(T, S, f) == \A r \in T \union S : Before(r, f) => (r \in T <=> r \in S)

\* Where a segment begins, what came before is forgotten.
LEMMA FirstsFrom ==
  ASSUME NEW T, NEW S, Observations(T \union S), NEW f \in FirstsOf(T), f \in FirstsOf(S),
         AgreeFrom(T, S, f), NEW g \in FirstsOf(T), ~Before(g, f)
  PROVE  g \in FirstsOf(S)
<1>1. /\ \A x \in T \union S : ~Before(x, x)
      /\ \A x, y \in T \union S : x # y => Before(x, y) \/ Before(y, x)
      /\ \A x, y, z \in T \union S : Before(x, y) /\ Before(y, z) => Before(x, z)
      /\ \A x, y \in T \union S : Before(x, y) => ~Before(y, x)
  BY BeforeOrders
<1>2. f \in T /\ f \in S /\ g \in T /\ g \in S
  BY DEF FirstsOf, AgreeFrom
<1>3. SUFFICES ASSUME g # f, NEW q \in S, NextIn(S, q, g) PROVE ~JoinsTo(q, g)
  BY <1>2 DEF FirstsOf
<1>4. Before(f, g) /\ Before(q, g) /\ \A p \in S : Before(p, g) => ~Before(q, p)
  BY <1>1, <1>2, <1>3 DEF NextIn
<1>5. ~Before(q, f)
  BY <1>2, <1>4
<1>6. q \in T
  BY <1>5 DEF AgreeFrom
<1>7. ASSUME NEW p \in T, Before(p, g), Before(q, p) PROVE FALSE
  <2>1. ~Before(p, f)
    BY <1>1, <1>2, <1>5, <1>6, <1>7
  <2>2. p \in S
    BY <2>1 DEF AgreeFrom
  <2>3. QED
    BY <1>4, <1>7, <2>2
<1>8. NextIn(T, q, g)
  BY <1>4, <1>7 DEF NextIn
<1>9. QED
  BY <1>6, <1>8 DEF FirstsOf

LEMMA SameFrom ==
  ASSUME NEW T, NEW S, Observations(T \union S), NEW f \in FirstsOf(T), f \in FirstsOf(S),
         AgreeFrom(T, S, f)
  PROVE  PiecesFrom(T, f) = PiecesFrom(S, f)
<1>1. /\ \A x \in T \union S : ~Before(x, x)
      /\ \A x, y \in T \union S : x # y => Before(x, y) \/ Before(y, x)
      /\ \A x, y, z \in T \union S : Before(x, y) /\ Before(y, z) => Before(x, z)
      /\ \A x, y \in T \union S : Before(x, y) => ~Before(y, x)
  BY BeforeOrders
<1>2. /\ FirstsOf(T) \subseteq T /\ FirstsOf(S) \subseteq S
      /\ S \union T = T \union S
      /\ AgreeFrom(S, T, f)
  BY DEF FirstsOf, AgreeFrom
<1>3. \A g \in T \union S : ~Before(g, f) => (g \in FirstsOf(T) <=> g \in FirstsOf(S))
  BY <1>2, FirstsFrom
<1>4. ASSUME NEW g \in FirstsOf(T), ~Before(g, f) PROVE PieceOf(T, g) = PieceOf(S, g)
  <2>0. \A r \in T \union S : ~Before(r, g) => ~Before(r, f)
    BY <1>1, <1>2, <1>4
  <2>1. LaterIn(T, g) = LaterIn(S, g)
    <3>1. \A h \in T \union S : Before(g, h) => ~Before(h, g)
      BY <1>1, <1>2
    <3>2. QED
      BY <1>2, <1>3, <2>0, <3>1 DEF LaterIn
  <2>2. MembersIn(T, g) = MembersIn(S, g)
    BY <2>0, <2>1 DEF MembersIn, AgreeFrom
  <2>3. LastIn(T, g) = LastIn(S, g)
    BY <2>2 DEF LastIn
  <2>4. EndIn(T, g) = EndIn(S, g)
    BY <2>1, <2>3 DEF EndIn
  <2>5. QED
    BY <2>3, <2>4 DEF PieceOf
<1>5. {g \in FirstsOf(T) : ~Before(g, f)} = {g \in FirstsOf(S) : ~Before(g, f)}
  BY <1>2, <1>3
<1>6. QED
  BY <1>4, <1>5 DEF PiecesFrom

\* What is before the beginning of a segment does not depend on what follows.
LEMMA FirstsBefore ==
  ASSUME NEW T, NEW S, Observations(T \union S), NEW f \in T \intersect S,
         AgreeBefore(T, S, f), NEW g \in FirstsOf(T), Before(g, f) \/ g = f
  PROVE  g \in FirstsOf(S)
<1>1. /\ \A x, y, z \in T \union S : Before(x, y) /\ Before(y, z) => Before(x, z)
      /\ \A x \in T \union S : ~Before(x, x)
  BY BeforeOrders
<1>2. g \in T /\ g \in S
  BY DEF FirstsOf, AgreeBefore
<1>3. SUFFICES ASSUME NEW q \in S, NextIn(S, q, g) PROVE ~JoinsTo(q, g)
  BY <1>2 DEF FirstsOf
<1>4. \A r \in T \union S : Before(r, g) => Before(r, f)
  BY <1>1, <1>2
<1>5. q \in T
  BY <1>3, <1>4 DEF NextIn, AgreeBefore
<1>6. NextIn(T, q, g)
  BY <1>3, <1>4 DEF NextIn, AgreeBefore
<1>7. QED
  BY <1>5, <1>6 DEF FirstsOf

LEMMA SameBefore ==
  ASSUME NEW T, NEW S, Observations(T \union S), NEW f \in FirstsOf(T), f \in FirstsOf(S),
         AgreeBefore(T, S, f)
  PROVE  PiecesBefore(T, f) = PiecesBefore(S, f)
<1>1. /\ \A x \in T \union S : ~Before(x, x)
      /\ \A x, y \in T \union S : x # y => Before(x, y) \/ Before(y, x)
      /\ \A x, y, z \in T \union S : Before(x, y) /\ Before(y, z) => Before(x, z)
      /\ \A x, y \in T \union S : Before(x, y) => ~Before(y, x) /\ x.observedAt <= y.observedAt
  BY BeforeOrders
<1>2. /\ FirstsOf(T) \subseteq T /\ FirstsOf(S) \subseteq S
      /\ S \union T = T \union S /\ f \in T \intersect S
      /\ AgreeBefore(S, T, f)
  BY DEF FirstsOf, AgreeBefore
<1>2a. \A x \in T \union S : x.observedAt \in Int
  BY DEF Observations
<1>3. \A g \in T \union S : Before(g, f) => (g \in FirstsOf(T) <=> g \in FirstsOf(S))
  BY <1>2, FirstsBefore
<1>4. ASSUME NEW X, NEW Y, X \union Y = T \union S, FirstsOf(X) \subseteq X, FirstsOf(Y) \subseteq Y,
             f \in FirstsOf(X), f \in FirstsOf(Y), AgreeBefore(X, Y, f),
             \A h \in X \union Y : Before(h, f) => (h \in FirstsOf(X) <=> h \in FirstsOf(Y)),
             NEW g \in X \union Y, Before(g, f)
      PROVE  /\ MembersIn(X, g) \subseteq MembersIn(Y, g)
             /\ f.observedAt \in {h.observedAt : h \in LaterIn(X, g)}
             /\ {h.observedAt : h \in LaterIn(X, g)} \subseteq Int
             /\ \A x \in {h.observedAt : h \in LaterIn(X, g)} :
                  \/ x \in {h.observedAt : h \in LaterIn(Y, g)}
                  \/ x >= f.observedAt
  <2>1. \A h \in X \union Y : ~Before(h, f) => f = h \/ Before(f, h)
    BY <1>1, <1>2, <1>4
  <2>2. f \in LaterIn(X, g)
    BY <1>4 DEF LaterIn
  <2>3. \A h \in LaterIn(X, g) : h \in LaterIn(Y, g) \/ f = h \/ Before(f, h)
    BY <1>4, <2>1 DEF LaterIn
  <2>4. \A h \in LaterIn(Y, g) : h \in LaterIn(X, g) \/ f = h \/ Before(f, h)
    BY <1>4, <2>1 DEF LaterIn
  <2>5. ASSUME NEW r \in MembersIn(X, g) PROVE r \in MembersIn(Y, g)
    <3>1. r \in X /\ Before(r, f) /\ ~Before(r, g)
      BY <2>2 DEF MembersIn
    <3>2. r \in Y
      BY <1>4, <3>1 DEF AgreeBefore
    <3>3. ASSUME NEW h \in LaterIn(Y, g) PROVE Before(r, h)
      <4>1. h \in T \union S /\ r \in T \union S /\ f \in T \union S
        BY <1>4, <3>1 DEF LaterIn
      <4>2. QED
        BY <1>1, <2>4, <3>1, <4>1 DEF MembersIn
    <3>4. QED
      BY <3>1, <3>2, <3>3 DEF MembersIn
  <2>6. LaterIn(X, g) \subseteq T \union S
    BY <1>4 DEF LaterIn
  <2>7. \A h \in LaterIn(X, g) : h.observedAt \in Int
    BY <1>2a, <2>6
  <2>8. \A h \in LaterIn(X, g) : h \in LaterIn(Y, g) \/ h.observedAt >= f.observedAt
    BY <1>1, <1>2, <1>2a, <2>3, <2>6
  <2>9. QED
    BY <2>2, <2>5, <2>7, <2>8
<1>5. ASSUME NEW g \in FirstsOf(T), Before(g, f) PROVE PieceOf(T, g) = PieceOf(S, g)
  <2> DEFINE A == {h.observedAt : h \in LaterIn(T, g)}
             B == {h.observedAt : h \in LaterIn(S, g)}
             m == f.observedAt
  <2>1. /\ MembersIn(T, g) \subseteq MembersIn(S, g) /\ m \in A /\ A \subseteq Int
        /\ \A x \in A : x \in B \/ x >= m
    BY <1>2, <1>3, <1>4, <1>5
  <2>2. /\ MembersIn(S, g) \subseteq MembersIn(T, g) /\ m \in B /\ B \subseteq Int
        /\ \A x \in B : x \in A \/ x >= m
    BY <1>2, <1>3, <1>4, <1>5
  <2>2a. MembersIn(T, g) = MembersIn(S, g)
    BY <2>1, <2>2
  <2>3. LastIn(T, g) = LastIn(S, g)
    BY <2>2a DEF LastIn
  <2> HIDE DEF A, B, m
  <2>4. \A x : x \in A /\ (\A y \in A : x <= y) <=> x \in B /\ (\A y \in B : x <= y)
    <3>1. ASSUME NEW x \in A, \A y \in A : x <= y PROVE x \in B /\ \A y \in B : x <= y
      <4>1. x \in B
        <5>1. CASE x >= m
          <6>1. x = m
            BY <2>1, <3>1, <5>1
          <6>2. QED
            BY <2>2, <6>1
        <5>2. QED
          BY <2>1, <5>1
      <4>2. \A y \in B : x <= y
        BY <2>1, <2>2, <3>1
      <4>3. QED
        BY <4>1, <4>2
    <3>2. ASSUME NEW x \in B, \A y \in B : x <= y PROVE x \in A /\ \A y \in A : x <= y
      <4>1. x \in A
        <5>1. CASE x >= m
          <6>1. x = m
            BY <2>2, <3>2, <5>1
          <6>2. QED
            BY <2>1, <6>1
        <5>2. QED
          BY <2>2, <5>1
      <4>2. \A y \in A : x <= y
        BY <2>1, <2>2, <3>2
      <4>3. QED
        BY <4>1, <4>2
    <3>3. QED
      BY <3>1, <3>2
  <2>5. Min(A) = Min(B)
    BY <2>4 DEF Min
  <2>6. A # {} /\ B # {}
    BY <2>1, <2>2
  <2>7. EndIn(T, g) = EndIn(S, g)
    BY <2>3, <2>5, <2>6 DEF EndIn, A, B
  <2>8. QED
    BY <2>3, <2>7 DEF PieceOf
<1>6. {g \in FirstsOf(T) : Before(g, f)} = {g \in FirstsOf(S) : Before(g, f)}
  BY <1>2, <1>3
<1>7. QED
  BY <1>5, <1>6 DEF PiecesBefore

\* The records between the beginnings of two segments belong to the first of them: those
\* of a gap are suspended, and none is after the last of an activity.
LEMMA BetweenFirsts ==
  ASSUME NEW T, IsFiniteSet(T), Observations(T), NEW f \in FirstsOf(T), f.kind = "suspended",
         NEW r \in T, ~Before(r, f), \A h \in LaterIn(T, f) : Before(r, h)
  PROVE  r.kind = "suspended"
<1>1. /\ \A x \in T : ~Before(x, x)
      /\ \A x, y \in T : x # y => Before(x, y) \/ Before(y, x)
      /\ \A x, y, z \in T : Before(x, y) /\ Before(y, z) => Before(x, z)
      /\ \A x, y \in T : Before(x, y) => ~Before(y, x)
  BY BeforeOrders
<1>2. f \in T
  BY DEF FirstsOf
<1> DEFINE B == {x \in T : ~Before(x, f) /\ ~Before(r, x) /\ x.kind # "suspended"}
<1>3. SUFFICES ASSUME B # {} PROVE FALSE
  BY <1>1
<1>4. PICK m \in B : \A x \in B : ~Before(x, m)
  <2>1. B \in SUBSET T
    OBVIOUS
  <2> HIDE DEF B
  <2>2. QED
    BY <1>3, <2>1, FirstAndLast
<1>5. m \in T /\ ~Before(m, f) /\ ~Before(r, m) /\ m.kind # "suspended" /\ m # f /\ Before(f, m)
  BY <1>1, <1>2, <1>4
<1>6. m \notin FirstsOf(T)
  <2>1. SUFFICES ASSUME m \in FirstsOf(T) PROVE FALSE
    OBVIOUS
  <2>2. m \in LaterIn(T, f)
    BY <1>5, <2>1 DEF LaterIn
  <2>3. QED
    BY <1>5, <2>2
<1>7. PICK q \in T : NextIn(T, q, m) /\ JoinsTo(q, m)
  BY <1>5, <1>6 DEF FirstsOf
<1>8. q.kind # "suspended" /\ ~Before(q, f) /\ Before(q, m)
  BY <1>2, <1>5, <1>7 DEF NextIn, JoinsTo
<1>9. ~Before(r, q)
  BY <1>1, <1>5, <1>8
<1>10. q \in B
  BY <1>8, <1>9
<1>11. QED
  BY <1>4, <1>8, <1>10

\* The last record of an activity is the latest of its members.
LEMMA LastOfMembers ==
  ASSUME NEW T, IsFiniteSet(T), Observations(T), NEW f \in FirstsOf(T), f.kind # "suspended"
  PROVE  LastIn(T, f) \in MembersIn(T, f) /\ \A q \in MembersIn(T, f) : ~Before(LastIn(T, f), q)
<1> DEFINE M == MembersIn(T, f)
<1>1. M \in SUBSET T /\ f \in M
  <2>1. f \in T /\ ~Before(f, f)
    BY BeforeOrders DEF FirstsOf
  <2>2. QED
    BY <2>1 DEF MembersIn, LaterIn
<1> HIDE DEF M
<1>2. PICK m \in M : \A x \in M : ~Before(m, x)
  BY <1>1, FirstAndLast
<1>3. LastIn(T, f) = CHOOSE r \in M : \A q \in M : ~Before(r, q)
  BY DEF LastIn, M
<1>4. QED
  BY <1>2, <1>3 DEF M

\* Where a segment of the old timeline V stands in the new one U, and later records are
\* the same, the rest of the timeline is the same.
LEMMA Convergence ==
  ASSUME NEW U, IsFiniteSet(U), Observations(U), NEW V \in SUBSET U,
         NEW f \in FirstsOf(U), f \in FirstsOf(V), PieceOf(U, f) = PieceOf(V, f),
         NEW t \in Int, \A r \in U \ V : r.observedAt <= t,
         \/ f.observedAt > t
         \/ LaterIn(U, f) = {}
         \/ \E q \in LaterIn(U, f) : q.observedAt > t /\ \A h \in LaterIn(U, f) : ~Before(h, q)
  PROVE  PiecesFrom(U, f) = PiecesFrom(V, f)
<1>1. /\ \A x \in U : ~Before(x, x)
      /\ \A x, y \in U : x # y => Before(x, y) \/ Before(y, x)
      /\ \A x, y, z \in U : Before(x, y) /\ Before(y, z) => Before(x, z)
      /\ \A x, y \in U : Before(x, y) => ~Before(y, x) /\ x.observedAt <= y.observedAt
      /\ \A x \in U : x.observedAt \in Int
  BY BeforeOrders DEF Observations
<1>2. /\ FirstsOf(U) \subseteq U /\ FirstsOf(V) \subseteq V /\ V \subseteq U /\ U \union V = U
      /\ Observations(V) /\ IsFiniteSet(V)
  BY FS_Subset DEF FirstsOf, Observations
<1>3. LastIn(U, f) = LastIn(V, f) /\ EndIn(U, f) = EndIn(V, f)
  BY DEF PieceOf
<1>4. ASSUME NEW q \in U, q.observedAt > t PROVE AgreeFrom(U, V, q)
  <2>1. \A r \in U : ~Before(r, q) => r.observedAt > t
    BY <1>1, <1>4
  <2>2. QED
    BY <1>1, <1>2, <2>1 DEF AgreeFrom
<1>5. CASE f.observedAt > t
  BY <1>2, <1>4, <1>5, SameFrom
<1>6. \A X : {g \in FirstsOf(X) : ~Before(g, f)} \subseteq {f} \union LaterIn(X, f) \union {g \in FirstsOf(X) : g \notin U}
  BY <1>1, <1>2 DEF LaterIn
<1>7. CASE LaterIn(U, f) = {}
  <2>1. LaterIn(V, f) = {}
    <3>1. SUFFICES ASSUME NEW h \in LaterIn(V, f) PROVE FALSE
      OBVIOUS
    <3>2. h \in V /\ h \in U /\ Before(f, h) /\ ~Before(h, f) /\ f \in V
      BY <1>1, <1>2 DEF LaterIn
    <3>3. CASE f.kind = "suspended"
      <4>1. \A r \in U : ~Before(r, f) => r.kind = "suspended"
        BY <1>7, <3>3, BetweenFirsts
      <4>2. PICK q \in V : NextIn(V, q, h)
        <5> DEFINE Q == {x \in V : Before(x, h)}
        <5>1. PICK m \in Q : \A x \in Q : ~Before(m, x)
          <6>1. Q \in SUBSET V /\ f \in Q
            BY <3>2
          <6> HIDE DEF Q
          <6>2. QED
            BY <1>2, <6>1, FirstAndLast
        <5>2. QED
          BY <5>1 DEF NextIn
      <4>3. ~Before(q, f) /\ q \in U
        BY <1>2, <3>2, <4>2 DEF NextIn
      <4>4. JoinsTo(q, h)
        BY <3>2, <4>1, <4>3 DEF JoinsTo
      <4>5. QED
        BY <4>2, <4>4 DEF LaterIn, FirstsOf
    <3>4. CASE f.kind # "suspended"
      <4>1. h \in MembersIn(U, f)
        BY <1>7, <3>2 DEF MembersIn
      <4>2. ~Before(LastIn(U, f), h)
        BY <3>4, <4>1, LastOfMembers
      <4>3. LastIn(V, f) \in MembersIn(V, f)
        BY <1>2, <3>4, LastOfMembers
      <4>4. Before(LastIn(V, f), h)
        BY <4>3 DEF MembersIn
      <4>5. QED
        BY <1>3, <4>2, <4>4
    <3>5. QED
      BY <3>3, <3>4
  <2>2. {g \in FirstsOf(U) : ~Before(g, f)} = {f} /\ {g \in FirstsOf(V) : ~Before(g, f)} = {f}
    BY <1>1, <1>2, <1>6, <1>7, <2>1
  <2>3. QED
    BY <2>2 DEF PiecesFrom
<1>8. ASSUME NEW q \in LaterIn(U, f), q.observedAt > t, \A h \in LaterIn(U, f) : ~Before(h, q)
      PROVE  PiecesFrom(U, f) = PiecesFrom(V, f)
  <2>1. q \in FirstsOf(U) /\ q \in U /\ Before(f, q) /\ f \in V /\ f \in U
    BY <1>2 DEF LaterIn
  <2>2. q \in V
    BY <1>1, <1>8, <2>1
  <2>3. ASSUME NEW x \in U, ~Before(x, f), Before(x, q) PROVE x \in MembersIn(U, f)
    <3>1. \A h \in LaterIn(U, f) : h = q \/ Before(q, h)
      BY <1>1, <1>2, <1>8, <2>1 DEF LaterIn
    <3>2. QED
      BY <1>1, <1>2, <2>1, <2>3, <3>1 DEF MembersIn, LaterIn
  <2>4. ASSUME NEW h \in V, ~Before(q, h), Before(f, h), h # q
        PROVE  h \notin FirstsOf(V)
    <3>1. SUFFICES ASSUME h \in FirstsOf(V) PROVE FALSE
      OBVIOUS
    <3>2. h \in U /\ Before(h, q) /\ ~Before(h, f)
      BY <1>1, <1>2, <2>1, <2>4
    <3>3. h \in MembersIn(U, f)
      BY <2>3, <3>2
    <3>4. CASE f.kind # "suspended"
      <4>1. ~Before(LastIn(U, f), h)
        BY <3>3, <3>4, LastOfMembers
      <4>2. LastIn(V, f) \in MembersIn(V, f) /\ h \in LaterIn(V, f)
        BY <1>2, <2>4, <3>1, <3>4, LastOfMembers DEF LaterIn
      <4>3. Before(LastIn(V, f), h)
        BY <4>2 DEF MembersIn
      <4>4. QED
        BY <1>3, <4>1, <4>3
    <3>5. CASE f.kind = "suspended"
      <4>1. PICK m \in V : NextIn(V, m, h)
        <5> DEFINE Q == {x \in V : Before(x, h)}
        <5>1. PICK m \in Q : \A x \in Q : ~Before(m, x)
          <6>1. Q \in SUBSET V /\ f \in Q
            BY <2>1, <2>4
          <6> HIDE DEF Q
          <6>2. QED
            BY <1>2, <6>1, FirstAndLast
        <5>2. QED
          BY <5>1 DEF NextIn
      <4>2. m \in U /\ ~Before(m, f) /\ Before(m, q)
        BY <1>1, <1>2, <2>1, <2>4, <3>2, <4>1 DEF NextIn
      <4>3. m.kind = "suspended" /\ h.kind = "suspended"
        <5>1. m \in MembersIn(U, f) /\ \A x \in MembersIn(U, f) : \A g \in LaterIn(U, f) : Before(x, g)
          BY <2>3, <4>2 DEF MembersIn
        <5>2. \A x \in MembersIn(U, f) : x \in U /\ ~Before(x, f)
          BY DEF MembersIn
        <5>3. QED
          BY <3>3, <3>5, <5>1, <5>2, BetweenFirsts
      <4>4. QED
        BY <3>1, <4>1, <4>3 DEF FirstsOf, JoinsTo
    <3>6. QED
      BY <3>4, <3>5
  <2>5. q \in FirstsOf(V)
    <3>1. SUFFICES ASSUME NEW m \in V, NextIn(V, m, q), JoinsTo(m, q) PROVE FALSE
      BY <2>2 DEF FirstsOf
    <3>2. m \in U /\ Before(m, q) /\ ~Before(m, f)
      BY <1>2, <2>1, <3>1 DEF NextIn
    <3>3. m \in MembersIn(U, f)
      BY <2>3, <3>2
    <3>4. CASE f.kind = "suspended"
      <4>1. PICK w \in U : NextIn(U, w, q)
        <5> DEFINE Q == {x \in U : Before(x, q)}
        <5>1. PICK w \in Q : \A x \in Q : ~Before(w, x)
          <6>1. Q \in SUBSET U /\ f \in Q
            BY <2>1
          <6> HIDE DEF Q
          <6>2. QED
            BY <6>1, FirstAndLast
        <5>2. QED
          BY <5>1 DEF NextIn
      <4>2. ~Before(w, f) /\ Before(w, q)
        BY <2>1, <4>1 DEF NextIn
      <4>3. w \in MembersIn(U, f)
        BY <2>3, <4>2
      <4>4. m.kind = "suspended" /\ w.kind = "suspended"
        <5>1. \A x \in MembersIn(U, f) : x \in U /\ ~Before(x, f) /\ \A g \in LaterIn(U, f) : Before(x, g)
          BY DEF MembersIn
        <5>2. QED
          BY <3>3, <3>4, <4>3, <5>1, BetweenFirsts
      <4>5. JoinsTo(w, q)
        BY <3>1, <4>4 DEF JoinsTo
      <4>6. QED
        BY <2>1, <4>1, <4>5 DEF FirstsOf
    <3>5. CASE f.kind # "suspended"
      <4> DEFINE z == LastIn(U, f)
      <4>1. z \in MembersIn(U, f) /\ \A x \in MembersIn(U, f) : ~Before(z, x)
        BY <3>5, LastOfMembers
      <4>2. z \in MembersIn(V, f)
        BY <1>2, <1>3, <3>5, LastOfMembers
      <4> HIDE DEF z
      <4>3. z \in V /\ z \in U /\ Before(z, q)
        BY <1>2, <4>1, <4>2 DEF MembersIn
      <4>4. ~Before(m, z) /\ ~Before(z, m)
        BY <3>1, <3>3, <4>1, <4>3 DEF NextIn
      <4>5. m = z
        BY <1>1, <3>2, <4>3, <4>4
      <4>6. ASSUME NEW x \in U, Before(x, q), Before(z, x) PROVE FALSE
        <5>1. ~Before(x, f)
          BY <1>1, <2>1, <3>2, <4>3, <4>5, <4>6
        <5>2. QED
          BY <2>3, <4>1, <4>6, <5>1
      <4>7. NextIn(U, z, q)
        BY <4>3, <4>6 DEF NextIn
      <4>8. QED
        BY <2>1, <3>1, <4>3, <4>5, <4>7 DEF FirstsOf
    <3>6. QED
      BY <3>4, <3>5
  <2>6. PiecesFrom(U, q) = PiecesFrom(V, q)
    BY <1>2, <1>4, <1>8, <2>1, <2>5, SameFrom
  <2>7. {g \in FirstsOf(U) : ~Before(g, f)} = {f} \union {g \in FirstsOf(U) : ~Before(g, q)}
    <3>1. \A g \in FirstsOf(U) : ~Before(g, f) => g = f \/ g \in LaterIn(U, f)
      BY <1>1, <1>2 DEF LaterIn
    <3>2. \A g \in U : ~Before(g, q) => ~Before(g, f)
      BY <1>1, <2>1
    <3>3. QED
      BY <1>1, <1>2, <1>8, <3>1, <3>2
  <2>8. {g \in FirstsOf(V) : ~Before(g, f)} = {f} \union {g \in FirstsOf(V) : ~Before(g, q)}
    <3>1. \A g \in FirstsOf(V) : ~Before(g, f) => g = f \/ Before(f, g)
      BY <1>1, <1>2
    <3>2. \A g \in FirstsOf(V) : Before(f, g) => g = q \/ Before(q, g)
      BY <1>2, <2>4
    <3>3. \A g \in U : ~Before(g, q) => ~Before(g, f)
      BY <1>1, <2>1
    <3>4. \A g \in U : g = q \/ Before(q, g) => ~Before(g, q)
      BY <1>1, <2>1
    <3>5. QED
      BY <1>1, <1>2, <3>1, <3>2, <3>3, <3>4
  <2>9. QED
    BY <2>6, <2>7, <2>8 DEF PiecesFrom
<1>9. QED
  BY <1>5, <1>7, <1>8
\* All the segments of the grouping of T.
GroupsOf(T) == {PieceOf(T, f) : f \in FirstsOf(T)}

\* A row as it is shown once every silence has passed.
ShownAs(s) == [first |-> s.first, last |-> s.last, ended |-> EffectiveEnd(s, Max(Clock))]

\* The rows are those of the grouping of T.
ShowsGroups(rows, T) == {ShownAs(s) : s \in rows} = GroupsOf(T)

\* What is shown depends on the fields of a row, and not on whether a finish before the
\* last instant has ended it.
LEMMA ShownFields ==
  ASSUME NEW s, NEW row, SameAs(s, row)
  PROVE  ShownAs(row) = ShownAs(s)
BY DEF SameAs, ShownAs, EffectiveEnd, IsGap

LEMMA ShownFinished ==
  ASSUME NEW s, NEW x, s.last.observedAt \in Int, NEW now \in Clock, s.ended \in Int \union {Open},
         x.first = s.first, x.last = s.last, x.ended = EffectiveEnd(s, now)
  PROVE  ShownAs(x) = ShownAs(s)
<1>1. now <= Max(Clock) /\ now \in Int /\ Max(Clock) \in Int
  <2>1. \E m \in Clock : \A x_1 \in Clock : x_1 <= m
    BY InputsAssumption, GreatestOf
  <2>2. \A x_1 \in Clock : x_1 \in Int
    BY InputsAssumption
  <2>3. QED
    BY <2>1, <2>2 DEF Max
<1>2. MaxGap \in Nat /\ Open \notin Int
  BY GapAssumption
<1>3. EffectiveEnd(x, Max(Clock)) = EffectiveEnd(s, Max(Clock))
  BY <1>1, <1>2 DEF EffectiveEnd, IsGap
<1>4. QED
  BY <1>3 DEF ShownAs

\* Segments told show the grouping, and from any of them on the rest of it.
ToldAs(p, T) ==
  /\ \A k \in 1..Len(p) : p[k].first \in FirstsOf(T) /\ ShownAs(p[k]) = PieceOf(T, p[k].first)
  /\ GroupsOf(T) = {ShownAs(p[k]) : k \in 1..Len(p)}
  /\ \A k \in 1..Len(p) : PiecesFrom(T, p[k].first) = {ShownAs(p[l]) : l \in k..Len(p)}
  /\ \A k \in 1..Len(p) : LaterIn(T, p[k].first) = {p[l].first : l \in (k + 1)..Len(p)}

LEMMA ToldShows ==
  ASSUME NEW T, Observations(T), NEW p, Told(p, T)
  PROVE  ToldAs(p, T)
<1>1. FirstsOf(T) = {p[k].first : k \in 1..Len(p)} /\ Len(p) \in Nat
  BY ToldTyped DEF Told, StartsTold
<1>2. \A k \in 1..Len(p) : ShownAs(p[k]) = PieceOf(T, p[k].first)
  BY LastInstant, LastTold, EndTold DEF ShownAs, PieceOf
<1>3. \A k \in 1..Len(p) : LaterIn(T, p[k].first) = {p[l].first : l \in (k + 1)..Len(p)}
  BY LaterTold
<1>4. ASSUME NEW k \in 1..Len(p) PROVE PiecesFrom(T, p[k].first) = {ShownAs(p[l]) : l \in k..Len(p)}
  <2>1. ASSUME NEW l \in 1..Len(p) PROVE ~Before(p[l].first, p[k].first) <=> l \in k..Len(p)
    <3>1. p[l].first \in T /\ p[k].first \in T
      BY ToldTyped
    <3>2. l < k => Before(p[l].first, p[k].first)
      BY DEF Told, OrderTold
    <3>3. k < l => Before(p[k].first, p[l].first)
      BY DEF Told, OrderTold
    <3>4. CASE l < k
      BY <1>1, <3>2, <3>4
    <3>5. CASE k < l
      BY <1>1, <3>1, <3>3, <3>5, BeforeOrders
    <3>6. CASE k = l
      BY <1>1, <3>1, <3>6, BeforeOrders
    <3>7. QED
      BY <1>1, <3>4, <3>5, <3>6
  <2>2. \A l \in k..Len(p) : l \in 1..Len(p)
    BY <1>1
  <2>3. {g \in FirstsOf(T) : ~Before(g, p[k].first)} = {p[l].first : l \in k..Len(p)}
    BY <1>1, <2>1, <2>2
  <2>4. QED
    BY <1>2, <2>2, <2>3 DEF PiecesFrom
<1>5. GroupsOf(T) = {ShownAs(p[k]) : k \in 1..Len(p)}
  BY <1>1, <1>2 DEF GroupsOf
<1>6. QED
  BY <1>1, <1>2, <1>3, <1>4, <1>5 DEF ToldAs

\* A record leaves all segments but the last as they are.
LEMMA FeedKeeps ==
  ASSUME NEW R, \A q \in R : q.observedAt \in Int, NEW p \in Seq(SegmentOf(R)), NEW r \in R
  PROVE  /\ Len(p) <= Len(Feed(p, r))
         /\ \A k \in 1..(Len(p) - 1) : Feed(p, r)[k] = p[k]
<1> DEFINE n == Len(p)
           opened == [first |-> r, last |-> r, ended |-> Open]
           Good(o) == Len(p) <= Len(o) /\ \A k \in 1..(Len(p) - 1) : o[k] = p[k]
<1>1. n \in Nat
  OBVIOUS
<1>2. Good(p)
  BY <1>1
<1>3. n = 0 => Good(<<opened>>)
  BY <1>1
<1>4. ASSUME n # 0, NEW s PROVE Good([p EXCEPT ![n] = s])
  BY <1>1
<1>5. ASSUME n # 0, NEW s \in SegmentOf(R) PROVE Good(Append([p EXCEPT ![n] = s], opened))
  <2> DEFINE m == [p EXCEPT ![n] = s]
  <2>1. p \in [1..n -> SegmentOf(R)] /\ n \in 1..n
    BY <1>1, <1>5
  <2>2. Good(m)
    BY <1>4, <1>5
  <2>3. m \in Seq(SegmentOf(R)) /\ Len(m) = n
    <3> HIDE DEF n
    <3>1. m \in [1..n -> SegmentOf(R)]
      BY <2>1
    <3> HIDE DEF m
    <3>2. QED
      BY <1>1, <3>1
  <2> HIDE DEF m, opened
  <2>4. Len(Append(m, opened)) = n + 1 /\ \A k \in 1..n : Append(m, opened)[k] = m[k]
    BY <2>3
  <2>5. QED
    BY <1>1, <2>2, <2>4 DEF m
<1>6. n # 0 => CloseAt(p[n], r.observedAt) \in SegmentOf(R)
  <2>1. n # 0 => p[n] \in SegmentOf(R)
    BY <1>1
  <2>2. QED
    BY <2>1 DEF SegmentOf, CloseAt
<1> HIDE DEF Good
<1>7. Good(Feed(p, r))
  <2> HIDE DEF opened
  <2>1. n # 0 => Good(Append([p EXCEPT ![n] = CloseAt(p[n], r.observedAt)], opened))
    BY <1>5, <1>6
  <2>2. QED
    BY <1>2, <1>3, <1>4, <2>1 DEF Feed, opened
<1>8. QED
  BY <1>7 DEF Good

LEMMA FedKeeps ==
  ASSUME NEW R, \A q \in R : q.observedAt \in Int, NEW p, NEW rs \in Seq(R),
         NEW f, Feeds(f, p, rs, R), NEW n \in 0..Len(rs)
  PROVE  /\ Len(f[n]) <= Len(f[Len(rs)])
         /\ \A k \in 1..(Len(f[n]) - 1) : f[Len(rs)][k] = f[n][k]
<1> DEFINE N == Len(rs)
           Good(m) == Len(f[n]) <= Len(f[m]) /\ \A k \in 1..(Len(f[n]) - 1) : f[m][k] = f[n][k]
           T == {m \in 1..((N - n) + 1) : Good(n + m - 1)}
<1>1. N \in Nat /\ n \in Nat /\ n <= N /\ \A m \in 1..N : rs[m] \in R
  OBVIOUS
<1>2. /\ \A m \in 0..N : f[m] \in Seq(SegmentOf(R)) /\ Len(f[m]) \in Nat
      /\ \A m \in 1..N : f[m] = Feed(f[m - 1], rs[m])
  <2>1. /\ \A m \in 0..N : f[m] \in Seq(SegmentOf(R))
        /\ \A m \in 1..N : f[m] = Feed(f[m - 1], rs[m])
    BY DEF Feeds
  <2>2. \A g \in Seq(SegmentOf(R)) : Len(g) \in Nat
    OBVIOUS
  <2>3. QED
    BY <2>1, <2>2
<1>3. 1 \in T
  <2>1. n + 1 - 1 = n /\ 1 \in 1..((N - n) + 1)
    BY <1>1
  <2>2. Good(n)
    BY <1>2
  <2>3. QED
    BY <2>1, <2>2
<1>4. ASSUME NEW m \in 1..((N - n) + 1), m \in T, m < (N - n) + 1 PROVE m + 1 \in T
  <2> DEFINE a == n + m - 1
             b == n + (m + 1) - 1
  <2>1. a \in 0..N /\ b \in 1..N /\ a = b - 1 /\ m + 1 \in 1..((N - n) + 1)
    BY <1>1, <1>4
  <2>2. Good(a)
    BY <1>4
  <2> HIDE DEF a, b
  <2>3. f[b] = Feed(f[a], rs[b]) /\ rs[b] \in R /\ f[a] \in Seq(SegmentOf(R))
    BY <1>1, <1>2, <2>1
  <2>4. Len(f[a]) <= Len(f[b]) /\ \A k \in 1..(Len(f[a]) - 1) : f[b][k] = f[a][k]
    <3> DEFINE g == f[a]
               r == rs[b]
    <3>1. g \in Seq(SegmentOf(R)) /\ r \in R /\ f[b] = Feed(g, r)
      BY <2>3
    <3> HIDE DEF g, r
    <3>2. Len(g) <= Len(f[b]) /\ \A k \in 1..(Len(g) - 1) : f[b][k] = g[k]
      BY <3>1, FeedKeeps
    <3>3. QED
      BY <3>2 DEF g
  <2>5. Len(f[n]) \in Nat /\ Len(f[a]) \in Nat /\ Len(f[b]) \in Nat
    BY <1>2, <2>1
  <2>6. \A k \in 1..(Len(f[n]) - 1) : k \in 1..(Len(f[a]) - 1)
    BY <2>2, <2>5
  <2>7. Good(b)
    <3>1. Len(f[n]) <= Len(f[b])
      BY <2>2, <2>4, <2>5
    <3>2. ASSUME NEW k \in 1..(Len(f[n]) - 1) PROVE f[b][k] = f[n][k]
      <4>1. k \in 1..(Len(f[a]) - 1)
        BY <2>6
      <4>2. f[b][k] = f[a][k] /\ f[a][k] = f[n][k]
        BY <2>2, <2>4, <4>1
      <4>3. QED
        BY <4>2
    <3>3. QED
      BY <3>1, <3>2
  <2>8. QED
    BY <2>1, <2>7 DEF b
<1>5. (N - n) + 1 \in T
  <2>1. (N - n) + 1 \in Nat /\ (N - n) + 1 \in 1..((N - n) + 1)
    BY <1>1
  <2> HIDE DEF T
  <2>2. QED
    BY <1>3, <1>4, <2>1, Upwards
<1>6. Good(n + ((N - n) + 1) - 1)
  BY <1>5
<1>7. n + ((N - n) + 1) - 1 = N
  BY <1>1
<1>8. QED
  BY <1>6, <1>7
\* Two sequences of the same elements, in order.
OrderedAlike(a, m, b, n, X, rel) ==
  /\ m \in Nat /\ n \in Nat /\ a \in [1..m -> X] /\ b \in [1..n -> X]
  /\ \A k \in 1..m : \E i \in 1..n : a[k] = b[i]
  /\ \A k \in 1..n : \E i \in 1..m : b[k] = a[i]
  /\ \A x, y \in X : <<x, y>> \in rel => <<y, x>> \notin rel
  /\ \A i, j \in 1..m : i < j => <<a[i], a[j]>> \in rel
  /\ \A i, j \in 1..n : i < j => <<b[i], b[j]>> \in rel

\* There is one way to put the elements of a set in an order.
LEMMA OneOrder ==
  ASSUME NEW a, NEW m, NEW b, NEW n, NEW X, NEW rel, OrderedAlike(a, m, b, n, X, rel)
  PROVE  a = b
<1> USE DEF OrderedAlike
<1>0. \A x \in X : <<x, x>> \notin rel
  OBVIOUS
<1> DEFINE bad == {k \in 1..m : ~(k <= n /\ a[k] = b[k])}
<1>1. bad = {}
  <2>1. SUFFICES ASSUME bad # {} PROVE FALSE
    OBVIOUS
  <2>2. PICK k \in bad : \A l \in bad : k <= l
    <3>1. bad \subseteq Nat
      OBVIOUS
    <3> HIDE DEF bad
    <3>2. QED
      BY <2>1, <3>1, LeastNumber
  <2>3. k \in 1..m /\ ~(k <= n /\ a[k] = b[k])
    OBVIOUS
  <2>4. \A l \in 1..m : l < k => l <= n /\ a[l] = b[l]
    <3>1. \A l \in 1..m : l < k => l \notin bad
      BY <2>2
    <3>2. \A l \in 1..m : l \notin bad => l <= n /\ a[l] = b[l]
      OBVIOUS
    <3>3. QED
      BY <3>1, <3>2
  <2> HIDE DEF bad
  <2>5. PICK i \in 1..n : a[k] = b[i]
    BY <2>3
  <2>6. ~(i < k)
    <3>1. SUFFICES ASSUME i < k PROVE FALSE
      OBVIOUS
    <3>2. i \in 1..m /\ a[i] = b[i]
      BY <2>3, <2>4, <3>1
    <3>3. <<a[i], a[k]>> \in rel /\ a[i] = a[k] /\ a[k] \in X
      BY <2>3, <2>5, <3>1, <3>2
    <3>4. QED
      BY <1>0, <3>3
  <2>7. k < i /\ k \in 1..n
    <3>1. i <= n /\ i \in Int /\ k \in Int /\ n \in Int /\ 1 <= k
      BY <2>3
    <3>2. i # k
      BY <2>3, <2>5, <3>1
    <3>3. QED
      BY <2>6, <3>1, <3>2
  <2>8. PICK l \in 1..m : b[k] = a[l]
    BY <2>7
  <2>9. <<b[k], b[i]>> \in rel /\ b[k] \in X /\ b[i] \in X
    BY <2>7
  <2>10. CASE l < k
    <3>1. a[l] = b[l] /\ l \in 1..n
      BY <2>4, <2>10
    <3>2. <<b[l], b[k]>> \in rel /\ b[l] = b[k]
      BY <2>7, <2>8, <2>10, <3>1
    <3>3. QED
      BY <1>0, <2>9, <3>2
  <2>11. CASE l = k
    BY <1>0, <2>5, <2>8, <2>9, <2>11
  <2>12. CASE k < l
    <3>1. <<a[k], a[l]>> \in rel
      BY <2>3, <2>12
    <3>2. QED
      BY <2>5, <2>8, <2>9, <3>1
  <2>13. QED
    BY <2>3, <2>10, <2>11, <2>12
<1>2. \A k \in 1..m : k <= n /\ a[k] = b[k]
  BY <1>1
<1>3. n <= m
  <2>1. SUFFICES ASSUME m < n PROVE FALSE
    OBVIOUS
  <2>2. m + 1 \in 1..n
    BY <2>1
  <2>3. PICK l \in 1..m : b[m + 1] = a[l]
    BY <2>2
  <2>4. l \in 1..n /\ l < m + 1 /\ b[l] = b[m + 1]
    BY <1>2, <2>1, <2>3
  <2>5. <<b[l], b[m + 1]>> \in rel /\ b[l] \in X
    BY <2>2, <2>4
  <2>6. QED
    BY <1>0, <2>4, <2>5
<1>4. m = n
  <2>1. m # 0 => m <= n
    BY <1>2
  <2>2. QED
    BY <1>3, <2>1
<1>5. QED
  BY <1>2, <1>4

\* The stored rows are those of a replay when they show its groups: both are in order.
LEMMA ExactShows ==
  ASSUME NEW R, IsFiniteSet(R), Observations(R), NEW rows, RowsOK(rows, R)
  PROVE  Exact(rows, R) <=> ShowsGroups(rows, Seen(R))
<1> DEFINE T == Seen(R)
           o == Rows(rows)
           p == FullReplay(R)
           a == [i \in 1..Len(o) |-> ShownAs(o[i])]
           b == [i \in 1..Len(p) |-> ShownAs(p[i])]
           X == {ShownAs(s) : s \in rows} \union {ShownAs(p[i]) : i \in 1..Len(p)}
           rel == {q \in X \X X : Before(q[1].first, q[2].first)}
<1>1. /\ o \in Seq(rows) /\ ToSet(o) = rows /\ Len(o) \in Nat
      /\ \A k, l \in 1..Len(o) : k < l => Before(o[k].first, o[l].first)
  BY RowsInOrder
<1>2. Told(p, T) /\ Observations(T) /\ T \subseteq R
  BY FoldTells DEF Seen, Observations
<1> HIDE DEF T
<1>3. /\ Len(p) \in Nat /\ DOMAIN p = 1..Len(p)
      /\ \A k \in 1..Len(p) : p[k].first \in R
      /\ \A k, l \in 1..Len(p) : k < l => Before(p[k].first, p[l].first)
      /\ GroupsOf(T) = {ShownAs(p[k]) : k \in 1..Len(p)}
  <2>1. Len(p) \in Nat /\ DOMAIN p = 1..Len(p) /\ \A k \in 1..Len(p) : p[k].first \in T
    BY <1>2, ToldTyped
  <2>2. \A k, l \in 1..Len(p) : k < l => Before(p[k].first, p[l].first)
    BY <1>2 DEF Told, OrderTold
  <2>3. GroupsOf(T) = {ShownAs(p[k]) : k \in 1..Len(p)}
    BY <1>2, ToldShows DEF ToldAs
  <2>4. QED
    BY <1>2, <2>1, <2>2, <2>3
<1> HIDE DEF p
<1>4. Shown(o) = a /\ Shown(p) = b
  <2>1. DOMAIN o = 1..Len(o)
    BY <1>1
  <2>2. QED
    BY <1>3, <2>1 DEF Shown, ShownAs
<1> HIDE DEF o
<1>5. {ShownAs(s) : s \in rows} = {a[i] : i \in 1..Len(o)}
  <2>1. rows = {o[i] : i \in 1..Len(o)}
    BY <1>1 DEF ToSet
  <2>2. QED
    BY <2>1
<1>6. \A s \in rows : s.first \in R
  BY DEF RowsOK, Row
<1>7. \A x \in X : x.first \in R
  <2>1. \A s : ShownAs(s).first = s.first
    BY DEF ShownAs
  <2>2. QED
    BY <1>3, <1>6, <2>1
<1>8. /\ a \in [1..Len(o) -> X] /\ b \in [1..Len(p) -> X]
      /\ \A i \in 1..Len(o) : a[i].first = o[i].first
      /\ \A i \in 1..Len(p) : b[i].first = p[i].first
  <2>1. \A i \in 1..Len(o) : o[i] \in rows
    BY <1>1
  <2>2. QED
    BY <2>1 DEF ShownAs
<1> HIDE DEF a, b, X
<1>9. \A x, y \in X : <<x, y>> \in rel <=> Before(x.first, y.first)
  OBVIOUS
<1> HIDE DEF rel
<1>10. \A x, y \in X : <<x, y>> \in rel => <<y, x>> \notin rel
  BY <1>7, <1>9, BeforeOrders
<1>11. \A i, j \in 1..Len(o) : i < j => <<a[i], a[j]>> \in rel
  <2>1. \A i \in 1..Len(o) : a[i] \in X
    BY <1>8
  <2>2. QED
    BY <1>1, <1>8, <1>9, <2>1
<1>12. \A i, j \in 1..Len(p) : i < j => <<b[i], b[j]>> \in rel
  <2>1. \A i \in 1..Len(p) : b[i] \in X
    BY <1>8
  <2>2. QED
    BY <1>3, <1>8, <1>9, <2>1
<1>13. {b[i] : i \in 1..Len(p)} = GroupsOf(T)
  BY <1>3 DEF b
<1>14. ASSUME {a[i] : i \in 1..Len(o)} = {b[i] : i \in 1..Len(p)} PROVE a = b
  <2> DEFINE m == Len(o)
             n == Len(p)
  <2>1. m \in Nat /\ n \in Nat /\ a \in [1..m -> X] /\ b \in [1..n -> X]
    BY <1>1, <1>3, <1>8
  <2>2. (\A k \in 1..m : \E i \in 1..n : a[k] = b[i]) /\ (\A k \in 1..n : \E i \in 1..m : b[k] = a[i])
    <3> DEFINE A == {a[i] : i \in 1..m}
               B == {b[i] : i \in 1..n}
    <3>1. (\A k \in 1..m : a[k] \in A) /\ (\A k \in 1..n : b[k] \in B)
      OBVIOUS
    <3>2. (\A x \in A : \E i \in 1..m : x = a[i]) /\ (\A x \in B : \E i \in 1..n : x = b[i])
      OBVIOUS
    <3>3. A = B
      BY <1>14
    <3> HIDE DEF A, B
    <3>4. QED
      BY <3>1, <3>2, <3>3
  <2>3. \A i, j \in 1..m : i < j => <<a[i], a[j]>> \in rel
    BY <1>11
  <2>4. \A i, j \in 1..n : i < j => <<b[i], b[j]>> \in rel
    BY <1>12
  <2> HIDE DEF m, n
  <2>5. OrderedAlike(a, m, b, n, X, rel)
    BY <1>10, <2>1, <2>2, <2>3, <2>4 DEF OrderedAlike
  <2>6. QED
    BY <2>5, OneOrder
<1>15. ASSUME a = b PROVE {a[i] : i \in 1..Len(o)} = {b[i] : i \in 1..Len(p)}
  <2>1. DOMAIN a = 1..Len(o) /\ DOMAIN b = 1..Len(p)
    BY <1>8
  <2>2. QED
    BY <1>15, <2>1
<1>16. Exact(rows, R) <=> a = b
  BY <1>4 DEF Exact, o, p
<1>17. QED
  BY <1>5, <1>13, <1>14, <1>15, <1>16 DEF ShowsGroups, T
\* The rows E of a window show the records V; the window's records with the new ones are U,
\* told by p, of which the projected segments are all, or those before a converged one.
Splices(R, rows, E, V, U, p, projected, existing, t, now) ==
  /\ Observations(R) /\ RowsOK(rows, R) /\ E \subseteq rows
  /\ IsFiniteSet(U) /\ U \subseteq R /\ V \subseteq U /\ ShowsGroups(E, V)
  /\ t \in Int /\ now \in Clock
  /\ \A r \in U \ V : r.observedAt <= t
  /\ Told(p, U)
  /\ projected \in Seq(SegmentOf(R)) /\ Len(projected) <= Len(p)
  /\ \A k \in 1..Len(projected) :
       /\ projected[k].first = p[k].first /\ projected[k].last = p[k].last
       /\ projected[k].ended = IF k = Len(p) THEN EffectiveEnd(p[k], now) ELSE p[k].ended
  /\ existing \in Seq(rows) /\ ToSet(existing) \subseteq E
  /\ \A k, l \in 1..Len(existing) : k < l => Before(existing[k].first, existing[l].first)
  /\ \A row \in E : row \notin ToSet(existing) =>
       \A k \in 1..Len(projected) : Before(projected[k].first, row.first)
  /\ IF Len(projected) = Len(p) THEN ToSet(existing) = E
     ELSE \E k \in 1..Len(projected), m \in 1..Len(existing) :
            Reaches(projected[k], t) /\ SameAs(projected[k], existing[m])

\* A projected segment that reaches past the new records does so for all that follows.
LEMMA ReachesOn ==
  ASSUME NEW U, Observations(U), NEW p, Told(p, U), NEW i \in 1..Len(p), NEW t \in Int,
         NEW s, s.first = p[i].first, i # Len(p) => s.ended = p[i].ended, Reaches(s, t)
  PROVE  LET f == p[i].first
         IN  \/ f.observedAt > t
             \/ LaterIn(U, f) = {}
             \/ \E q \in LaterIn(U, f) : q.observedAt > t /\ \A h \in LaterIn(U, f) : ~Before(h, q)
<1>1. /\ Len(p) \in Nat
      /\ \A l \in 1..Len(p) : p[l].first \in U /\ p[l].last \in U
      /\ \A x \in U : x.observedAt \in Int
  BY ToldTyped DEF Observations
<1>2. LaterIn(U, p[i].first) = {p[l].first : l \in (i + 1)..Len(p)}
  <2>1. ToldAs(p, U)
    BY ToldShows
  <2>2. QED
    BY <2>1 DEF ToldAs
<1>3. CASE i = Len(p)
  <2>1. (i + 1)..Len(p) = {}
    BY <1>1, <1>3
  <2>2. QED
    BY <1>2, <2>1
<1>4. CASE Start(s) > t
  BY <1>4 DEF Start
<1>5. CASE i # Len(p) /\ ~(Start(s) > t)
  <2>1. i + 1 \in 1..Len(p) /\ i + 1 \in (i + 1)..Len(p) /\ i \in 1..(Len(p) - 1) /\ i < i + 1
    BY <1>1, <1>5
  <2> DEFINE q == p[i + 1].first
  <2>2. Before(p[i].last, q)
    BY <2>1 DEF Told, OrderTold
  <2>3. p[i].last.observedAt <= q.observedAt
    BY <1>1, <2>1, <2>2, BeforeOrders
  <2>4. p[i].ended = q.observedAt \/ p[i].ended = p[i].last.observedAt
    BY <2>1 DEF Told, EndsTold, Start
  <2>5. p[i].ended # Open /\ p[i].ended \in Int /\ p[i].ended <= q.observedAt /\ q.observedAt \in Int
    BY <1>1, <2>1, <2>3, <2>4, GapAssumption
  <2>6. q.observedAt > t
    <3>1. p[i].ended > t
      BY <1>5, <2>5 DEF Reaches
    <3>2. QED
      BY <2>5, <3>1
  <2>7. ASSUME NEW l \in (i + 1)..Len(p) PROVE ~Before(p[l].first, q)
    <3>1. l \in 1..Len(p) /\ (l = i + 1 \/ i + 1 < l)
      BY <1>1
    <3>2. l = i + 1 \/ Before(q, p[l].first)
      BY <2>1, <3>1 DEF Told, OrderTold
    <3>3. QED
      BY <1>1, <2>1, <3>1, <3>2, BeforeOrders
  <2>8. QED
    BY <1>2, <2>1, <2>6, <2>7
<1>6. QED
  BY <1>3, <1>4, <1>5

\* The rows of a window that begin at f or after it.
LEMMA RowsFrom ==
  ASSUME NEW E, NEW V, ShowsGroups(E, V), NEW f
  PROVE  /\ {ShownAs(s) : s \in {s \in E : ~Before(s.first, f)}} = PiecesFrom(V, f)
         /\ {ShownAs(s) : s \in {s \in E : Before(s.first, f)}} = PiecesBefore(V, f)
         /\ \A s \in E : s.first \in FirstsOf(V) /\ ShownAs(s) = PieceOf(V, s.first)
<1>1. \A s : ShownAs(s).first = s.first
  BY DEF ShownAs
<1>2. \A g : PieceOf(V, g).first = g
  BY DEF PieceOf
<1>3. \A s \in E : \E g \in FirstsOf(V) : ShownAs(s) = PieceOf(V, g)
  <2>1. \A s \in E : ShownAs(s) \in GroupsOf(V)
    BY DEF ShowsGroups
  <2>2. QED
    BY <2>1 DEF GroupsOf
<1>4. \A s \in E : s.first \in FirstsOf(V) /\ ShownAs(s) = PieceOf(V, s.first)
  BY <1>1, <1>2, <1>3
<1>5. \A g \in FirstsOf(V) : \E s \in E : PieceOf(V, g) = ShownAs(s) /\ s.first = g
  <2>1. \A g \in FirstsOf(V) : PieceOf(V, g) \in GroupsOf(V)
    BY DEF GroupsOf
  <2>2. \A x \in GroupsOf(V) : \E s \in E : x = ShownAs(s)
    BY DEF ShowsGroups
  <2>3. QED
    BY <1>1, <1>2, <2>1, <2>2
<1>6. \A x : x \in {ShownAs(s) : s \in {s \in E : ~Before(s.first, f)}} <=> x \in PiecesFrom(V, f)
  BY <1>4, <1>5 DEF PiecesFrom
<1>7. \A x : x \in {ShownAs(s) : s \in {s \in E : Before(s.first, f)}} <=> x \in PiecesBefore(V, f)
  BY <1>4, <1>5 DEF PiecesBefore
<1>8. QED
  BY <1>4, <1>6, <1>7

\* Replacing in a window leaves what is outside it, and shows the window's records.
LEMMA WindowReplaced ==
  ASSUME NEW R, NEW rows, NEW E, NEW V, NEW U, NEW p, NEW projected, NEW existing, NEW t, NEW now,
         Splices(R, rows, E, V, U, p, projected, existing, t, now)
  PROVE  {ShownAs(s) : s \in Replace(rows, projected, existing, t)} =
           {ShownAs(s) : s \in rows \ E} \union GroupsOf(U)
<1> DEFINE result == Replace(rows, projected, existing, t)
<1>1. PICK i, j : ReplacedBy(rows, projected, existing, t, result, i, j)
  <2>1. IsFiniteSet(rows) /\ rows \subseteq Row(R) /\ projected \in Seq(SegmentOf(R)) /\ existing \in Seq(rows)
    BY DEF Splices, RowsOK
  <2>2. QED
    BY <2>1, ReplaceResult
<1> HIDE DEF result
<1>2. /\ i \in 0..Len(projected)
      /\ i = 0 => \A k \in 1..Len(projected), m \in 1..Len(existing) :
                     Reaches(projected[k], t) => ~SameAs(projected[k], existing[m])
      /\ i = 0 => j = Len(existing) + 1
      /\ i # 0 => j \in 1..Len(existing) /\ SameAs(projected[i], existing[j]) /\ Reaches(projected[i], t)
      /\ \A k \in 1..Len(projected) : k < i \/ i = 0 =>
           \E row \in result : SameAs(projected[k], row)
      /\ \A row \in rows : (\A k \in 1..(j - 1) : existing[k] # row) => row \in result
      /\ \A row \in result :
           \/ row \in rows /\ \A k \in 1..(j - 1) : existing[k] # row
           \/ \E k \in 1..Len(projected) : (k < i \/ i = 0) /\ SameAs(projected[k], row)
  BY <1>1 DEF ReplacedBy
<1>3. /\ Observations(R) /\ E \subseteq rows /\ IsFiniteSet(U) /\ U \subseteq R /\ V \in SUBSET U
      /\ ShowsGroups(E, V) /\ t \in Int /\ now \in Clock /\ Told(p, U)
      /\ \A r \in U \ V : r.observedAt <= t
      /\ Len(projected) \in Nat /\ Len(projected) <= Len(p) /\ Len(existing) \in Nat
      /\ \A k \in 1..Len(existing) : existing[k] \in E
  <2>1. Len(projected) \in Nat /\ Len(existing) \in Nat /\ \A k \in 1..Len(existing) : existing[k] \in ToSet(existing)
    <3>1. \A X : projected \in Seq(X) => Len(projected) \in Nat
      OBVIOUS
    <3>2. \A X : existing \in Seq(X) => Len(existing) \in Nat /\ DOMAIN existing = 1..Len(existing)
      OBVIOUS
    <3>3. QED
      BY <3>1, <3>2 DEF Splices, ToSet
  <2>2. QED
    BY <2>1 DEF Splices
<1>4. Observations(U) /\ Len(p) \in Nat /\ \A k \in 1..Len(p) : p[k] \in SegmentOf(U)
  <2>1. Observations(U)
    BY <1>3 DEF Observations
  <2>2. QED
    BY <1>3, <2>1, ToldTyped
<1>5. \A k \in 1..Len(projected) : k \in 1..Len(p) /\ ShownAs(projected[k]) = ShownAs(p[k])
  <2>1. SUFFICES ASSUME NEW k \in 1..Len(projected) PROVE k \in 1..Len(p) /\ ShownAs(projected[k]) = ShownAs(p[k])
    OBVIOUS
  <2>2. k \in 1..Len(p)
    BY <1>3, <1>4
  <2>3. /\ projected[k].first = p[k].first /\ projected[k].last = p[k].last
        /\ projected[k].ended = IF k = Len(p) THEN EffectiveEnd(p[k], now) ELSE p[k].ended
    BY DEF Splices
  <2>4. p[k].last \in U /\ p[k].ended \in Int \union {Open}
    BY <1>4, <2>2 DEF SegmentOf
  <2>5. p[k].last.observedAt \in Int
    BY <1>4, <2>4 DEF Observations
  <2>6. CASE k = Len(p)
    BY <1>3, <2>2, <2>3, <2>4, <2>5, <2>6, ShownFinished
  <2>7. CASE k # Len(p)
    <3>1. SameAs(p[k], projected[k])
      BY <2>3, <2>7 DEF SameAs
    <3>2. QED
      BY <2>2, <3>1, ShownFields
  <2>8. QED
    BY <2>6, <2>7
<1>6. \A k \in 1..Len(projected) : \A row : SameAs(projected[k], row) => ShownAs(row) = ShownAs(p[k])
  BY <1>5, ShownFields
<1>7. /\ GroupsOf(U) = {ShownAs(p[k]) : k \in 1..Len(p)}
      /\ \A k \in 1..Len(p) : /\ p[k].first \in FirstsOf(U) /\ ShownAs(p[k]) = PieceOf(U, p[k].first)
                              /\ PiecesFrom(U, p[k].first) = {ShownAs(p[l]) : l \in k..Len(p)}
  <2>1. ToldAs(p, U)
    BY <1>3, <1>4, ToldShows
  <2>2. QED
    BY <2>1 DEF ToldAs
<1>8. CASE i = 0
  <2>1. Len(projected) = Len(p) /\ ToSet(existing) = E
    BY <1>2, <1>8 DEF Splices
  <2>2. \A row \in rows : (\A k \in 1..(j - 1) : existing[k] # row) <=> row \notin E
    <3>1. j - 1 = Len(existing)
      BY <1>2, <1>3, <1>8
    <3>2. DOMAIN existing = 1..Len(existing)
      BY DEF Splices
    <3>3. QED
      BY <2>1, <3>1, <3>2 DEF ToSet
  <2>3. ASSUME NEW row \in result
        PROVE  ShownAs(row) \in {ShownAs(s) : s \in rows \ E} \union GroupsOf(U)
    <3>1. row \in rows \ E \/ \E k \in 1..Len(projected) : SameAs(projected[k], row)
      BY <1>2, <2>2
    <3>2. QED
      BY <1>6, <1>7, <2>1, <3>1
  <2>4. \A row \in rows \ E : row \in result
    BY <1>2, <2>2
  <2>5. \A k \in 1..Len(p) : \E row \in result : ShownAs(p[k]) = ShownAs(row)
    BY <1>2, <1>6, <1>8, <2>1
  <2>6. QED
    BY <1>7, <2>3, <2>4, <2>5 DEF result
<1>9. CASE i # 0
  <2> DEFINE f == p[i].first
  <2>1. /\ i \in 1..Len(projected) /\ i \in 1..Len(p) /\ j \in 1..Len(existing)
        /\ SameAs(projected[i], existing[j]) /\ Reaches(projected[i], t)
    BY <1>2, <1>3, <1>5, <1>9
  <2>2. /\ projected[i].first = f /\ existing[j].first = f /\ existing[j] \in E
        /\ i # Len(p) => projected[i].ended = p[i].ended
    BY <1>3, <2>1 DEF Splices, SameAs
  <2>3. /\ \A s \in E : s.first \in FirstsOf(V) /\ ShownAs(s) = PieceOf(V, s.first)
        /\ {ShownAs(s) : s \in {s \in E : ~Before(s.first, f)}} = PiecesFrom(V, f)
    BY <1>3, RowsFrom
  <2>4. f \in FirstsOf(U) /\ f \in FirstsOf(V) /\ PieceOf(U, f) = PieceOf(V, f)
    BY <1>6, <1>7, <2>1, <2>2, <2>3
  <2>5. PiecesFrom(U, f) = PiecesFrom(V, f)
    <3>1. \/ f.observedAt > t
          \/ LaterIn(U, f) = {}
          \/ \E q \in LaterIn(U, f) : q.observedAt > t /\ \A h \in LaterIn(U, f) : ~Before(h, q)
      BY <1>3, <1>4, <2>1, <2>2, ReachesOn
    <3> HIDE DEF f
    <3>2. QED
      BY <1>3, <1>4, <2>4, <3>1, Convergence
  <2>6. /\ \A s \in rows : s.first \in R
        /\ \A k, l \in 1..Len(existing) : k < l => Before(existing[k].first, existing[l].first)
        /\ \A row \in E : row \notin ToSet(existing) => Before(f, row.first)
    <3>1. \A s \in rows : s.first \in R
      BY DEF Splices, RowsOK, Row
    <3>2. QED
      BY <2>1, <2>2, <3>1 DEF Splices
  <2>7. \A x, y \in R : Before(x, y) => ~Before(y, x) /\ x # y
    BY <1>3, BeforeOrders
  <2>8. ASSUME NEW row \in E
        PROVE  (\A k \in 1..(j - 1) : existing[k] # row) <=> ~Before(row.first, f)
    <3>1. row.first \in R /\ f \in R
      BY <1>3, <2>2, <2>6
    <3>2. CASE row \notin ToSet(existing)
      <4>1. \A k \in 1..(j - 1) : existing[k] # row
        <5>1. \A k \in 1..(j - 1) : k \in 1..Len(existing)
          BY <1>3, <2>1
        <5>2. \A k \in 1..Len(existing) : existing[k] \in ToSet(existing)
          BY DEF ToSet, Splices
        <5>3. QED
          BY <3>2, <5>1, <5>2
      <4>2. QED
        BY <2>6, <2>7, <3>1, <3>2, <4>1
    <3>3. CASE row \in ToSet(existing)
      <4>1. PICK k \in 1..Len(existing) : existing[k] = row
        <5>1. DOMAIN existing = 1..Len(existing)
          BY DEF Splices
        <5>2. QED
          BY <3>3, <5>1 DEF ToSet
      <4>2. CASE k < j
        <5>1. Before(row.first, f)
          BY <2>1, <2>2, <2>6, <4>1, <4>2
        <5>2. k \in 1..(j - 1)
          BY <1>3, <2>1, <4>2
        <5>3. QED
          BY <4>1, <5>1, <5>2
      <4>3. CASE ~(k < j)
        <5>1. ~Before(row.first, f)
          <6>1. k = j \/ j < k
            BY <1>3, <2>1, <4>3
          <6>2. row.first = f \/ Before(f, row.first)
            BY <2>1, <2>2, <2>6, <4>1, <6>1
          <6>3. QED
            BY <2>7, <3>1, <6>2
        <5>2. ASSUME NEW m \in 1..(j - 1) PROVE existing[m] # row
          <6>1. m \in 1..Len(existing) /\ m < k
            BY <1>3, <2>1, <4>3
          <6>2. Before(existing[m].first, existing[k].first)
            BY <2>6, <6>1
          <6>3. existing[m].first \in R /\ existing[k].first \in R
            BY <1>3, <2>6, <6>1
          <6>4. QED
            BY <2>7, <4>1, <6>2, <6>3
        <5>3. QED
          BY <5>1, <5>2
      <4>4. QED
        BY <4>2, <4>3
    <3>4. QED
      BY <3>2, <3>3
  <2>9. \A row \in rows \ E : \A k \in 1..(j - 1) : existing[k] # row
    <3>1. \A k \in 1..(j - 1) : k \in 1..Len(existing)
      BY <1>3, <2>1
    <3>2. QED
      BY <1>3, <3>1
  <2> HIDE DEF f
  <2>10. {ShownAs(s) : s \in {s \in E : ~Before(s.first, f)}} = {ShownAs(p[l]) : l \in i..Len(p)}
    BY <1>7, <2>1, <2>3, <2>5 DEF f
  <2>11. \A k \in 1..Len(p) : k \in i..Len(p) \/ (k < i /\ k \in 1..Len(projected))
    BY <1>3, <1>4, <2>1
  <2>12. \A k \in 1..Len(projected) : k \in 1..Len(p)
    BY <1>5
  <2>13. ASSUME NEW row \in result
         PROVE  ShownAs(row) \in {ShownAs(s) : s \in rows \ E} \union GroupsOf(U)
    <3>1. CASE row \in rows /\ \A k \in 1..(j - 1) : existing[k] # row
      <4>1. CASE row \in E
        <5>1. ShownAs(row) \in {ShownAs(p[l]) : l \in i..Len(p)}
          BY <2>8, <2>10, <3>1, <4>1
        <5>2. \A l \in i..Len(p) : l \in 1..Len(p)
          BY <2>1
        <5>3. QED
          BY <1>7, <5>1, <5>2
      <4>2. QED
        BY <3>1, <4>1
    <3>2. CASE \E k \in 1..Len(projected) : SameAs(projected[k], row)
      BY <1>6, <1>7, <2>12, <3>2
    <3>3. QED
      BY <1>2, <3>1, <3>2
  <2>14. \A row \in rows \ E : row \in result
    BY <1>2, <2>9
  <2>15. ASSUME NEW k \in 1..Len(p) PROVE \E row \in result : ShownAs(p[k]) = ShownAs(row)
    <3>1. CASE k \in i..Len(p)
      <4>1. PICK s \in E : ~Before(s.first, f) /\ ShownAs(s) = ShownAs(p[k])
        <5>1. ShownAs(p[k]) \in {ShownAs(p[l]) : l \in i..Len(p)}
          BY <3>1
        <5>2. ShownAs(p[k]) \in {ShownAs(s) : s \in {s \in E : ~Before(s.first, f)}}
          BY <2>10, <5>1
        <5>3. QED
          BY <5>2
      <4>2. s \in result
        BY <1>2, <1>3, <2>8, <4>1
      <4>3. QED
        BY <4>1, <4>2
    <3>2. CASE k < i /\ k \in 1..Len(projected)
      BY <1>2, <1>6, <3>2
    <3>3. QED
      BY <2>11, <3>1, <3>2
  <2>16. QED
    BY <1>7, <2>13, <2>14, <2>15 DEF result
<1>10. QED
  BY <1>8, <1>9
-----------------------------------------------------------------------------
(* Every way of bringing the rows up to date is exact *)

\* Where a segment begins both in the old records V and in the new ones U, and nothing
\* before it is new: the rows from there on show a window of their own.
Opens(R, T, f) ==
  /\ R \subseteq T /\ Observations(T) /\ IsFiniteSet(T)
  /\ f \in FirstsOf(R)
  /\ \A r \in T : Before(r, f) => r \in R

FromOn(T, f) == {r \in T : ~Before(r, f)}

LEMMA OpensWindow ==
  ASSUME NEW R, NEW T, NEW f, Opens(R, T, f), NEW rows, ShowsGroups(rows, R)
  PROVE  LET E == {s \in rows : ~Before(s.first, f)}
         IN  /\ ShowsGroups(E, FromOn(R, f))
             /\ {ShownAs(s) : s \in rows \ E} \union GroupsOf(FromOn(T, f)) = GroupsOf(T)
<1> DEFINE E == {s \in rows : ~Before(s.first, f)}
           V == FromOn(R, f)
           U == FromOn(T, f)
<1>1. /\ R \subseteq T /\ Observations(T) /\ Observations(R) /\ f \in FirstsOf(R) /\ f \in R /\ f \in T
      /\ \A r \in T : Before(r, f) => r \in R
  BY DEF Opens, Observations, FirstsOf
<1>2. \A x \in T : ~Before(x, x)
  BY <1>1, BeforeOrders
<1>3. V \subseteq R /\ U \subseteq T /\ f \in V /\ f \in U /\ \A r \in U : ~Before(r, f)
  BY <1>1, <1>2 DEF FromOn
<1>4. f \in FirstsOf(T)
  <2>1. AgreeBefore(R, T, f) /\ f \in R \intersect T /\ Observations(R \union T)
    <3>1. R \union T = T
      BY <1>1
    <3>2. QED
      BY <1>1, <3>1 DEF AgreeBefore
  <2>2. QED
    BY <1>1, <2>1, FirstsBefore
<1>5. PiecesBefore(T, f) = PiecesBefore(R, f)
  <2>1. AgreeBefore(T, R, f) /\ Observations(T \union R)
    <3>1. T \union R = T
      BY <1>1
    <3>2. QED
      BY <1>1, <3>1 DEF AgreeBefore
  <2>2. QED
    BY <1>1, <1>4, <2>1, SameBefore
<1>6. ASSUME NEW S, Observations(S), f \in FirstsOf(S)
      PROVE  PiecesFrom(S, f) = GroupsOf(FromOn(S, f))
  <2> DEFINE W == FromOn(S, f)
  <2>1. /\ S \union W = S /\ f \in S /\ \A r \in W : ~Before(r, f)
        /\ AgreeFrom(S, W, f)
    BY <1>6 DEF FromOn, FirstsOf, AgreeFrom
  <2>2. f \in W /\ f \in FirstsOf(W)
    <3>1. f \in W
      BY <1>6, <2>1, BeforeOrders DEF FromOn
    <3>2. QED
      BY <2>1, <3>1 DEF FirstsOf, NextIn
  <2>3. \A g \in FirstsOf(W) : ~Before(g, f)
    BY <2>1 DEF FirstsOf
  <2> HIDE DEF W
  <2>4. PiecesFrom(S, f) = PiecesFrom(W, f)
    BY <1>6, <2>1, <2>2, SameFrom
  <2>5. PiecesFrom(W, f) = GroupsOf(W)
    BY <2>3 DEF PiecesFrom, GroupsOf
  <2>6. QED
    BY <2>4, <2>5 DEF W
<1>7. PiecesFrom(T, f) = GroupsOf(U) /\ PiecesFrom(R, f) = GroupsOf(V)
  BY <1>1, <1>4, <1>6
<1>8. GroupsOf(T) = PiecesBefore(T, f) \union PiecesFrom(T, f)
  BY DEF GroupsOf, PiecesBefore, PiecesFrom
<1>9. /\ {ShownAs(s) : s \in {s \in rows : ~Before(s.first, f)}} = PiecesFrom(R, f)
      /\ {ShownAs(s) : s \in {s \in rows : Before(s.first, f)}} = PiecesBefore(R, f)
  BY RowsFrom
<1>10. rows \ E = {s \in rows : Before(s.first, f)}
  OBVIOUS
<1>11. QED
  BY <1>5, <1>7, <1>8, <1>9, <1>10 DEF ShowsGroups

\* Finishing changes the end of the last segment only.
FinishedAs(projected, p, now) ==
  /\ Len(projected) = Len(p)
  /\ \A k \in 1..Len(p) :
       /\ projected[k].first = p[k].first /\ projected[k].last = p[k].last
       /\ projected[k].ended = IF k = Len(p) THEN EffectiveEnd(p[k], now) ELSE p[k].ended

LEMMA FinishFields ==
  ASSUME NEW R, \A q \in R : q.observedAt \in Int, NEW p \in Seq(SegmentOf(R)), NEW now
  PROVE  Finish(p, now) \in Seq(SegmentOf(R)) /\ FinishedAs(Finish(p, now), p, now)
<1> DEFINE n == Len(p)
           e == EffectiveEnd(p[n], now)
           s == [p[n] EXCEPT !.ended = e]
           o == [p EXCEPT ![n] = s]
<1>1. CASE p = <<>>
  <2>1. Len(p) = 0 /\ Finish(p, now) = p
    BY <1>1 DEF Finish
  <2>2. QED
    BY <2>1 DEF FinishedAs
<1>2. CASE p # <<>>
  <2>1. n \in Nat /\ n \in 1..n /\ p[n] \in SegmentOf(R) /\ p \in [1..n -> SegmentOf(R)]
    BY <1>2
  <2>2. p[n].last \in R /\ p[n].last.observedAt \in Int /\ p[n].ended \in Int \union {Open}
    BY <2>1 DEF SegmentOf
  <2>3. e \in Int \union {Open}
    BY <2>2 DEF EffectiveEnd
  <2>4. s \in SegmentOf(R) /\ s.first = p[n].first /\ s.last = p[n].last /\ s.ended = e
    <3> HIDE DEF e
    <3>1. QED
      BY <2>1, <2>3 DEF SegmentOf
  <2>5. Finish(p, now) = o
    BY <1>2 DEF Finish
  <2> HIDE DEF n, s, e
  <2>6. o \in [1..n -> SegmentOf(R)] /\ o[n] = s /\ \A k \in 1..n : k # n => o[k] = p[k]
    BY <2>1, <2>4
  <2> HIDE DEF o
  <2>7. o \in Seq(SegmentOf(R)) /\ Len(o) = n
    BY <2>1, <2>6
  <2>8. QED
    BY <2>4, <2>5, <2>6, <2>7 DEF FinishedAs, n, e
<1>3. QED
  BY <1>1, <1>2

\* The first and the last of a batch in order.
LEMMA OrderEnds ==
  ASSUME NEW S, IsFiniteSet(S), Observations(S), S # {}
  PROVE  LET o == MergeOrder(S)
         IN  /\ o[1] \in S /\ Last(o) \in S /\ Last(o).observedAt \in Int /\ o[1].observedAt \in Int
             /\ \A r \in S : /\ r.observedAt <= Last(o).observedAt /\ o[1].observedAt <= r.observedAt
                             /\ r = o[1] \/ Before(o[1], r)
<1> DEFINE o == MergeOrder(S)
<1>1. /\ o \in Seq(S) /\ Len(o) \in Nat /\ ToSet(o) = S
      /\ \A i, j \in DOMAIN o : i < j => Before(o[i], o[j])
  BY MergeOrderSorts
<1> HIDE DEF o
<1>2. DOMAIN o = 1..Len(o) /\ \A r \in S : \E i \in 1..Len(o) : o[i] = r
  BY <1>1 DEF ToSet
<1>3. 1 \in 1..Len(o) /\ Len(o) \in 1..Len(o)
  BY <1>1, <1>2
<1>4. o[1] \in S /\ Last(o) = o[Len(o)] /\ Last(o) \in S
  BY <1>1, <1>3 DEF Last
<1>5. \A r \in S : r.observedAt \in Int
  BY DEF Observations
<1>6. ASSUME NEW r \in S
      PROVE  /\ r.observedAt <= Last(o).observedAt /\ o[1].observedAt <= r.observedAt
             /\ r = o[1] \/ Before(o[1], r)
  <2>1. PICK i \in 1..Len(o) : o[i] = r
    BY <1>2
  <2>2. (i = 1 \/ 1 < i) /\ (i = Len(o) \/ i < Len(o))
    BY <1>1
  <2>3. r = o[1] \/ Before(o[1], r)
    BY <1>2, <1>1, <1>3, <2>1, <2>2
  <2>4. r = Last(o) \/ Before(r, Last(o))
    <3>1. i < Len(o) => Before(o[i], o[Len(o)])
      BY <1>1, <1>2, <1>3, <2>1
    <3>2. QED
      BY <1>4, <2>1, <2>2, <3>1
  <2>5. QED
    BY <1>4, <1>5, <2>3, <2>4, BeforeOrders
<1>7. QED
  BY <1>4, <1>5, <1>6 DEF o

\* The last row of an exact timeline tells the records of its window.
LEMMA SeedTells ==
  ASSUME NEW R, IsFiniteSet(R), Observations(R), NEW rows, ShowsGroups(rows, R),
         NEW row \in rows, row.last.kind = row.first.kind,
         \A s \in rows : s # row => Before(s.first, row.first)
  PROVE  row.first \in FirstsOf(R) /\ Told(<<Seed(row)>>, FromOn(R, row.first))
<1> DEFINE f == row.first
           V == FromOn(R, f)
           s == Seed(row)
           p == <<s>>
<1>1. /\ f \in FirstsOf(R) /\ ShownAs(row) = PieceOf(R, f)
      /\ {ShownAs(x) : x \in rows} = GroupsOf(R)
  BY RowsFrom DEF ShowsGroups
<1>2. /\ \A x \in R : ~Before(x, x)
      /\ \A x, y \in R : Before(x, y) => ~Before(y, x)
  BY BeforeOrders
<1>3. f \in R /\ f \in V /\ V \in SUBSET R /\ Observations(V) /\ IsFiniteSet(V)
  <2>1. f \in R /\ f \in V /\ V \in SUBSET R
    BY <1>1, <1>2 DEF FromOn, FirstsOf
  <2>2. IsFiniteSet(V)
    BY <2>1, FS_Subset
  <2>3. QED
    BY <2>1, <2>2 DEF Observations
<1>4. LaterIn(R, f) = {}
  <2>1. SUFFICES ASSUME NEW g \in LaterIn(R, f) PROVE FALSE
    OBVIOUS
  <2>2. g \in FirstsOf(R) /\ Before(f, g) /\ g \in R
    BY DEF LaterIn, FirstsOf
  <2>3. PICK x \in rows : ShownAs(x) = PieceOf(R, g)
    BY <1>1, <2>2 DEF GroupsOf
  <2>4. x.first = g
    BY <2>3 DEF ShownAs, PieceOf
  <2>5. QED
    BY <1>2, <1>3, <2>2, <2>4
<1>5. V = MembersIn(R, f)
  BY <1>4 DEF FromOn, MembersIn
<1>6. row.last = LastIn(R, f)
  BY <1>1 DEF ShownAs, PieceOf
<1>7. s.first = f /\ s.last = row.last /\ s.ended = Open /\ IsGap(s) = (f.kind = "suspended")
  BY DEF Seed, IsGap
<1>8. /\ row.last \in V
      /\ f.kind = "suspended" => row.last = f
      /\ f.kind # "suspended" => \A q \in V : ~Before(row.last, q)
  <2>1. CASE f.kind = "suspended"
    BY <1>3, <1>6, <2>1 DEF LastIn
  <2>2. CASE f.kind # "suspended"
    BY <1>1, <1>5, <1>6, <2>2, LastOfMembers
  <2>3. QED
    BY <2>1, <2>2
<1>9. f.kind = "suspended" => \A q \in V : q.kind = "suspended"
  BY <1>1, <1>4, BetweenFirsts DEF FromOn
<1>10. FirstsOf(V) = {f}
  <2>1. f \in FirstsOf(V)
    BY <1>3 DEF FirstsOf, NextIn, FromOn
  <2>2. AgreeFrom(R, V, f) /\ AgreeFrom(V, R, f) /\ R \union V = R /\ V \union R = R
    BY <1>3 DEF AgreeFrom, FromOn
  <2>3. ASSUME NEW g \in FirstsOf(V) PROVE g = f
    <3>1. ~Before(g, f) /\ g \in V
      BY DEF FirstsOf, FromOn
    <3>2. g \in FirstsOf(R)
      BY <1>1, <2>1, <2>2, <3>1, FirstsFrom
    <3>3. ~Before(f, g)
      BY <1>4, <3>2 DEF LaterIn
    <3>4. QED
      BY <1>3, <3>1, <3>3, BeforeOrders
  <2>4. QED
    BY <2>1, <2>3
<1> HIDE DEF V, f, s
<1>11. s \in SegmentOf(V)
  BY <1>3, <1>7, <1>8 DEF SegmentOf, Seed, s
<1>12. p \in Seq(SegmentOf(V)) /\ Len(p) = 1 /\ p[1] = s /\ p # <<>>
  BY <1>11
<1>13. V # {} /\ \E z \in V : \A q \in V : ~Before(z, q)
  BY <1>3, FirstAndLast
<1> HIDE DEF p
<1>14. \A k \in 1..Len(p) : k = 1 /\ k = Len(p) /\ p[k] = s
  BY <1>12
<1>15. KindsTold(p)
  <2>1. ~Before(row.last, f)
    BY <1>8 DEF V, FromOn
  <2>2. s.last.kind = s.first.kind /\ ~Before(s.last, s.first) /\ (IsGap(s) => s.last = s.first)
    BY <1>7, <1>8, <2>1 DEF f
  <2>3. QED
    BY <1>14, <2>2 DEF KindsTold
<1>16. OrderTold(p) /\ EndsTold(p) /\ StartsTold(p, V)
  <2>1. 1..(1 - 1) = {} /\ \A k \in 1..1 : k = 1
    OBVIOUS
  <2>2. QED
    BY <1>7, <1>10, <1>12, <2>1 DEF OrderTold, EndsTold, StartsTold
<1>17. LastsTold(p, V) /\ GapTold(p, V)
  <2>1. ~IsGap(s) => \A q \in V : ~Before(s.last, q)
    BY <1>7, <1>8
  <2>2. IsGap(s) => \A q \in V : q.kind = "suspended"
    BY <1>7, <1>9
  <2>3. QED
    BY <1>12, <1>14, <2>1, <2>2 DEF LastsTold, GapTold
<1>18. QED
  BY <1>1, <1>12, <1>13, <1>15, <1>16, <1>17 DEF Told, p, s, V, f

\* Appending the records that are after all others keeps the rows exact.
LEMMA AppendExact ==
  ASSUME NEW adopted, IsFiniteSet(records), IsFiniteSet(adopted), adopted # {},
         records \intersect adopted = {}, Observations(records \union adopted),
         NEW rows, RowsOK(rows, records), rows # {}, ShowsGroups(rows, Seen(records)),
         NEW now \in Clock, \A r \in records : Before(r, MergeOrder(adopted)[1])
  PROVE  ShowsGroups(AppendTo(rows, MergeOrder(adopted), now), Seen(records \union adopted))
<1> DEFINE ordered == MergeOrder(adopted)
           lastRow == Last(Rows(rows))
           f == lastRow.first
           p == Project(<<Seed(lastRow)>>, ordered)
           projected == Finish(p, now)
           existing == <<lastRow>>
           t == Last(ordered).observedAt
           E == {s \in rows : ~Before(s.first, f)}
<1>1. PICK S : S = records
  OBVIOUS
<1>2. PICK R : R = S \union adopted
  OBVIOUS
<1> DEFINE V == FromOn(Seen(S), f)
           U == FromOn(Seen(R), f)
<1>3. /\ Observations(S) /\ Observations(adopted) /\ Observations(R) /\ Observations(Seen(S))
      /\ IsFiniteSet(S) /\ IsFiniteSet(R) /\ IsFiniteSet(Seen(S))
      /\ \A q \in R : q.observedAt \in Int
  <2>1. IsFiniteSet(S) /\ IsFiniteSet(R)
    BY <1>1, <1>2, FS_Union
  <2>2. IsFiniteSet(Seen(S)) /\ Seen(S) \subseteq S
    BY <2>1, FS_Subset DEF Seen
  <2>3. QED
    BY <1>1, <1>2, <2>1, <2>2 DEF Observations
<1>4. /\ RowsOK(rows, S) /\ ShowsGroups(rows, Seen(S)) /\ RowsOK(rows, R)
      /\ S \intersect adopted = {}
  BY <1>1, <1>2, RowsOfMore
<1>5. /\ lastRow \in rows /\ lastRow.first \in S
      /\ \A s \in rows : s # lastRow => Before(s.first, lastRow.first)
  BY <1>3, <1>4, LastOfRows
<1>6. \A r \in S, q \in adopted : Before(r, q)
  <2>1. ordered[1] \in adopted /\ \A q \in adopted : q = ordered[1] \/ Before(ordered[1], q)
    BY <1>3, OrderEnds
  <2>2. \A r \in S : Before(r, ordered[1])
    BY <1>1
  <2> HIDE DEF ordered
  <2>3. \A x, y, z \in R : Before(x, y) /\ Before(y, z) => Before(x, z)
    BY <1>3, BeforeOrders
  <2>4. S \subseteq R /\ adopted \subseteq R
    BY <1>2
  <2>5. QED
    BY <2>1, <2>2, <2>3, <2>4
<1>7. t \in Int /\ \A r \in adopted : r.observedAt <= t
  BY <1>3, OrderEnds
<1>8. AppendTo(rows, ordered, now) = Replace(rows, projected, existing, t)
  BY DEF AppendTo
<1> HIDE DEF ordered, t, lastRow, p
<1>9. f \in FirstsOf(Seen(S)) /\ Told(<<Seed(lastRow)>>, V)
  <2>1. lastRow.last.kind = lastRow.first.kind
    BY <1>4, <1>5 DEF RowsOK, Shape
  <2>2. QED
    BY <1>3, <1>4, <1>5, <2>1, SeedTells
<1>10. U = V \union Seen(adopted) /\ V \subseteq S /\ U \subseteq R /\ V \subseteq U
  <2>1. \A q \in adopted : ~Before(q, f)
    BY <1>2, <1>3, <1>5, <1>6, BeforeOrders
  <2>2. QED
    BY <1>2, <2>1 DEF FromOn, Seen
<1>11. Told(p, U)
  <2>1. Observations(V \union adopted)
    BY <1>2, <1>3, <1>10 DEF Observations
  <2>2. \A q \in V, r \in adopted : Before(q, r)
    BY <1>6, <1>10
  <2> DEFINE s == <<Seed(lastRow)>>
  <2>3. Told(s, V) /\ p = Project(s, MergeOrder(adopted))
    BY <1>9 DEF p, ordered
  <2> HIDE DEF V, U, s
  <2>4. QED
    BY <1>10, <2>1, <2>2, <2>3, FoldGoesOn
<1>12. /\ ShowsGroups(E, V)
       /\ {ShownAs(s) : s \in rows \ E} \union GroupsOf(U) = GroupsOf(Seen(R))
  <2>1. Opens(Seen(S), Seen(R), f)
    <3>1. Seen(S) \subseteq Seen(R) /\ Seen(R) \in SUBSET R
      BY <1>2 DEF Seen
    <3>2. IsFiniteSet(Seen(R)) /\ Observations(Seen(R))
      BY <1>3, <3>1, FS_Subset DEF Observations
    <3>3. ASSUME NEW r \in Seen(R), Before(r, f) PROVE r \in Seen(S)
      <4>1. r \notin adopted
        BY <1>2, <1>3, <1>5, <1>6, <3>3, BeforeOrders
      <4>2. QED
        BY <1>2, <4>1 DEF Seen
    <3>4. QED
      BY <1>9, <3>1, <3>2, <3>3 DEF Opens
  <2>2. QED
    BY <1>4, <2>1, OpensWindow
<1>13. E = {lastRow}
  <2>1. ~Before(f, f)
    BY <1>3, <1>5, BeforeOrders
  <2>2. QED
    BY <1>5, <2>1
<1>14. projected \in Seq(SegmentOf(R)) /\ FinishedAs(projected, p, now)
  <2>1. p \in Seq(SegmentOf(R))
    <3>1. SegmentOf(U) \subseteq SegmentOf(R)
      BY <1>10 DEF SegmentOf
    <3>2. p \in Seq(SegmentOf(U))
      BY <1>11 DEF Told
    <3> HIDE DEF U
    <3>3. QED
      BY <3>1, <3>2
  <2>2. QED
    BY <1>3, <2>1, FinishFields
<1>15. existing \in Seq(rows) /\ ToSet(existing) = E /\ Len(existing) = 1
  BY <1>5, <1>13 DEF ToSet
<1>16. IsFiniteSet(U) /\ \A r \in U \ V : r.observedAt <= t
  <2>1. U \in SUBSET R
    BY <1>10
  <2>2. Seen(adopted) \subseteq adopted
    BY DEF Seen
  <2>3. QED
    BY <1>3, <1>7, <1>10, <2>1, <2>2, FS_Subset
<1>17. E \subseteq rows
  OBVIOUS
<1> HIDE DEF U, V, E, projected, existing, f
<1>18. Splices(R, rows, E, V, U, p, projected, existing, t, now)
  <2>1. Len(projected) = Len(p) /\ Len(p) \in Nat
    BY <1>11, <1>14 DEF FinishedAs, Told
  <2>2. \A k, l \in 1..Len(existing) : ~(k < l)
    BY <1>15
  <2>3. \A k \in 1..Len(projected) :
          /\ projected[k].first = p[k].first /\ projected[k].last = p[k].last
          /\ projected[k].ended = IF k = Len(p) THEN EffectiveEnd(p[k], now) ELSE p[k].ended
    BY <1>14 DEF FinishedAs
  <2>4. Len(projected) <= Len(p)
    BY <2>1
  <2>5. QED
    BY <1>3, <1>4, <1>7, <1>10, <1>11, <1>12, <1>14, <1>15, <1>16, <1>17, <2>1, <2>2, <2>3, <2>4 DEF Splices
<1>19. {ShownAs(s) : s \in Replace(rows, projected, existing, t)} =
         {ShownAs(s) : s \in rows \ E} \union GroupsOf(U)
  BY <1>18, WindowReplaced
<1>20. QED
  BY <1>1, <1>2, <1>8, <1>12, <1>19 DEF ShowsGroups, ordered

\* Where a replay starts: the rows of its window show the old records of it, and with those
\* before it the new grouping is whole.
Window(S, R, rows, start) ==
  LET E == {s \in rows : Start(s) >= start}
      V == {r \in Seen(S) : r.observedAt >= start}
      U == Seen({r \in R : r.observedAt >= start})
  IN  /\ start \in Int
      /\ ShowsGroups(E, V)
      /\ {ShownAs(s) : s \in rows \ E} \union GroupsOf(U) = GroupsOf(Seen(R))

LEMMA FirstStarts ==
  ASSUME NEW R, IsFiniteSet(R), Observations(R), StartsAreCuts(R),
         NEW f \in FirstsOf(Seen(R)), NEW q \in R, q.kind # "active", q.observedAt = f.observedAt
  PROVE  \E g \in FirstsOf(Seen(R)) : g.observedAt = q.observedAt /\ (g = q \/ Before(g, q))
<1> DEFINE p == FullReplay(R)
<1>1. FirstsOf(Seen(R)) = {p[k].first : k \in 1..Len(p)} /\ DOMAIN p = 1..Len(p)
  <2>1. Told(p, Seen(R))
    BY FoldTells
  <2> HIDE DEF p
  <2>2. DOMAIN p = 1..Len(p)
    BY <2>1, ToldTyped
  <2>3. QED
    BY <2>1, <2>2 DEF Told, StartsTold
<1> HIDE DEF p
<1>2. {s.first : s \in ToSet(p)} = FirstsOf(Seen(R))
  BY <1>1 DEF ToSet
<1>3. QED
  BY <1>2 DEF StartsAreCuts, p

LEMMA ReplayFromRow ==
  ASSUME NEW S, NEW adopted, NEW R, R = S \union adopted, IsFiniteSet(R), Observations(R),
         StartsAreCuts(S), NEW rows, ShowsGroups(rows, Seen(S)),
         NEW t \in Int, \A r \in adopted : t <= r.observedAt,
         NEW start \in Int, start < t, NEW s \in rows, Start(s) = start
  PROVE  Window(S, R, rows, start)
<1> DEFINE E == {x \in rows : Start(x) >= start}
           V == {r \in Seen(S) : r.observedAt >= start}
           U == Seen({r \in R : r.observedAt >= start})
           Q == {r \in Seen(R) : r.observedAt >= start}
<1>1. /\ Seen(S) \in SUBSET S /\ Seen(R) \in SUBSET R /\ Seen(S) \subseteq Seen(R)
      /\ IsFiniteSet(S) /\ Observations(S)
      /\ IsFiniteSet(Seen(R)) /\ Observations(Seen(R))
  <2>1. Seen(S) \in SUBSET S /\ Seen(R) \in SUBSET R /\ Seen(S) \subseteq Seen(R) /\ S \in SUBSET R
    BY DEF Seen
  <2>2. IsFiniteSet(S) /\ IsFiniteSet(Seen(R))
    BY <2>1, FS_Subset
  <2>3. QED
    BY <2>1, <2>2 DEF Observations
<1>2. /\ \A r \in Seen(R) : r.observedAt \in Int
      /\ \A r \in Seen(R) : r.observedAt < t => r \in Seen(S)
  <2>1. \A r \in adopted : r.observedAt \in Int
    BY DEF Observations
  <2>2. \A r \in adopted : ~(r.observedAt < t)
    BY <2>1
  <2>3. QED
    BY <1>1, <2>2 DEF Observations, Seen
<1>3. /\ \A x, y \in Seen(R) : x # y => Before(x, y) \/ Before(y, x)
      /\ \A x, y \in Seen(R) : Before(x, y) => x.observedAt <= y.observedAt
  BY <1>1, BeforeOrders
<1>4. \A x \in rows : x.first \in FirstsOf(Seen(S)) /\ x.first \in Seen(R)
  <2>1. \A x \in rows : x.first \in FirstsOf(Seen(S))
    BY RowsFrom
  <2>2. FirstsOf(Seen(S)) \subseteq Seen(S)
    BY DEF FirstsOf
  <2>3. QED
    BY <1>1, <2>1, <2>2
<1> DEFINE h == s.first
<1>5. h \in Seen(R) /\ h \in FirstsOf(Seen(S)) /\ h.observedAt = start
  BY <1>4 DEF Start
<1>6. h \in Q
  BY <1>5
<1> HIDE DEF h
<1>7. PICK f \in Q : \A x \in Q : ~Before(x, f)
  <2>1. Q \in SUBSET Seen(R) /\ Q # {}
    BY <1>6
  <2> HIDE DEF Q
  <2>2. QED
    BY <1>1, <2>1, FirstAndLast
<1>8. f \in Seen(R) /\ f.observedAt >= start /\ f.observedAt \in Int
  BY <1>2, <1>7
<1>9. f.observedAt = start
  <2>1. f = h \/ Before(f, h)
    BY <1>3, <1>5, <1>6, <1>7, <1>8
  <2>2. f.observedAt <= h.observedAt
    BY <1>3, <1>5, <1>8, <2>1
  <2>3. QED
    BY <1>5, <1>8, <2>2
<1>10. f \in Seen(S)
  BY <1>2, <1>8, <1>9
<1>11. f \in FirstsOf(Seen(S))
  <2>1. f \in S /\ f.kind # "active" /\ f.observedAt = h.observedAt
    BY <1>5, <1>9, <1>10 DEF Seen
  <2>2. PICK g \in FirstsOf(Seen(S)) : g.observedAt = f.observedAt /\ (g = f \/ Before(g, f))
    BY <1>1, <1>5, <2>1, FirstStarts
  <2>3. g \in Seen(R)
    BY <1>1 DEF FirstsOf
  <2>4. g \in Q
    BY <1>8, <2>2, <2>3
  <2>5. QED
    BY <1>7, <2>2, <2>4
<1>12. \A r \in Seen(R) : r.observedAt >= start <=> ~Before(r, f)
  <2>1. \A r \in Seen(R) : r.observedAt >= start => ~Before(r, f)
    BY <1>7
  <2>2. ASSUME NEW r \in Seen(R), ~Before(r, f) PROVE f.observedAt <= r.observedAt
    <3>1. CASE r = f
      BY <1>8, <3>1
    <3>2. CASE r # f
      BY <1>3, <1>8, <2>2, <3>2
    <3>3. QED
      BY <3>1, <3>2
  <2>3. QED
    BY <1>2, <1>9, <2>1, <2>2
<1>13. Opens(Seen(S), Seen(R), f)
  <2>1. ASSUME NEW r \in Seen(R), Before(r, f) PROVE r \in Seen(S)
    <3>1. r.observedAt \in Int /\ ~(r.observedAt >= start)
      BY <1>2, <1>12, <2>1
    <3>2. r.observedAt < t
      BY <3>1
    <3>3. QED
      BY <1>2, <3>2
  <2>2. QED
    BY <1>1, <1>11, <2>1 DEF Opens
<1>14. /\ ShowsGroups({x \in rows : ~Before(x.first, f)}, FromOn(Seen(S), f))
       /\ {ShownAs(x) : x \in rows \ {x \in rows : ~Before(x.first, f)}} \union GroupsOf(FromOn(Seen(R), f)) =
            GroupsOf(Seen(R))
  BY <1>13, OpensWindow
<1>15. E = {x \in rows : ~Before(x.first, f)}
  BY <1>4, <1>12 DEF Start
<1>16. V = FromOn(Seen(S), f) /\ U = FromOn(Seen(R), f)
  <2>1. V = FromOn(Seen(S), f)
    BY <1>1, <1>12 DEF FromOn
  <2>2. U = Q
    BY DEF Seen
  <2>3. Q = FromOn(Seen(R), f)
    BY <1>12 DEF FromOn
  <2>4. QED
    BY <2>1, <2>2, <2>3
<1> HIDE DEF E, V, U
<1>17. ShowsGroups(E, V) /\ {ShownAs(x) : x \in rows \ E} \union GroupsOf(U) = GroupsOf(Seen(R))
  BY <1>14, <1>15, <1>16
<1>18. QED
  BY <1>17 DEF Window, E, V, U

\* A replay starts at the instant at which a segment starts, or at the new record's.
LEMMA ReplayStarts ==
  ASSUME NEW S, Observations(S), NEW rows, IsFiniteSet(rows), rows \subseteq Row(S), NEW t \in Int
  PROVE  LET start == ReplayStart(rows, t)
         IN  /\ start \in Int /\ start <= t
             /\ {s \in rows : Start(s) < t} # {} => start < t /\ \E s \in rows : Start(s) = start
<1> DEFINE start == ReplayStart(rows, t)
           early == {s \in rows : Start(s) < t}
           starts == {Start(s) : s \in early}
<1>1. \A s \in rows : Start(s) \in Int
  BY DEF Row, Observations, Start
<1>2. CASE early = {}
  <2>1. starts = {}
    BY <1>2
  <2>2. QED
    BY <1>2, <2>1 DEF ReplayStart
<1>3. CASE early # {}
  <2>1. starts # {} /\ starts \subseteq Int /\ \A x \in starts : x < t
    BY <1>1, <1>3
  <2>2. start = Max(starts)
    BY <2>1 DEF ReplayStart
  <2>3. IsFiniteSet(starts)
    <3> DEFINE f == [s \in early |-> Start(s)]
    <3>1. early \in SUBSET rows
      OBVIOUS
    <3>2. f \in [early -> starts] /\ \A x \in starts : \E s \in early : f[s] = x
      OBVIOUS
    <3> HIDE DEF early, starts, f
    <3>3. IsFiniteSet(early)
      BY <3>1, FS_Subset
    <3>4. f \in Surjection(early, starts)
      BY <3>2 DEF Surjection
    <3>5. QED
      BY <3>3, <3>4, FS_Surjection
  <2>4. \A x \in starts : \E s \in rows : Start(s) = x
    OBVIOUS
  <2> HIDE DEF starts, start
  <2>5. PICK m \in starts : \A x \in starts : x <= m
    BY <2>1, <2>3, GreatestOf
  <2>6. Max(starts) \in starts
    <3>1. \A n, x \in starts : n >= x <=> x <= n
      BY <2>1
    <3>2. QED
      BY <2>5, <3>1 DEF Max
  <2>7. start \in Int /\ start < t /\ \E s \in rows : Start(s) = start
    BY <2>1, <2>2, <2>4, <2>6
  <2>8. QED
    BY <2>7 DEF start
<1>4. QED
  BY <1>2, <1>3

LEMMA ReplayWindow ==
  ASSUME NEW S, NEW adopted, NEW R, R = S \union adopted, IsFiniteSet(R), Observations(R),
         StartsAreCuts(S),
         NEW rows, IsFiniteSet(rows), ShowsGroups(rows, Seen(S)), rows \subseteq Row(S),
         NEW t \in Int, \A r \in adopted : t <= r.observedAt
  PROVE  Window(S, R, rows, ReplayStart(rows, t)) /\ ReplayStart(rows, t) <= t
<1> DEFINE start == ReplayStart(rows, t)
           early == {s \in rows : Start(s) < t}
           E == {s \in rows : Start(s) >= start}
           V == {r \in Seen(S) : r.observedAt >= start}
           U == Seen({r \in R : r.observedAt >= start})
<1>1. /\ Seen(S) \in SUBSET S /\ Seen(R) \in SUBSET R /\ Seen(S) \subseteq Seen(R)
      /\ IsFiniteSet(S) /\ Observations(S) /\ S \subseteq R /\ IsFiniteSet(Seen(S)) /\ Observations(Seen(S))
      /\ IsFiniteSet(Seen(R)) /\ Observations(Seen(R))
      /\ \A r \in R : r.observedAt \in Int
      /\ \A r \in Seen(R) : r \in Seen(S) \/ r \in adopted
  <2>1. Seen(S) \in SUBSET S /\ Seen(R) \in SUBSET R /\ Seen(S) \subseteq Seen(R) /\ S \subseteq R
    BY DEF Seen
  <2>2. IsFiniteSet(S) /\ IsFiniteSet(Seen(R)) /\ IsFiniteSet(Seen(S))
    BY <2>1, FS_Subset
  <2>3. \A r \in Seen(R) : r \in Seen(S) \/ r \in adopted
    BY DEF Seen
  <2>4. QED
    BY <2>1, <2>2, <2>3 DEF Observations
<1>2. /\ \A x, y \in R : x # y => Before(x, y) \/ Before(y, x)
      /\ \A x, y \in R : Before(x, y) => ~Before(y, x) /\ x.observedAt <= y.observedAt
  BY BeforeOrders
<1>3. \A s \in rows : s.first \in FirstsOf(Seen(S)) /\ s.first \in Seen(S) /\ s.first.observedAt \in Int
  <2>1. \A s \in rows : s.first \in FirstsOf(Seen(S))
    BY RowsFrom
  <2>2. FirstsOf(Seen(S)) \subseteq Seen(S)
    BY DEF FirstsOf
  <2>3. QED
    BY <1>1, <2>1, <2>2
<1>4. CASE early = {}
  <2>1. start = t
    <3>1. {Start(s) : s \in early} = {}
      BY <1>4
    <3>2. QED
      BY <3>1 DEF ReplayStart
  <2>2. E = rows
    BY <1>3, <1>4, <2>1 DEF Start
  <2>3. ASSUME NEW r \in Seen(S) PROVE t <= r.observedAt
    <3>1. PICK m \in Seen(S) : \A x \in Seen(S) : ~Before(x, m)
      BY <1>1, FirstAndLast
    <3>2. m \in FirstsOf(Seen(S))
      BY <3>1 DEF FirstsOf, NextIn
    <3>3. PieceOf(Seen(S), m) \in {ShownAs(s) : s \in rows}
      BY <3>2 DEF ShowsGroups, GroupsOf
    <3>4. PICK s \in rows : s.first = m
      BY <3>3 DEF ShownAs, PieceOf
    <3>5. t <= m.observedAt
      BY <1>3, <1>4, <3>4 DEF Start
    <3>6. m.observedAt <= r.observedAt
      BY <1>1, <1>2, <3>1
    <3>7. QED
      BY <1>1, <3>5, <3>6
  <2>4. V = Seen(S)
    BY <2>1, <2>3, <1>1
  <2>5. U = Seen(R)
    <3>1. \A r \in Seen(R) : r.observedAt >= t
      BY <1>1, <2>3
    <3>2. QED
      BY <2>1, <3>1 DEF Seen
  <2>6. rows \ E = {}
    BY <2>2
  <2> HIDE DEF start, E, V, U
  <2>7. {ShownAs(s) : s \in rows \ E} \union GroupsOf(U) = GroupsOf(Seen(R))
    BY <2>5, <2>6
  <2>8. ShowsGroups(E, V)
    BY <2>2, <2>4
  <2>9. Window(S, R, rows, start)
    BY <2>1, <2>7, <2>8 DEF Window, E, V, U
  <2>10. QED
    BY <2>1, <2>9 DEF start
<1>5. CASE early # {}
  <2>1. start \in Int /\ start < t /\ \E s \in rows : Start(s) = start
    BY <1>1, <1>5, ReplayStarts
  <2>2. PICK s \in rows : Start(s) = start
    BY <2>1
  <2> HIDE DEF start
  <2>3. Window(S, R, rows, start)
    BY <2>1, <2>2, ReplayFromRow
  <2>4. QED
    BY <2>1, <2>3 DEF start
<1>6. QED
  BY <1>4, <1>5

\* Replacing the rows of a window by the segments of its replay, or by those up to one that
\* stands among the rows, keeps the rows exact.
Held(rows, start, through) ==
  {s \in rows : Start(s) >= start /\ (through = Open \/ Start(s) <= through)}

Stops(rows, start, projected, through, t) ==
  /\ through \in Int
  /\ \A k \in 1..Len(projected) : projected[k].first.observedAt <= through
  /\ \E k \in 1..Len(projected), row \in rows :
       /\ SameAs(projected[k], row) /\ Reaches(projected[k], t)
       /\ Start(row) >= start /\ Start(row) <= through

Replays(R, rows, start, F, p, projected, through, t, now) ==
  /\ Told(p, Seen(F)) /\ projected \in Seq(SegmentOf(R)) /\ Len(projected) <= Len(p)
  /\ \A k \in 1..Len(projected) :
       /\ projected[k].first = p[k].first /\ projected[k].last = p[k].last
       /\ projected[k].ended = IF k = Len(p) THEN EffectiveEnd(p[k], now) ELSE p[k].ended
  /\ IF Len(projected) = Len(p) THEN through = Open ELSE Stops(rows, start, projected, through, t)

LEMMA ReplaySplices ==
  ASSUME NEW S, NEW adopted, NEW R, R = S \union adopted, IsFiniteSet(R), Observations(R),
         NEW rows, RowsOK(rows, S), NEW now \in Clock, NEW t \in Int,
         \A r \in adopted : r.observedAt <= t,
         NEW start, Window(S, R, rows, start), NEW F, F = {r \in R : r.observedAt >= start},
         NEW p, NEW projected, NEW through,
         Replays(R, rows, start, F, p, projected, through, t, now)
  PROVE  ShowsGroups(Replace(rows, projected, Rows(Held(rows, start, through)), t), Seen(R))
<1> DEFINE E == {s \in rows : Start(s) >= start}
           V == {r \in Seen(S) : r.observedAt >= start}
           U == Seen({r \in R : r.observedAt >= start})
           H == Held(rows, start, through)
           existing == Rows(H)
<1>1. /\ start \in Int /\ ShowsGroups(E, V) /\ E \subseteq rows
      /\ {ShownAs(s) : s \in rows \ E} \union GroupsOf(U) = GroupsOf(Seen(R))
  BY DEF Window
<1>2. RowsOK(rows, R) /\ \A s \in rows : s.first \in R /\ Start(s) \in Int
  <2>1. RowsOK(rows, R)
    BY RowsOfMore
  <2>2. \A s \in rows : s.first \in R
    BY <2>1 DEF RowsOK, Row
  <2>3. QED
    BY <2>1, <2>2 DEF Observations, Start
<1>3. /\ U = Seen(F) /\ U \in SUBSET R /\ V \subseteq U /\ IsFiniteSet(U)
      /\ \A r \in U \ V : r.observedAt <= t
  <2>1. U = Seen(F) /\ U \in SUBSET R /\ V \subseteq U /\ \A r \in U \ V : r \in adopted
    BY DEF Seen
  <2>2. IsFiniteSet(U)
    BY <2>1, FS_Subset
  <2>3. QED
    BY <2>1, <2>2
<1>4. H \in SUBSET E
  BY DEF Held
<1>5. /\ existing \in Seq(rows) /\ ToSet(existing) = H
      /\ \A k, l \in 1..Len(existing) : k < l => Before(existing[k].first, existing[l].first)
      /\ DOMAIN existing = 1..Len(existing)
  <2>1. H \in SUBSET rows
    BY <1>4
  <2> HIDE DEF H
  <2>2. existing \in Seq(rows) /\ ToSet(existing) = H
        /\ \A k, l \in 1..Len(existing) : k < l => Before(existing[k].first, existing[l].first)
    BY <1>2, <2>1, RowsInOrder
  <2> HIDE DEF existing
  <2>3. QED
    BY <2>2
<1> HIDE DEF E, V, U, existing
<1>6. Told(p, U) /\ Len(p) \in Nat /\ Len(projected) \in Nat
  <2>1. \A X : projected \in Seq(X) => Len(projected) \in Nat
    OBVIOUS
  <2>2. QED
    BY <1>3, <2>1, ToldTyped DEF Replays
<1>7. \A k \in 1..Len(projected) : projected[k].first \in R
  <2>1. \A k \in 1..Len(projected) : k \in 1..Len(p)
    BY <1>6 DEF Replays
  <2>2. \A k \in 1..Len(p) : p[k].first \in U
    BY <1>6, ToldTyped
  <2>3. QED
    BY <1>3, <2>1, <2>2 DEF Replays
<1>8. ASSUME NEW row \in E, row \notin ToSet(existing), NEW k \in 1..Len(projected)
      PROVE  Before(projected[k].first, row.first)
  <2>1. row \in rows /\ Start(row) >= start /\ ~(through = Open \/ Start(row) <= through)
    BY <1>5, <1>8 DEF E, Held
  <2>2. through \in Int /\ projected[k].first.observedAt <= through
    BY <1>8, <2>1 DEF Replays, Stops
  <2>3. projected[k].first.observedAt \in Int /\ row.first.observedAt \in Int
    BY <1>2, <1>7, <1>8, <2>1 DEF Observations
  <2>4. projected[k].first.observedAt < row.first.observedAt
    BY <2>1, <2>2, <2>3 DEF Start
  <2>5. QED
    BY <2>4 DEF Before
<1>9. ASSUME Splices(R, rows, E, V, U, p, projected, existing, t, now)
      PROVE  ShowsGroups(Replace(rows, projected, Rows(Held(rows, start, through)), t), Seen(R))
  <2>1. {ShownAs(s) : s \in Replace(rows, projected, existing, t)} =
          {ShownAs(s) : s \in rows \ E} \union GroupsOf(U)
    BY <1>9, WindowReplaced
  <2>2. ShowsGroups(Replace(rows, projected, existing, t), Seen(R))
    BY <1>1, <2>1 DEF ShowsGroups
  <2>3. QED
    BY <2>2 DEF existing
<1>10. CASE Len(projected) = Len(p)
  <2>1. H = E
    BY <1>10 DEF Replays, Held, E
  <2>2. Splices(R, rows, E, V, U, p, projected, existing, t, now)
    BY <1>1, <1>2, <1>3, <1>5, <1>6, <1>8, <1>10, <2>1 DEF Splices, Replays
  <2>3. QED
    BY <2>2, <1>9
<1>11. CASE Len(projected) # Len(p)
  <2>1. PICK k \in 1..Len(projected), row \in rows :
          /\ SameAs(projected[k], row) /\ Reaches(projected[k], t)
          /\ Start(row) >= start /\ Start(row) <= through
    BY <1>11 DEF Replays, Stops
  <2>2. row \in ToSet(existing)
    BY <1>5, <2>1 DEF Held
  <2>3. PICK m \in 1..Len(existing) : existing[m] = row
    BY <1>5, <2>2 DEF ToSet
  <2>4. \E i \in 1..Len(projected), j \in 1..Len(existing) :
          Reaches(projected[i], t) /\ SameAs(projected[i], existing[j])
    BY <2>1, <2>3
  <2>5. Splices(R, rows, E, V, U, p, projected, existing, t, now)
    BY <1>1, <1>2, <1>3, <1>4, <1>5, <1>6, <1>8, <1>11, <2>4 DEF Splices, Replays
  <2>6. QED
    BY <2>5, <1>9
<1>12. QED
  BY <1>10, <1>11

\* A replay is a replacement of the rows from its start on, or of those up to one at which it
\* may stop, by what the fold of the records from its start on tells.
LEMMA ReplayReplaces ==
  ASSUME NEW adopted, IsFiniteSet(records), IsFiniteSet(adopted), adopted # {},
         Observations(records \union adopted), NEW rows, RowsOK(rows, records), NEW now
  PROVE  LET R == records \union adopted
             ordered == MergeOrder(adopted)
             t == Last(ordered).observedAt
             start == ReplayStart(rows, ordered[1].observedAt)
         IN  /\ start \in Int /\ t \in Int /\ ordered[1].observedAt \in Int
             /\ \A r \in adopted : r.observedAt <= t /\ ordered[1].observedAt <= r.observedAt
             /\ \E p, projected, through :
                  /\ Replays(R, rows, start, {r \in R : r.observedAt >= start}, p, projected, through, t, now)
                  /\ ReplayOn(rows, ordered, now) = Replace(rows, projected, Rows(Held(rows, start, through)), t)
<1> DEFINE ordered == MergeOrder(adopted)
           t == Last(ordered).observedAt
           start == ReplayStart(rows, ordered[1].observedAt)
           F == {r \in records \union ToSet(ordered) : r.observedAt >= start}
           source == MergeOrder(F)
           fed == Fed(<<>>, source)
           closed(n) == fed[n][Len(fed[n]) - 1]
           Converged(n) ==
             /\ Len(fed[n]) > Len(fed[n - 1]) /\ Len(fed[n]) > 1
             /\ ToSet(ordered) \subseteq {source[i] : i \in 1..n}
             /\ Reaches(closed(n), t)
             /\ \E row \in rows : SameAs(closed(n), row)
           conv == [i \in 1..Len(source) |-> Converged(i)]
           n == SelectInSeq(conv, LAMBDA c : c)
<1>1. PICK R : R = records \union adopted
  OBVIOUS
<1> DEFINE Done == \E p, projected, through :
             /\ Replays(R, rows, start, {r \in R : r.observedAt >= start}, p, projected, through, t, now)
             /\ ReplayOn(rows, ordered, now) = Replace(rows, projected, Rows(Held(rows, start, through)), t)
<1>2. ReplayOn(rows, ordered, now) =
        IF n # 0
          THEN Replace(rows, Front(fed[n]), Rows(Held(rows, start, Start(closed(n)))), t)
          ELSE Replace(rows, Finish(fed[Len(source)], now), Rows(Held(rows, start, Open)), t)
  BY Zenon DEF ReplayOn, Held
<1>3. PICK S : S = records
  OBVIOUS
<1>4. /\ Observations(R) /\ R = S \union adopted /\ IsFiniteSet(R)
      /\ Observations(adopted) /\ \A q \in R : q.observedAt \in Int
      /\ RowsOK(rows, S)
  <2>1. IsFiniteSet(R)
    BY <1>1, FS_Union
  <2>2. QED
    BY <1>1, <1>3, <2>1 DEF Observations
<1>5. /\ ToSet(ordered) = adopted
      /\ t \in Int /\ ordered[1].observedAt \in Int
      /\ \A r \in adopted : r.observedAt <= t /\ ordered[1].observedAt <= r.observedAt
  <2>1. ToSet(ordered) = adopted
    BY <1>4, MergeOrderSorts
  <2>2. QED
    BY <1>4, <2>1, OrderEnds
<1> HIDE DEF ordered, t
<1>6. start \in Int
  <2>1. IsFiniteSet(rows) /\ rows \subseteq Row(S)
    BY <1>4 DEF RowsOK
  <2> DEFINE t0 == ordered[1].observedAt
  <2>2. t0 \in Int /\ Observations(S)
    BY <1>4, <1>5 DEF Observations
  <2> HIDE DEF t0
  <2>3. ReplayStart(rows, t0) \in Int
    BY <2>1, <2>2, ReplayStarts
  <2>4. QED
    BY <2>3 DEF t0
<1> HIDE DEF start
<1>7. F = {r \in R : r.observedAt >= start} /\ F \in SUBSET R /\ IsFiniteSet(F) /\ Observations(F)
  <2>1. F = {r \in R : r.observedAt >= start} /\ F \in SUBSET R
    BY <1>1, <1>5
  <2> HIDE DEF F
  <2>2. IsFiniteSet(F)
    BY <1>4, <2>1, FS_Subset
  <2>3. QED
    BY <1>4, <2>1, <2>2 DEF Observations
<1> HIDE DEF F
<1>8. source \in Seq(R) /\ Len(source) \in Nat
  BY <1>4, <1>7, MergedInTime
<1>9. Told(fed[Len(source)], Seen(F))
  <2>1. Told(FullReplay(F), Seen(F))
    BY <1>7, FoldTells
  <2>2. QED
    BY <2>1 DEF FullReplay, Project
<1> HIDE DEF source
<1>10. /\ \A i \in 0..Len(source) : fed[i] \in Seq(SegmentOf(R)) /\ Len(fed[i]) \in Nat
       /\ \A i \in 0..Len(source) :
            /\ Len(fed[i]) <= Len(fed[Len(source)])
            /\ \A k \in 1..(Len(fed[i]) - 1) : fed[Len(source)][k] = fed[i][k]
  <2> DEFINE p == <<>>
  <2>1. p \in Seq(SegmentOf(R))
    OBVIOUS
  <2> HIDE DEF p
  <2> DEFINE f == Fed(p, source)
  <2>2. Feeds(f, p, source, R)
    BY <1>4, <1>8, <2>1, FedSteps
  <2> HIDE DEF f
  <2>3. \A i \in 0..Len(source) : f[i] \in Seq(SegmentOf(R))
    BY <2>2 DEF Feeds
  <2>4. \A g \in Seq(SegmentOf(R)) : Len(g) \in Nat
    OBVIOUS
  <2>5. \A i \in 0..Len(source) :
            /\ Len(f[i]) <= Len(f[Len(source)])
            /\ \A k \in 1..(Len(f[i]) - 1) : f[Len(source)][k] = f[i][k]
    BY <1>4, <1>8, <2>2, FedKeeps
  <2>6. QED
    BY <2>3, <2>4, <2>5 DEF f, p
<1> HIDE DEF fed
<1>11. n # 0 => n \in 0..Len(source) /\ Converged(n)
  <2> DEFINE I == {i \in 1..Len(conv) : conv[i]}
  <2>1. Len(conv) = Len(source)
    BY <1>8
  <2>2. n = IF I # {} THEN Min(I) ELSE 0
    BY DEF SelectInSeq
  <2>3. \A i \in 1..Len(source) : conv[i] = Converged(i)
    BY Zenon
  <2> HIDE DEF Converged, conv
  <2>4. I \subseteq Nat /\ I \subseteq 1..Len(source) /\ \A i \in I : Converged(i)
    BY <2>1, <2>3
  <2> HIDE DEF I, n
  <2>5. n # 0 => n \in I
    BY <2>2, <2>4, FirstOf
  <2>6. \A i \in I : i \in 0..Len(source)
    BY <1>8, <2>4
  <2>7. QED
    BY <2>4, <2>5, <2>6
<1> DEFINE p == fed[Len(source)]
<1>12. p \in Seq(SegmentOf(R)) /\ Len(p) \in Nat /\ Told(p, Seen(F))
  BY <1>8, <1>9, <1>10
<1> HIDE DEF n
<1>13. ASSUME n # 0 PROVE Done
  <2> DEFINE g == fed[n]
             m == Len(g) - 1
             projected == Front(g)
             through == Start(g[m])
  <2>1. /\ g \in Seq(SegmentOf(R)) /\ Len(g) \in Nat /\ Len(g) > 1 /\ Len(g) <= Len(p)
        /\ \A k \in 1..(Len(g) - 1) : p[k] = g[k]
    BY <1>10, <1>11, <1>13
  <2>2. Reaches(g[m], t) /\ \E row \in rows : SameAs(g[m], row)
    BY <1>11, <1>13
  <2>3. ReplayOn(rows, ordered, now) = Replace(rows, projected, Rows(Held(rows, start, through)), t)
    BY <1>2, <1>13
  <2> HIDE DEF g, p
  <2>4. m \in Nat /\ m \in 1..m /\ m < Len(p) /\ m \in 0..Len(g) /\ m \in 1..Len(p)
    BY <1>12, <2>1
  <2>5. projected \in Seq(SegmentOf(R)) /\ Len(projected) = m /\ \A k \in 1..m : projected[k] = g[k] /\ projected[k] = p[k]
    <3>1. projected = SubSeq(g, 1, m)
      BY DEF Front
    <3> HIDE DEF m, projected
    <3>2. projected \in Seq(SegmentOf(R)) /\ Len(projected) = m /\ \A k \in 1..m : projected[k] = g[k]
      BY <2>1, <2>4, <3>1, Beginning
    <3>3. \A k \in 1..m : p[k] = g[k]
      BY <2>1 DEF m
    <3>4. QED
      BY <3>2, <3>3
  <2> HIDE DEF m, projected
  <2>6. \A k \in 1..Len(p) : p[k].first \in Seen(F) /\ p[k].first \in R /\ Start(p[k]) \in Int /\ Start(p[k]) >= start
    <3>1. Seen(F) \subseteq F
      BY DEF Seen
    <3>2. \A k \in 1..Len(p) : p[k].first \in Seen(F)
      BY <1>12, ToldTyped
    <3>3. QED
      BY <1>4, <1>7, <3>1, <3>2 DEF Start
  <2>7. \A k \in 1..m : k \in 1..Len(p) /\ (k = m \/ k < m)
    BY <2>4
  <2>8. through = Start(p[m]) /\ through \in Int /\ through >= start
    BY <2>4, <2>5, <2>6
  <2> HIDE DEF through
  <2>9. \A k \in 1..m : projected[k].first.observedAt <= through
    <3>1. SUFFICES ASSUME NEW k \in 1..m PROVE Start(p[k]) <= through
      BY <2>5 DEF Start
    <3>2. k = m \/ Before(p[k].first, p[m].first)
      BY <1>12, <2>4, <2>7 DEF Told, OrderTold
    <3>3. QED
      BY <1>4, <2>4, <2>6, <2>7, <2>8, <3>2, BeforeOrders DEF Start
  <2>10. Stops(rows, start, projected, through, t)
    <3>1. PICK row \in rows : SameAs(g[m], row)
      BY <2>2
    <3>2. Start(row) = through /\ Start(row) >= start /\ Start(row) <= through
      BY <2>4, <2>5, <2>8, <3>1 DEF SameAs, Start
    <3>3. SameAs(projected[m], row) /\ Reaches(projected[m], t)
      BY <2>2, <2>4, <2>5, <3>1
    <3>4. QED
      BY <2>4, <2>5, <2>8, <2>9, <3>2, <3>3 DEF Stops
  <2>11. Replays(R, rows, start, F, p, projected, through, t, now)
    <3>1. Len(projected) # Len(p) /\ Len(projected) <= Len(p)
      BY <1>12, <2>4, <2>5
    <3>2. \A k \in 1..Len(projected) : k # Len(p) /\ projected[k] = p[k]
      BY <1>12, <2>4, <2>5
    <3>3. QED
      BY <1>12, <2>5, <2>10, <3>1, <3>2 DEF Replays
  <2>12. Done
    BY <1>7, <2>3, <2>11 DEF through
  <2>13. QED
    BY <2>12
<1>14. ASSUME n = 0 PROVE Done
  <2> DEFINE projected == Finish(p, now)
             through == Open
  <2>1. ReplayOn(rows, ordered, now) = Replace(rows, projected, Rows(Held(rows, start, through)), t)
    BY <1>2, <1>14
  <2> HIDE DEF p
  <2>2. projected \in Seq(SegmentOf(R)) /\ FinishedAs(projected, p, now)
    BY <1>4, <1>12, FinishFields
  <2> HIDE DEF projected
  <2>3. Replays(R, rows, start, F, p, projected, through, t, now)
    BY <1>12, <2>2 DEF Replays, FinishedAs
  <2>4. Done
    BY <1>7, <2>1, <2>3
  <2>5. QED
    BY <2>4
<1>15. Done
  BY <1>13, <1>14
<1>16. QED
  BY <1>1, <1>5, <1>6, <1>15 DEF ordered, t, start

\* Replaying from the segment before the earliest new record keeps the rows exact.
LEMMA ReplayExact ==
  ASSUME NEW adopted, IsFiniteSet(records), IsFiniteSet(adopted), adopted # {},
         Observations(records \union adopted), StartsAreCuts(records),
         NEW rows, RowsOK(rows, records), ShowsGroups(rows, Seen(records)), NEW now \in Clock
  PROVE  ShowsGroups(ReplayOn(rows, MergeOrder(adopted), now), Seen(records \union adopted))
<1> DEFINE ordered == MergeOrder(adopted)
           t == Last(ordered).observedAt
           t0 == ordered[1].observedAt
           start == ReplayStart(rows, t0)
<1>1. PICK R : R = records \union adopted
  OBVIOUS
<1>2. PICK S : S = records
  OBVIOUS
<1> DEFINE F == {r \in R : r.observedAt >= start}
<1>3. PICK p, projected, through :
        /\ Replays(R, rows, start, F, p, projected, through, t, now)
        /\ ReplayOn(rows, ordered, now) = Replace(rows, projected, Rows(Held(rows, start, through)), t)
  BY <1>1, ReplayReplaces
<1>4. t \in Int /\ t0 \in Int /\ \A r \in adopted : r.observedAt <= t /\ t0 <= r.observedAt
  BY ReplayReplaces
<1> HIDE DEF ordered, t, t0
<1>5. /\ R = S \union adopted /\ IsFiniteSet(R) /\ Observations(R) /\ StartsAreCuts(S)
      /\ RowsOK(rows, S) /\ ShowsGroups(rows, Seen(S)) /\ IsFiniteSet(rows) /\ rows \subseteq Row(S)
  BY <1>1, <1>2, FS_Union DEF RowsOK
<1>6. Window(S, R, rows, start)
  BY <1>4, <1>5, ReplayWindow
<1> HIDE DEF start
<1>7. ShowsGroups(Replace(rows, projected, Rows(Held(rows, start, through)), t), Seen(R))
  BY <1>3, <1>4, <1>5, <1>6, ReplaySplices
<1>8. QED
  BY <1>1, <1>3, <1>7 DEF ordered

\* The first rebuild of a history makes its rows exact: it could stop early only at a row
\* that is open, and that one is the last.
LEMMA RebuildExact ==
  ASSUME NEW rows, IsFiniteSet(records), Observations(records), records # {},
         RowsOK(rows, records), OpenIsLast(Rows(rows)), NEW now \in Clock
  PROVE  ShowsGroups(RebuildLegacy(rows, now), Seen(records))
<1> DEFINE ordered == MergeOrder(records)
           p == Project(<<>>, ordered)
           projected == Finish(p, now)
           existing == Rows(rows)
           t == Last(ordered).observedAt
           result == RebuildLegacy(rows, now)
<1>1. PICK R : R = records
  OBVIOUS
<1> DEFINE T == Seen(R)
<1>2. /\ Observations(R) /\ RowsOK(rows, R) /\ \A q \in R : q.observedAt \in Int
      /\ T \subseteq R /\ Observations(T)
  <2>1. T \subseteq R
    BY DEF Seen
  <2>2. QED
    BY <1>1, <2>1 DEF Observations
<1>3. Told(p, T)
  <2>1. Told(FullReplay(R), T)
    BY <1>1, FoldTells
  <2>2. QED
    BY <1>1, <2>1 DEF FullReplay
<1>4. t \in Int /\ \A r \in R : r.observedAt <= t
  BY <1>1, OrderEnds
<1>5. result = Replace(rows, projected, existing, t)
  BY DEF RebuildLegacy
<1> HIDE DEF result, ordered, p, t, T
<1>6. /\ Len(p) \in Nat /\ p \in Seq(SegmentOf(R))
      /\ \A k \in 1..Len(p) : /\ p[k].first \in R /\ p[k].last \in R
                              /\ p[k].ended \in Int \union {Open}
  <2>1. \A k \in 1..Len(p) : p[k].first \in T /\ p[k].last \in T /\ p[k] \in SegmentOf(T)
    BY <1>3, ToldTyped
  <2>2. SegmentOf(T) \subseteq SegmentOf(R)
    BY <1>2 DEF SegmentOf
  <2>3. p \in Seq(SegmentOf(T)) /\ Len(p) \in Nat
    BY <1>3, ToldTyped DEF Told
  <2>4. p \in Seq(SegmentOf(R))
    BY <2>2, <2>3
  <2>5. \A x \in SegmentOf(R) : x.ended \in Int \union {Open}
    BY DEF SegmentOf
  <2>6. QED
    BY <1>2, <2>1, <2>2, <2>3, <2>4, <2>5
<1>7. projected \in Seq(SegmentOf(R)) /\ FinishedAs(projected, p, now)
  BY <1>2, <1>6, FinishFields
<1>8. /\ existing \in Seq(rows) /\ ToSet(existing) = rows /\ DOMAIN existing = 1..Len(existing)
      /\ OpenIsLast(existing) /\ Len(existing) \in Nat
  <2>1. existing \in Seq(rows) /\ ToSet(existing) = rows /\ Len(existing) \in Nat
    BY <1>2, RowsInOrder
  <2> HIDE DEF existing
  <2>2. QED
    BY <2>1 DEF existing
<1> HIDE DEF projected, existing
<1>9. PICK i, j : ReplacedBy(rows, projected, existing, t, result, i, j)
  <2>1. IsFiniteSet(rows) /\ rows \subseteq Row(R)
    BY <1>2 DEF RowsOK
  <2>2. QED
    BY <1>5, <1>7, <1>8, <2>1, ReplaceResult
<1>10. Len(projected) = Len(p)
  BY <1>7 DEF FinishedAs
<1>11. ASSUME NEW k \in 1..Len(p), NEW row, SameAs(projected[k], row)
       PROVE  ShownAs(row) = ShownAs(p[k])
  <2>1. ShownAs(row) = ShownAs(projected[k])
    BY <1>11, ShownFields
  <2>2. p[k].last.observedAt \in Int
    BY <1>2, <1>6
  <2>3. CASE k = Len(p)
    <3>1. /\ projected[k].first = p[k].first /\ projected[k].last = p[k].last
          /\ projected[k].ended = EffectiveEnd(p[k], now)
      BY <1>7, <2>3 DEF FinishedAs
    <3>2. QED
      BY <1>6, <2>1, <2>2, <3>1, ShownFinished
  <2>4. CASE k # Len(p)
    <3>1. SameAs(p[k], projected[k])
      BY <1>7, <2>4 DEF FinishedAs, SameAs
    <3>2. QED
      BY <2>1, <3>1, ShownFields
  <2>5. QED
    BY <2>3, <2>4
<1>12. i # 0 => /\ i = Len(p) /\ i \in 1..Len(p) /\ j = Len(existing) /\ j \in 1..Len(existing)
                /\ SameAs(projected[i], existing[j])
  <2>1. SUFFICES ASSUME i # 0
                 PROVE  /\ i = Len(p) /\ i \in 1..Len(p) /\ j = Len(existing) /\ j \in 1..Len(existing)
                        /\ SameAs(projected[i], existing[j])
    OBVIOUS
  <2>2. /\ i \in 1..Len(p) /\ j \in 1..Len(existing)
        /\ SameAs(projected[i], existing[j]) /\ Reaches(projected[i], t)
    BY <1>6, <1>9, <1>10, <2>1 DEF ReplacedBy
  <2>3. /\ projected[i].first = p[i].first
        /\ projected[i].ended = IF i = Len(p) THEN EffectiveEnd(p[i], now) ELSE p[i].ended
    BY <1>7, <2>2 DEF FinishedAs
  <2>4. /\ p[i].last.observedAt <= t /\ p[i].last.observedAt \in Int
        /\ p[i].first.observedAt <= t /\ p[i].first.observedAt \in Int
    BY <1>2, <1>4, <1>6, <2>2
  <2>5. ~(Start(projected[i]) > t)
    BY <1>4, <2>3, <2>4 DEF Start
  <2>6. i = Len(p)
    <3>1. SUFFICES ASSUME i # Len(p) PROVE FALSE
      OBVIOUS
    <3>2. i \in 1..(Len(p) - 1) /\ i + 1 \in 1..Len(p)
      BY <1>6, <2>2, <3>1
    <3>3. p[i].ended = Start(p[i + 1]) \/ p[i].ended = p[i].last.observedAt
      BY <1>3, <3>2 DEF Told, EndsTold
    <3>4. Start(p[i + 1]) <= t /\ Start(p[i + 1]) \in Int
      BY <1>2, <1>4, <1>6, <3>2 DEF Start
    <3>5. p[i].ended \in Int /\ p[i].ended <= t
      BY <2>4, <3>3, <3>4
    <3>6. p[i].ended # Open /\ ~(p[i].ended > t)
      BY <1>4, <3>5, GapAssumption
    <3>7. QED
      BY <2>2, <2>3, <2>5, <3>1, <3>6 DEF Reaches
  <2>7. projected[i].ended = Open
    <3>1. p[i].ended = Open
      BY <1>3, <2>2, <2>6 DEF Told, EndsTold
    <3>2. projected[i].ended = Open \/ projected[i].ended = p[i].last.observedAt
      BY <2>3, <2>6, <3>1 DEF EffectiveEnd
    <3>3. ~(p[i].last.observedAt > t)
      BY <1>4, <2>4
    <3>4. QED
      BY <2>2, <2>5, <3>2, <3>3 DEF Reaches
  <2>8. existing[j].ended = Open
    BY <2>2, <2>7 DEF SameAs
  <2>9. QED
    BY <1>8, <2>2, <2>6, <2>8 DEF OpenIsLast
<1>13. ASSUME NEW row \in result PROVE \E k \in 1..Len(p) : ShownAs(row) = ShownAs(p[k])
  <2>1. CASE row \in rows /\ \A k \in 1..(j - 1) : existing[k] # row
    <3>1. PICK k \in 1..Len(existing) : existing[k] = row
      BY <1>8, <2>1 DEF ToSet
    <3>2. i # 0
      <4>1. SUFFICES ASSUME i = 0 PROVE FALSE
        OBVIOUS
      <4>2. j - 1 = Len(existing)
        BY <1>8, <1>9, <4>1 DEF ReplacedBy
      <4>3. QED
        BY <2>1, <3>1, <4>2
    <3>3. k = j
      <4>1. j = Len(existing) /\ j \in Nat /\ k \in Nat /\ k >= 1 /\ k <= j
        BY <1>8, <1>12, <3>1, <3>2
      <4>2. k < j => k \in 1..(j - 1)
        BY <4>1
      <4>3. ~(k < j)
        BY <2>1, <3>1, <4>2
      <4>4. QED
        BY <4>1, <4>3
    <3>4. QED
      BY <1>11, <1>12, <3>1, <3>2, <3>3
  <2>2. CASE \E k \in 1..Len(projected) : SameAs(projected[k], row)
    BY <1>10, <1>11, <2>2
  <2>3. QED
    BY <1>9, <2>1, <2>2 DEF ReplacedBy
<1>14. ASSUME NEW k \in 1..Len(p) PROVE \E row \in result : ShownAs(row) = ShownAs(p[k])
  <2>1. CASE k < i \/ i = 0
    <3>1. PICK row \in result : SameAs(projected[k], row)
      BY <1>9, <1>10, <2>1 DEF ReplacedBy
    <3>2. QED
      BY <1>11, <3>1
  <2>2. CASE i # 0 /\ ~(k < i)
    <3>1. k = i /\ j \in 1..Len(existing) /\ SameAs(projected[k], existing[j])
      BY <1>6, <1>12, <2>2
    <3>2. existing[j] \in rows /\ \A m \in 1..(j - 1) : existing[m] # existing[j]
      <4>1. existing[j] \in rows
        BY <1>8, <3>1
      <4>2. \A l, m \in 1..Len(existing) : l < m => existing[l] # existing[m]
        <5>1. \A l, m \in 1..Len(existing) : l < m => Before(existing[l].first, existing[m].first)
          BY <1>2, RowsInOrder DEF existing
        <5>2. \A l \in 1..Len(existing) : existing[l].first \in R
          <6>1. \A s \in rows : s.first \in R
            BY <1>2 DEF RowsOK, Row
          <6>2. QED
            BY <1>8, <6>1
        <5>3. \A x \in R : ~Before(x, x)
          BY <1>2, BeforeOrders
        <5>4. QED
          BY <5>1, <5>2, <5>3
      <4>3. \A m \in 1..(j - 1) : m \in 1..Len(existing) /\ m < j
        BY <1>8, <3>1
      <4>4. QED
        BY <3>1, <4>1, <4>2, <4>3
    <3>3. existing[j] \in result
      BY <1>9, <3>2 DEF ReplacedBy
    <3>4. QED
      BY <1>11, <3>1, <3>3
  <2>3. QED
    BY <2>1, <2>2
<1>15. GroupsOf(T) = {ShownAs(p[k]) : k \in 1..Len(p)}
  BY <1>2, <1>3, ToldShows DEF ToldAs
<1>16. {ShownAs(s) : s \in result} = GroupsOf(T)
  BY <1>13, <1>14, <1>15
<1>17. QED
  BY <1>1, <1>16 DEF ShowsGroups, result, T

\* A batch, whichever way it takes, keeps exact rows exact.
LEMMA ProcessExact ==
  ASSUME TimelineInv, NEW batch \in Batches, NEW now \in Clock, Process(batch, now),
         records' # records, StartsAreCuts(records),
         IF initialized THEN Exact(segments, records) ELSE OpenIsLast(Rows(segments))
  PROVE  Exact(segments', records')
<1> DEFINE adopted == {r \in batch : ~Taken(r)}
           base == IF initialized \/ records = {} THEN segments ELSE RebuildLegacy(segments, now)
<1>1. /\ IsFiniteSet(records \union adopted) /\ Observations(records \union adopted)
      /\ IsFiniteSet(adopted) /\ Observations(adopted)
      /\ records \intersect adopted = {}
  BY RecordsAdded DEF TimelineInv
<1>2. /\ records' = records \union adopted
      /\ segments' = IF adopted = {} THEN base ELSE ProjectOn(base, adopted, now)
  BY DEF Process
<1>3. IsFiniteSet(records) /\ Observations(records) /\ RowsOK(segments, records)
  BY DEF TimelineInv, RecordsOK
<1> HIDE DEF adopted
<1>4. adopted # {}
  BY <1>2
<1>5. RowsOK(base, records)
  BY <1>3, RebuildKeeps
<1>6. ShowsGroups(base, Seen(records))
  <2>1. CASE initialized
    BY <1>3, <2>1, ExactShows
  <2>2. CASE ~initialized /\ records = {}
    <3>1. segments = {}
      BY <1>3, <2>2 DEF RowsOK, Row
    <3>2. FirstsOf(Seen(records)) = {}
      BY <2>2 DEF FirstsOf, Seen
    <3>3. base = {}
      BY <2>2, <3>1
    <3>4. QED
      BY <3>2, <3>3 DEF ShowsGroups, GroupsOf
  <2>3. CASE ~initialized /\ records # {}
    BY <1>3, <2>3, RebuildExact
  <2>4. QED
    BY <2>1, <2>2, <2>3
<1> HIDE DEF base
<1>7. segments' = IF (\A r \in records : Before(r, MergeOrder(adopted)[1])) /\ base # {}
                    THEN AppendTo(base, MergeOrder(adopted), now)
                    ELSE ReplayOn(base, MergeOrder(adopted), now)
  BY <1>2, <1>4 DEF ProjectOn
<1>8. ShowsGroups(segments', Seen(records'))
  <2>1. CASE (\A r \in records : Before(r, MergeOrder(adopted)[1])) /\ base # {}
    BY <1>1, <1>2, <1>3, <1>4, <1>5, <1>6, <1>7, <2>1, AppendExact
  <2>2. CASE ~((\A r \in records : Before(r, MergeOrder(adopted)[1])) /\ base # {})
    BY <1>1, <1>2, <1>3, <1>4, <1>5, <1>6, <1>7, <2>2, ReplayExact
  <2>3. QED
    BY <2>1, <2>2
<1>9. RowsOK(segments', records') /\ IsFiniteSet(records') /\ Observations(records')
  <2>1. TimelineInv'
    BY ProcessKeeps
  <2>2. QED
    BY <2>1 DEF TimelineInv, RecordsOK
<1> DEFINE rows == segments'
           R == records'
<1>10. RowsOK(rows, R) /\ IsFiniteSet(R) /\ Observations(R) /\ ShowsGroups(rows, Seen(R))
  BY <1>8, <1>9
<1> HIDE DEF rows, R
<1>11. Exact(rows, R)
  BY <1>10, ExactShows
<1>12. QED
  BY <1>11 DEF rows, R

\* Whatever batches come, early or late, of however many records and devices: appending,
\* replaying from an earlier row and stopping at one that stands, and the first rebuild
\* of a history, leave the timeline that a replay of every record would.
THEOREM ReplaysAreExact == Spec => ReplayIsExact
<1> DEFINE Brings == /\ records' # records
                     /\ StartsAreCuts(records)
                     /\ IF initialized THEN Exact(segments, records) ELSE OpenIsLast(Rows(segments))
                     => Exact(segments', records')
<1>1. TimelineInv /\ [Next]_vars => [Brings]_vars
  <2>1. ASSUME TimelineInv, NEW batch \in Batches, NEW now \in Clock, Process(batch, now)
        PROVE  Brings
    BY <2>1, ProcessExact
  <2> HIDE DEF Brings
  <2>2. QED
    BY <2>1 DEF Next
<1>2. QED
  BY <1>1, TimelineInvariant, PTL DEF Spec, ReplayIsExact

-----------------------------------------------------------------------------
(* Ids *)

\* A record falls in the k-th of the segments told.
FallsIn(p, k, r) == ~Before(r, p[k].first) /\ (k = Len(p) \/ Before(r, p[k + 1].first))

\* What was told of T, as the lemmas on ids use it.
ToldOf(p, T) ==
  /\ Told(p, T) /\ IsFiniteSet(T) /\ Observations(T) /\ Len(p) \in Nat
  /\ \A k \in 1..Len(p) :
       /\ p[k].first \in FirstsOf(T) /\ p[k].first \in T /\ p[k].last \in T
       /\ Start(p[k]) \in Int /\ p[k].last.observedAt \in Int
  /\ \A f \in FirstsOf(T) : \E k \in 1..Len(p) : p[k].first = f
  /\ \A k, l \in 1..Len(p) : k < l => Before(p[k].first, p[l].first) /\ Before(p[k].last, p[l].first)

LEMMA ToldHas ==
  ASSUME NEW T, IsFiniteSet(T), Observations(T), NEW p, Told(p, T)
  PROVE  ToldOf(p, T)
<1>1. /\ Len(p) \in Nat
      /\ \A k \in 1..Len(p) : p[k].first \in T /\ p[k].last \in T
  BY ToldTyped
<1>2. {p[k].first : k \in 1..Len(p)} = FirstsOf(T)
  BY DEF Told, StartsTold
<1>3. \A k \in 1..Len(p) : Start(p[k]) \in Int /\ p[k].last.observedAt \in Int
  BY <1>1 DEF Observations, Start
<1>4. \A k, l \in 1..Len(p) : k < l => Before(p[k].first, p[l].first) /\ Before(p[k].last, p[l].first)
  BY DEF Told, OrderTold
<1>5. \A k \in 1..Len(p) : p[k].first \in FirstsOf(T)
  BY <1>2
<1>6. \A f \in FirstsOf(T) : \E k \in 1..Len(p) : p[k].first = f
  BY <1>2
<1>7. QED
  BY <1>1, <1>3, <1>4, <1>5, <1>6 DEF ToldOf

\* Every record that is told falls in a segment.
LEMMA PieceFound ==
  ASSUME NEW T, NEW p, ToldOf(p, T), NEW r \in T
  PROVE  \E k \in 1..Len(p) : FallsIn(p, k, r)
<1>1. IsFiniteSet(T) /\ Observations(T)
  BY DEF ToldOf
<1>2. /\ \A x \in T : ~Before(x, x)
      /\ \A x, y \in T : x # y => Before(x, y) \/ Before(y, x)
      /\ \A x, y, z \in T : Before(x, y) /\ Before(y, z) => Before(x, z)
      /\ \A x, y \in T : Before(x, y) => ~Before(y, x)
  BY <1>1, BeforeOrders
<1> DEFINE Q == {f \in FirstsOf(T) : ~Before(r, f)}
<1>3. PICK z \in T : \A x \in T : ~Before(x, z)
  <2>1. T \in SUBSET T /\ T # {}
    OBVIOUS
  <2>2. QED
    BY <1>1, <2>1, FirstAndLast
<1>4. z \in FirstsOf(T)
  BY <1>3 DEF FirstsOf, NextIn
<1>5. Q # {} /\ Q \in SUBSET T
  BY <1>3, <1>4 DEF FirstsOf
<1>6. PICK m \in Q : \A x \in Q : ~Before(m, x)
  <2> HIDE DEF Q
  <2>1. QED
    BY <1>1, <1>5, FirstAndLast
<1>7. PICK k \in 1..Len(p) : p[k].first = m
  BY <1>6 DEF ToldOf
<1>8. ASSUME k # Len(p) PROVE Before(r, p[k + 1].first)
  <2>1. k + 1 \in 1..Len(p) /\ k < k + 1
    BY <1>8 DEF ToldOf
  <2>2. p[k + 1].first \in FirstsOf(T) /\ Before(p[k].first, p[k + 1].first)
    BY <2>1 DEF ToldOf
  <2>3. QED
    BY <1>6, <1>7, <2>2
<1>9. QED
  BY <1>6, <1>7, <1>8 DEF FallsIn

\* A record falls in one segment only.
LEMMA PiecesApart ==
  ASSUME NEW T, NEW p, ToldOf(p, T), NEW r \in T,
         NEW k \in 1..Len(p), NEW l \in 1..Len(p), FallsIn(p, k, r), ~Before(r, p[l].first)
  PROVE  l <= k /\ (FallsIn(p, l, r) => k = l)
<1>1. /\ \A x, y \in T : x # y => Before(x, y) \/ Before(y, x)
      /\ \A x, y, z \in T : Before(x, y) /\ Before(y, z) => Before(x, z)
      /\ \A x, y \in T : Before(x, y) => ~Before(y, x)
  BY BeforeOrders DEF ToldOf
<1>2. ASSUME NEW i \in 1..Len(p), NEW j \in 1..Len(p), i < j, FallsIn(p, i, r), ~Before(r, p[j].first)
      PROVE  FALSE
  <2>1. i + 1 \in 1..Len(p) /\ i # Len(p) /\ (i + 1 = j \/ i + 1 < j)
    BY <1>2 DEF ToldOf
  <2>2. Before(r, p[i + 1].first) /\ p[i + 1].first \in T /\ p[j].first \in T
    BY <1>2, <2>1 DEF FallsIn, ToldOf
  <2>3. i + 1 = j \/ Before(p[i + 1].first, p[j].first)
    BY <2>1 DEF ToldOf
  <2>4. Before(r, p[j].first)
    BY <1>1, <2>2, <2>3
  <2>5. QED
    BY <1>2, <2>4
<1>3. l <= k
  BY <1>2 DEF ToldOf
<1>4. FallsIn(p, l, r) => k <= l
  BY <1>2 DEF ToldOf, FallsIn
<1>5. QED
  BY <1>3, <1>4

\* The records that fall in a segment are of its kind.
LEMMA PieceKind ==
  ASSUME NEW T, NEW p, ToldOf(p, T), NEW k \in 1..Len(p), NEW r \in T, FallsIn(p, k, r)
  PROVE  r.kind = p[k].first.kind
<1>1. IsFiniteSet(T) /\ Observations(T)
  BY DEF ToldOf
<1>2. /\ \A x \in T : ~Before(x, x)
      /\ \A x, y \in T : x # y => Before(x, y) \/ Before(y, x)
      /\ \A x, y, z \in T : Before(x, y) /\ Before(y, z) => Before(x, z)
      /\ \A x, y \in T : Before(x, y) => ~Before(y, x)
  BY <1>1, BeforeOrders
<1> DEFINE f == p[k].first
           B == {x \in T : FallsIn(p, k, x) /\ x.kind # f.kind}
<1>3. SUFFICES ASSUME B # {} PROVE FALSE
  OBVIOUS
<1>4. PICK m \in B : \A x \in B : ~Before(x, m)
  <2>1. B \in SUBSET T
    OBVIOUS
  <2> HIDE DEF B
  <2>2. QED
    BY <1>1, <1>3, <2>1, FirstAndLast
<1>5. m \in T /\ FallsIn(p, k, m) /\ m.kind # f.kind /\ f \in T
  BY <1>4 DEF ToldOf
<1>6. m # f /\ ~Before(m, f) /\ Before(f, m)
  BY <1>2, <1>5 DEF FallsIn
<1>7. m \notin FirstsOf(T)
  <2>1. SUFFICES ASSUME m \in FirstsOf(T) PROVE FALSE
    OBVIOUS
  <2>2. PICK l \in 1..Len(p) : p[l].first = m
    BY <2>1 DEF ToldOf
  <2>3. ~Before(m, p[l].first)
    BY <1>2, <1>5, <2>2
  <2>4. l <= k
    BY <1>5, <2>3, PiecesApart
  <2>5. l = k \/ Before(m, f)
    BY <2>2, <2>4 DEF ToldOf
  <2>6. QED
    BY <1>6, <2>2, <2>5
<1>8. PICK q \in T : NextIn(T, q, m) /\ JoinsTo(q, m)
  BY <1>5, <1>7 DEF FirstsOf
<1>9. q.kind = m.kind /\ Before(q, m) /\ ~Before(q, f)
  BY <1>5, <1>6, <1>8 DEF NextIn, JoinsTo
<1>10. k # Len(p) => p[k + 1].first \in T /\ Before(m, p[k + 1].first)
  <2>1. k # Len(p) => k + 1 \in 1..Len(p)
    BY DEF ToldOf
  <2>2. QED
    BY <1>5, <2>1 DEF ToldOf, FallsIn
<1>11. FallsIn(p, k, q)
  BY <1>2, <1>5, <1>9, <1>10 DEF FallsIn
<1>12. q \in B
  BY <1>5, <1>9, <1>11
<1>13. QED
  BY <1>4, <1>9, <1>12

\* Where a segment is of the kind of the one before it, that one was an activity and ended in silence.
LEMMA SilenceBetween ==
  ASSUME NEW T, NEW p, ToldOf(p, T), NEW k \in 1..(Len(p) - 1), p[k].first.kind = p[k + 1].first.kind
  PROVE  /\ ~IsGap(p[k]) /\ p[k].ended = p[k].last.observedAt
         /\ p[k].last.observedAt < Start(p[k + 1])
         /\ \A q \in T : Before(q, p[k + 1].first) => q.observedAt <= p[k].last.observedAt
<1>1. IsFiniteSet(T) /\ Observations(T) /\ Told(p, T)
  BY DEF ToldOf
<1>2. /\ \A x \in T : ~Before(x, x)
      /\ \A x, y \in T : x # y => Before(x, y) \/ Before(y, x)
      /\ \A x, y, z \in T : Before(x, y) /\ Before(y, z) => Before(x, z)
      /\ \A x, y \in T : Before(x, y) => ~Before(y, x) /\ x.observedAt <= y.observedAt
      /\ \A x \in T : x.observedAt \in Int
  BY <1>1, BeforeOrders DEF Observations
<1> DEFINE g == p[k + 1].first
           z == p[k].last
           Q == {x \in T : Before(x, g)}
<1>3. k \in 1..Len(p) /\ k + 1 \in 1..Len(p) /\ k # Len(p) /\ k < k + 1
  BY DEF ToldOf
<1>4. g \in FirstsOf(T) /\ g \in T /\ z \in T /\ p[k].first \in T /\ Before(p[k].first, g) /\ Before(z, g)
  BY <1>3 DEF ToldOf
<1>5. PICK m \in Q : \A x \in Q : ~Before(m, x)
  <2>1. Q \in SUBSET T /\ Q # {}
    BY <1>4
  <2> HIDE DEF Q
  <2>2. QED
    BY <1>1, <2>1, FirstAndLast
<1>6. m \in T /\ NextIn(T, m, g)
  BY <1>5 DEF NextIn
<1>7. ~JoinsTo(m, g)
  BY <1>4, <1>6 DEF FirstsOf
<1>8. FallsIn(p, k, m)
  BY <1>3, <1>4, <1>5 DEF FallsIn
<1>9. m.kind = g.kind
  BY <1>3, <1>6, <1>8, PieceKind
<1>10. g.kind # "suspended" /\ ~(g.observedAt - m.observedAt <= MaxGap)
  BY <1>7, <1>9 DEF JoinsTo
<1>11. ~IsGap(p[k])
  BY <1>10 DEF IsGap
<1>12. \A q \in T : Before(q, g) => ~Before(z, q)
  BY <1>1, <1>3, <1>11 DEF Told, LastsTold
<1>13. m = z
  <2>1. ~Before(z, m) /\ ~Before(m, z)
    BY <1>4, <1>5, <1>12
  <2>2. QED
    BY <1>2, <1>4, <1>6, <2>1
<1>14. ~(Start(p[k + 1]) - z.observedAt <= MaxGap) /\ Start(p[k + 1]) \in Int /\ z.observedAt \in Int
  BY <1>2, <1>4, <1>10, <1>13 DEF Start
<1>15. p[k].ended = z.observedAt
  BY <1>1, <1>11, <1>14 DEF Told, EndsTold
<1>16. z.observedAt < Start(p[k + 1])
  BY <1>14, GapAssumption
<1>17. \A q \in T : Before(q, g) => q = z \/ Before(q, z)
  BY <1>2, <1>4, <1>12
<1>18. \A q \in T : Before(q, g) => q.observedAt <= z.observedAt
  BY <1>2, <1>4, <1>17
<1>19. QED
  BY <1>11, <1>15, <1>16, <1>18

\* A projected segment that is written: where it ends, for the last one, is as silence has it.
BegunAs(new, p, now) ==
  /\ Len(new) \in Nat /\ Len(new) <= Len(p)
  /\ \A k \in 1..Len(new) :
       /\ new[k].first = p[k].first /\ new[k].last = p[k].last
       /\ new[k].ended = IF k = Len(p) THEN EffectiveEnd(p[k], now) ELSE p[k].ended
  /\ \A k, l \in 1..Len(new) : k # l => Start(p[k]) # Start(p[l])

\* A row may hand its id on to a segment, by _reusable_id, just where it falls in it and is of its kind.
LEMMA Inherits ==
  ASSUME NEW T, NEW p, ToldOf(p, T), NEW now, NEW new, BegunAs(new, p, now),
         NEW y, y.first \in T, Len(new) = Len(p) \/ Before(y.first, p[Len(new) + 1].first),
         NEW k \in 1..Len(new)
  PROVE  Continues(new[k], y) <=> FallsIn(p, k, y.first) /\ y.first.kind = new[k].first.kind
<1> DEFINE N == Len(new)
           s == new[k]
           r == y.first
<1>1. IsFiniteSet(T) /\ Observations(T) /\ Told(p, T) /\ Len(p) \in Nat
  BY DEF ToldOf
<1>2. /\ \A x \in T : ~Before(x, x)
      /\ \A x, z \in T : x # z => Before(x, z) \/ Before(z, x)
      /\ \A x, z, v \in T : Before(x, z) /\ Before(z, v) => Before(x, v)
      /\ \A x, z \in T : Before(x, z) => ~Before(z, x) /\ x.observedAt <= z.observedAt
      /\ \A x \in T : x.observedAt \in Int
  BY <1>1, BeforeOrders DEF Observations
<1>3. /\ N \in Nat /\ N <= Len(p) /\ k \in 1..Len(p)
      /\ \A l \in 1..N : l \in 1..Len(p)
      /\ s.first = p[k].first /\ s.last = p[k].last
      /\ s.ended = IF k = Len(p) THEN EffectiveEnd(p[k], now) ELSE p[k].ended
  BY <1>1 DEF BegunAs
<1>4. /\ p[k].first \in T /\ p[k].last \in T /\ r \in T
      /\ Start(s) = p[k].first.observedAt /\ Start(y) = r.observedAt /\ IsGap(s) = IsGap(p[k])
  BY <1>3 DEF ToldOf, Start, IsGap
<1>5. k # Len(p) => /\ k \in 1..(Len(p) - 1) /\ k + 1 \in 1..Len(p) /\ p[k + 1].first \in T
                    /\ Before(p[k].first, p[k + 1].first) /\ Before(p[k].last, p[k + 1].first)
                    /\ s.ended = (IF IsGap(p[k]) \/ Start(p[k + 1]) - p[k].last.observedAt <= MaxGap
                                    THEN Start(p[k + 1]) ELSE p[k].last.observedAt)
  <2>1. k # Len(p) => k \in 1..(Len(p) - 1) /\ k + 1 \in 1..Len(p) /\ k < k + 1
    BY <1>1, <1>3
  <2>2. k # Len(p) => s.ended = p[k].ended
    BY <1>3
  <2>3. QED
    BY <1>1, <1>3, <2>1, <2>2 DEF ToldOf, Told, EndsTold
<1>6. k = Len(p) => s.ended = Open \/ (~IsGap(p[k]) /\ s.ended = p[k].last.observedAt)
  <2>1. k = Len(p) => p[k].ended = Open
    BY <1>1, <1>3 DEF Told, EndsTold
  <2>2. QED
    BY <1>3, <2>1 DEF EffectiveEnd
<1>7. ~IsGap(p[k]) => \A q \in T : k = Len(p) \/ Before(q, p[k + 1].first) => ~Before(p[k].last, q)
  BY <1>1, <1>3 DEF Told, LastsTold
<1>8. ASSUME FallsIn(p, k, r), r.kind = s.first.kind PROVE Continues(s, y)
  <2>1. p[k].first.observedAt <= r.observedAt
    BY <1>2, <1>4, <1>8 DEF FallsIn
  <2>2. ~IsGap(p[k]) => r.observedAt <= p[k].last.observedAt
    <3>1. ~IsGap(p[k]) => ~Before(p[k].last, r)
      BY <1>4, <1>7, <1>8 DEF FallsIn
    <3>2. QED
      BY <1>2, <1>4, <3>1
  <2>3. k # Len(p) => r.observedAt <= Start(p[k + 1])
    BY <1>2, <1>4, <1>5, <1>8 DEF FallsIn, Start
  <2>4. s.ended = Open \/ r.observedAt <= s.ended
    BY <1>5, <1>6, <2>2, <2>3
  <2>5. CanInherit(s, y) /\ s.first.kind = y.first.kind
    BY <1>8 DEF CanInherit, IsGap
  <2>6. QED
    BY <1>4, <2>1, <2>4, <2>5 DEF Continues
<1>9. ASSUME Continues(s, y) PROVE FallsIn(p, k, r) /\ r.kind = s.first.kind
  <2>1. r.kind = p[k].first.kind
    BY <1>3, <1>9 DEF Continues, CanInherit, IsGap
  <2>2. /\ p[k].first.observedAt <= r.observedAt
        /\ s.ended = Open \/ r.observedAt <= s.ended
    BY <1>2, <1>4, <1>9 DEF Continues
  <2>3. PICK j \in 1..Len(p) : FallsIn(p, j, r)
    BY <1>4, PieceFound
  <2>4. r.kind = p[j].first.kind /\ ~Before(r, p[j].first) /\ p[j].first \in T
    <3>1. r.kind = p[j].first.kind
      BY <1>4, <2>3, PieceKind
    <3>2. QED
      BY <2>3, <3>1 DEF FallsIn, ToldOf
  <2>5. p[j].first.observedAt <= r.observedAt
    BY <1>2, <1>4, <2>4
  <2>6. CASE j < k
    <3>1. j \in 1..(Len(p) - 1) /\ j # Len(p) /\ j + 1 \in 1..Len(p) /\ (j + 1 = k \/ j + 1 < k) /\ j + 1 \in 1..N
      BY <1>1, <1>3, <2>6
    <3>2. Before(r, p[j + 1].first) /\ p[j + 1].first \in T
      BY <2>3, <3>1 DEF FallsIn, ToldOf
    <3>3. j + 1 = k \/ Before(p[j + 1].first, p[k].first)
      BY <1>3, <3>1 DEF ToldOf
    <3>4. r.observedAt <= p[j + 1].first.observedAt /\ p[j + 1].first.observedAt <= p[k].first.observedAt
      BY <1>2, <1>4, <3>2, <3>3
    <3>5. Start(p[j + 1]) = Start(p[k])
      BY <1>2, <1>4, <2>2, <3>2, <3>4 DEF Start
    <3>6. j + 1 = k
      BY <3>1, <3>5 DEF BegunAs
    <3>7. p[j].first.kind = p[j + 1].first.kind
      BY <2>1, <2>4, <3>6
    <3>8. r.observedAt <= p[j].last.observedAt /\ p[j].last.observedAt < Start(p[j + 1])
      BY <1>4, <3>1, <3>2, <3>7, SilenceBetween
    <3>9. p[j].last.observedAt \in Int
      BY <2>3 DEF ToldOf
    <3>10. QED
      BY <1>2, <1>4, <2>2, <3>6, <3>8, <3>9 DEF Start
  <2>7. CASE k < j
    <3>1. k # Len(p) /\ k \in 1..(Len(p) - 1) /\ k + 1 \in 1..Len(p) /\ (k + 1 = j \/ k + 1 < j)
      BY <1>1, <1>3, <2>7
    <3>2. j \in 1..N /\ k + 1 \in 1..N
      <4>1. SUFFICES ASSUME N < j PROVE FALSE
        BY <1>3, <2>7
      <4>2. N # Len(p) /\ N + 1 \in 1..Len(p) /\ (N + 1 = j \/ N + 1 < j)
        BY <1>1, <1>3, <4>1
      <4>3. Before(r, p[N + 1].first) /\ p[N + 1].first \in T
        BY <4>2 DEF ToldOf
      <4>4. N + 1 = j \/ Before(p[N + 1].first, p[j].first)
        BY <4>2 DEF ToldOf
      <4>5. QED
        BY <1>2, <1>4, <2>4, <4>3, <4>4
    <3>3. Start(p[k + 1]) <= Start(p[j]) /\ Start(p[k + 1]) \in Int /\ Start(p[j]) \in Int
      <4>1. k + 1 = j \/ Before(p[k + 1].first, p[j].first)
        BY <3>1 DEF ToldOf
      <4>2. QED
        BY <1>2, <1>5, <2>4, <3>1, <4>1 DEF Start
    <3>4. p[k].last.observedAt <= Start(p[k + 1]) /\ p[k].last.observedAt \in Int
      BY <1>2, <1>4, <1>5, <3>1 DEF Start
    <3>5. s.ended \in Int /\ s.ended <= Start(p[k + 1])
      BY <1>5, <3>1, <3>3, <3>4
    <3>6. Start(p[k + 1]) = Start(p[j]) /\ s.ended = Start(p[k + 1])
      <4>1. r.observedAt <= s.ended
        BY <2>2, <3>5, GapAssumption
      <4>2. QED
        BY <1>2, <1>4, <2>5, <3>3, <3>5, <4>1 DEF Start
    <3>7. k + 1 = j
      BY <3>2, <3>6 DEF BegunAs
    <3>8. p[k].first.kind = p[k + 1].first.kind
      BY <2>1, <2>4, <3>7
    <3>9. p[k].ended = p[k].last.observedAt /\ p[k].last.observedAt < Start(p[k + 1])
      BY <3>1, <3>8, SilenceBetween
    <3>10. s.ended = p[k].ended
      BY <1>3, <3>1
    <3>11. QED
      BY <3>3, <3>4, <3>6, <3>9, <3>10
  <2>8. CASE j = k
    BY <1>3, <2>1, <2>3, <2>8
  <2>9. j = k \/ j < k \/ k < j
    BY <1>3, <2>3
  <2>10. QED
    BY <2>6, <2>7, <2>8, <2>9
<1>10. QED
  BY <1>8, <1>9

\* The replaced rows a segment may take its id from; the first of them is its heir.
Continued(s, old) == {m \in 1..Len(old) : Continues(s, old[m])}

HeirId(s, old) == IF Continued(s, old) = {} THEN 0 ELSE old[Min(Continued(s, old))].id

\* No row may be continued by two segments, and the one that starts a segment as it did is
\* the first the segment continues.
Heirs(new, old) ==
  /\ Len(new) \in Nat /\ Len(old) \in Nat /\ DOMAIN old = 1..Len(old)
  /\ \A m, l \in 1..Len(old) : m # l => old[m].id # old[l].id
  /\ \A m \in 1..Len(old) : old[m].id # 0
  /\ \A k \in 1..Len(new), m \in 1..Len(old) :
       old[m].first = new[k].first =>
         m \in Continued(new[k], old) /\ \A l \in Continued(new[k], old) : m <= l
  /\ \A k, l \in 1..Len(new), m \in 1..Len(old) :
       m \in Continued(new[k], old) /\ m \in Continued(new[l], old) => k = l

\* The first of the rows a segment continues.
LEMMA FirstContinued ==
  ASSUME NEW s, NEW old, Len(old) \in Nat, Continued(s, old) # {}
  PROVE  /\ Min(Continued(s, old)) \in Continued(s, old)
         /\ \A m \in Continued(s, old) : Min(Continued(s, old)) <= m
<1> DEFINE c == Continued(s, old)
<1>1. c \subseteq 1..Len(old) /\ c \subseteq Nat
  BY DEF Continued
<1> HIDE DEF c
<1>2. PICK n \in c : \A m \in c : n <= m
  BY <1>1, LeastNumber DEF c
<1>3. Min(c) = n
  <2>1. c \subseteq Int
    BY <1>1
  <2>2. QED
    BY <1>2, <2>1, MinOf
<1>4. QED
  BY <1>2, <1>3 DEF c

\* The id a segment reuses, where the rows it continues have their ids still, is its heir's.
LEMMA HeirReused ==
  ASSUME NEW new, NEW old, Heirs(new, old), NEW k \in 1..Len(new), NEW reused,
         \A m \in Continued(new[k], old) : old[m].id \notin reused
  PROVE  ReusableId(new[k], old, reused) = HeirId(new[k], old)
<1> DEFINE s == new[k]
           free == {i \in DOMAIN old : old[i].id \notin reused}
           same == {i \in free : old[i].first = s.first}
           found == IF same # {} THEN same ELSE {i \in free : Continues(s, old[i])}
           c == Continued(s, old)
<1>1. ReusableId(s, old, reused) =
        IF found # {} /\ CanInherit(s, old[Min(found)]) THEN old[Min(found)].id ELSE 0
  BY DEF ReusableId
<1>2. Len(old) \in Nat /\ DOMAIN old = 1..Len(old) /\ same \subseteq 1..Len(old)
  BY DEF Heirs
<1>3. c = {i \in free : Continues(s, old[i])}
  BY <1>2 DEF Continued
<1>4. \A i \in same : i \in c /\ \A l \in c : i <= l
  BY <1>2 DEF Heirs
<1>5. \A m \in c : CanInherit(s, old[m])
  BY DEF Continued, Continues
<1>6. c \subseteq Int /\ c \subseteq 1..Len(old)
  BY DEF Continued
<1>7. c # {} => Min(c) \in c /\ \A m \in c : Min(c) <= m
  BY <1>2, FirstContinued
<1> HIDE DEF c, free
<1>8. CASE same = {}
  <2>1. found = c
    BY <1>3, <1>8
  <2>2. QED
    BY <1>1, <1>5, <1>7, <2>1 DEF HeirId, c
<1>9. CASE same # {}
  <2>1. PICK i \in same : TRUE
    BY <1>9
  <2>2. i \in c /\ \A l \in c : i <= l
    BY <1>4
  <2>3. Min(c) = i
    BY <1>6, <2>2, MinOf
  <2>4. \A l \in same : i <= l
    BY <1>4, <2>2
  <2>5. Min(same) = i
    <3>1. same \subseteq Int
      BY <1>2
    <3> HIDE DEF same
    <3>2. QED
      BY <2>4, <3>1, MinOf
  <2>6. found = same
    BY <1>9
  <2> HIDE DEF found, same
  <2>7. ReusableId(s, old, reused) = old[i].id
    BY <1>1, <1>5, <1>9, <2>1, <2>2, <2>5, <2>6
  <2>8. HeirId(s, old) = old[i].id
    BY <2>2, <2>3 DEF HeirId, c
  <2>9. QED
    BY <2>7, <2>8
<1>10. QED
  BY <1>8, <1>9

\* What Written has after n segments: each row has its heir's id or a new one, and the ids that
\* are reused are the heirs' of those segments.
IdsGiven(acc, n, new, old, kept) ==
  /\ \A r \in acc.rows : \E k \in 1..n :
       /\ r.first = new[k].first
       /\ IF Continued(new[k], old) # {} THEN r.id = HeirId(new[k], old)
          ELSE \A row \in kept \union ToSet(old) : row.id # r.id
  /\ \A id \in acc.reused : \E k \in 1..n : Continued(new[k], old) # {} /\ id = HeirId(new[k], old)

LEMMA IdGiven ==
  ASSUME NEW R, NEW kept, IsFiniteSet(kept), NEW old \in Seq(Row(R)), NEW new \in Seq(SegmentOf(R)),
         Heirs(new, old), NEW n \in 1..Len(new), NEW acc \in Accs(R), IdsGiven(acc, n - 1, new, old, kept)
  PROVE  IdsGiven(WriteRow(old, kept, acc, new[n]), n, new, old, kept)
<1> DEFINE s == new[n]
           reuse == ReusableId(s, old, acc.reused)
           used == {row.id : row \in kept \union acc.rows \union ToSet(old)}
           id == IF reuse # 0 THEN reuse ELSE Fresh(used)
           w == WriteRow(old, kept, acc, s)
<1>1. /\ Len(new) \in Nat /\ n \in Nat /\ n \in 1..n /\ Len(old) \in Nat
      /\ \A k \in 1..(n - 1) : k \in 1..n /\ k \in 1..Len(new) /\ k # n
  BY DEF Heirs
<1>2. ASSUME NEW m \in Continued(s, old) PROVE old[m].id \notin acc.reused
  <2>1. SUFFICES ASSUME old[m].id \in acc.reused PROVE FALSE
    OBVIOUS
  <2>2. PICK k \in 1..(n - 1) : Continued(new[k], old) # {} /\ old[m].id = HeirId(new[k], old)
    BY <2>1 DEF IdsGiven
  <2> DEFINE q == Min(Continued(new[k], old))
  <2>3. q \in Continued(new[k], old) /\ old[m].id = old[q].id
    BY <1>1, <2>2, FirstContinued DEF HeirId
  <2> HIDE DEF q
  <2>4. m \in 1..Len(old) /\ q \in 1..Len(old)
    BY <2>3 DEF Continued
  <2>5. m = q
    BY <2>3, <2>4 DEF Heirs
  <2>6. k = n
    BY <1>1, <2>3, <2>4, <2>5 DEF Heirs
  <2>7. QED
    BY <1>1, <2>6
<1>3. reuse = HeirId(s, old)
  BY <1>2, HeirReused
<1>4. Continued(s, old) # {} => reuse # 0
  <2>1. Continued(s, old) # {} => Min(Continued(s, old)) \in 1..Len(old)
    BY <1>1, FirstContinued DEF Continued
  <2>2. QED
    BY <1>3, <2>1 DEF HeirId, Heirs
<1>5. Continued(s, old) = {} => reuse = 0
  BY <1>3 DEF HeirId
<1>6. w = [rows |-> acc.rows \union {Made(id, s)}, reused |-> acc.reused \union ({reuse} \ {0})]
  BY DEF WriteRow, Made
<1>7. Fresh(used) \notin used
  <2>1. IsFiniteSet(kept \union acc.rows)
    BY FS_Union DEF Accs
  <2>2. IsFiniteSet(used)
    BY <2>1, UsedFinite
  <2>3. QED
    BY <2>2, FreshId
<1>8. \A row \in kept \union ToSet(old) : row.id \in used
  OBVIOUS
<1> HIDE DEF reuse, used, w
<1>9. /\ Continued(s, old) # {} => id = HeirId(s, old)
      /\ Continued(s, old) = {} => \A row \in kept \union ToSet(old) : row.id # id
  BY <1>3, <1>4, <1>5, <1>7, <1>8
<1> HIDE DEF id
<1>10. Made(id, s).id = id /\ Made(id, s).first = s.first
  BY DEF Made
<1>11. ASSUME NEW r \in w.rows
       PROVE  \E k \in 1..n :
                /\ r.first = new[k].first
                /\ IF Continued(new[k], old) # {} THEN r.id = HeirId(new[k], old)
                   ELSE \A row \in kept \union ToSet(old) : row.id # r.id
  <2>1. CASE r \in acc.rows
    BY <1>1, <2>1 DEF IdsGiven
  <2>2. CASE r = Made(id, s)
    BY <1>1, <1>9, <1>10, <2>2
  <2>3. QED
    BY <1>6, <1>11, <2>1, <2>2
<1>12. ASSUME NEW x \in w.reused
       PROVE  \E k \in 1..n : Continued(new[k], old) # {} /\ x = HeirId(new[k], old)
  <2>1. CASE x \in acc.reused
    BY <1>1, <2>1 DEF IdsGiven
  <2>2. CASE x \notin acc.reused
    <3>1. x = reuse /\ reuse # 0
      BY <1>6, <1>12, <2>2
    <3>2. QED
      BY <1>1, <1>3, <1>5, <3>1
  <2>3. QED
    BY <2>1, <2>2
<1>13. QED
  BY <1>11, <1>12 DEF IdsGiven, w

\* Of the rows written, each has its heir's id, or a new one where it has no heir.
HandsOn(W, new, old, kept) ==
  \A r \in W : \E k \in 1..Len(new) :
    /\ r.first = new[k].first
    /\ IF Continued(new[k], old) # {} THEN r.id = HeirId(new[k], old)
       ELSE \A row \in kept \union ToSet(old) : row.id # r.id

LEMMA IdsHandedOn ==
  ASSUME NEW R, NEW kept, IsFiniteSet(kept), NEW old \in Seq(Row(R)), NEW new \in Seq(SegmentOf(R)),
         Heirs(new, old)
  PROVE  HandsOn(Written(new, old, kept), new, old, kept)
<1> DEFINE N == Len(new)
<1>1. N \in Nat /\ \A n \in 1..N : new[n] \in SegmentOf(R)
  OBVIOUS
<1>2. PICK h : Writes(h, new, old, kept)
  BY WrittenSteps
<1>3. /\ h[0] = NothingWritten
      /\ \A n \in 1..N : h[n] = WriteRow(old, kept, h[n - 1], new[n])
      /\ Written(new, old, kept) = h[N].rows
  BY <1>2 DEF Writes
<1> HIDE DEF N
<1> DEFINE Good(n) == h[n - 1] \in Accs(R) /\ IdsGiven(h[n - 1], n - 1, new, old, kept)
           T == {n \in 1..(N + 1) : Good(n)}
<1>4. 1 \in T
  <2>1. 1 \in 1..(N + 1) /\ 1 - 1 = 0
    BY <1>1
  <2>2. NothingWritten \in Accs(R) /\ NothingWritten.rows = {} /\ NothingWritten.reused = {}
    BY FS_EmptySet DEF NothingWritten, Accs
  <2>3. IdsGiven(NothingWritten, 0, new, old, kept)
    BY <2>2 DEF IdsGiven
  <2>4. QED
    BY <1>3, <2>1, <2>2, <2>3
<1>5. ASSUME NEW n \in 1..(N + 1), n \in T, n < N + 1 PROVE n + 1 \in T
  <2>1. n \in 1..N /\ (n + 1) - 1 = n /\ n + 1 \in 1..(N + 1)
    BY <1>1, <1>5
  <2>2. Good(n)
    BY <1>5
  <2>3. h[n] = WriteRow(old, kept, h[n - 1], new[n]) /\ new[n] \in SegmentOf(R)
    BY <1>1, <1>3, <2>1
  <2>4. h[n] \in Accs(R)
    BY <2>2, <2>3, RowWritten
  <2>5. IdsGiven(h[n], n, new, old, kept)
    BY <2>1, <2>2, <2>3, IdGiven DEF N
  <2>6. QED
    BY <2>1, <2>4, <2>5
<1>6. IdsGiven(h[N], N, new, old, kept)
  <2>1. N + 1 \in Nat /\ N + 1 \in 1..(N + 1) /\ (N + 1) - 1 = N
    BY <1>1
  <2>2. N + 1 \in T
    <3> HIDE DEF T
    <3>1. QED
      BY <1>4, <1>5, <2>1, Upwards
  <2>3. QED
    BY <2>1, <2>2
<1>7. QED
  BY <1>3, <1>6 DEF N, IdsGiven, HandsOn

\* The row a record falls in is the last one that begins no later.
LEMMA RowOfIs ==
  ASSUME NEW R, Observations(R), NEW rows, RowsOK(rows, R), NEW t \in rows, NEW r, ~Before(r, t.first),
         \A u \in rows : ~Before(r, u.first) => ~Before(t.first, u.first)
  PROVE  RowOf(rows, r) = t
<1> DEFINE started == {s \in rows : ~Before(r, s.first)}
           Is(s) == \A u \in started : ~Before(s.first, u.first)
           x == CHOOSE s \in started : Is(s)
<1>1. t \in started /\ Is(t)
  OBVIOUS
<1>2. RowOf(rows, r) = x
  BY DEF RowOf
<1>3. x \in started /\ Is(x)
  <2> HIDE DEF started, Is
  <2>1. QED
    BY <1>1
<1>4. x \in rows /\ ~Before(x.first, t.first) /\ ~Before(t.first, x.first)
  <2> HIDE DEF x
  <2>1. QED
    BY <1>1, <1>3
<1> HIDE DEF x
<1>5. x.first \in R /\ t.first \in R
  BY <1>4 DEF RowsOK, Row
<1>6. x.first = t.first
  BY <1>4, <1>5, BeforeOrders
<1>7. x = t
  BY <1>4, <1>6 DEF RowsOK
<1>8. QED
  BY <1>2, <1>7

\* Rows W take the place of the rows old, beside those that are kept; the m-th of the old falls in
\* the segment at[m].
Handed(R, rows, new, old, kept, W, at) ==
  /\ Observations(R) /\ RowsOK(rows, R) /\ RowsOK(kept \union W, R)
  /\ old \in Seq(rows) /\ kept = rows \ ToSet(old) /\ Len(new) \in Nat
  /\ \A m, l \in 1..Len(old) : m < l => Before(old[m].first, old[l].first)
  /\ \A k, l \in 1..Len(new) : k # l => new[k].first # new[l].first
  /\ HandsOn(W, new, old, kept)
  /\ \A k \in 1..Len(new) : \E r \in W : r.first = new[k].first
  /\ \A m \in 1..Len(old) :
       /\ at[m] \in 1..Len(new) /\ ~Before(old[m].first, new[at[m]].first)
       /\ \A l \in 1..Len(new) : ~Before(old[m].first, new[l].first) => ~Before(new[at[m]].first, new[l].first)
       /\ \A row \in kept : Before(old[m].first, row.first) \/ Before(row.first, new[at[m]].first)
       /\ \A k \in 1..Len(new) :
            m \in Continued(new[k], old) <=> at[m] = k /\ old[m].first.kind = new[k].first.kind

\* Then the rows that live on are those whose ids do.
LivesById(rows, result) ==
  LiveOn(rows, result) = {<<s.id, s.id>> : s \in {s \in rows : \E t \in result : t.id = s.id}}

LEMMA HandedLiveOn ==
  ASSUME NEW R, NEW rows, NEW new, NEW old, NEW kept, NEW W, NEW at, Handed(R, rows, new, old, kept, W, at)
  PROVE  LivesById(rows, kept \union W)
<1> DEFINE result == kept \union W
           N == Len(new)
<1>1. /\ Observations(R) /\ RowsOK(rows, R) /\ RowsOK(result, R) /\ N \in Nat
      /\ old \in Seq(rows) /\ kept = rows \ ToSet(old) /\ Len(old) \in Nat
  BY DEF Handed
<1>2. /\ \A x \in R : ~Before(x, x)
      /\ \A x, y \in R : x # y => Before(x, y) \/ Before(y, x)
      /\ \A x, y, z \in R : Before(x, y) /\ Before(y, z) => Before(x, z)
      /\ \A x, y \in R : Before(x, y) => ~Before(y, x)
  BY <1>1, BeforeOrders
<1>3. /\ \A s \in rows : s.first \in R /\ \A t \in rows : s # t => s.id # t.id
      /\ \A s \in result : s.first \in R /\ \A t \in result : s # t => s.id # t.id /\ s.first # t.first
  BY <1>1 DEF RowsOK, Row
<1>4. /\ \A m \in 1..Len(old) : old[m] \in rows /\ old[m] \notin kept
      /\ \A s \in rows : s \in kept \/ \E m \in 1..Len(old) : old[m] = s
  BY <1>1 DEF ToSet
<1>6. \A k \in 1..N : \E r \in W : r.first = new[k].first
  BY DEF Handed
<1> DEFINE w(k) == CHOOSE r \in W : r.first = new[k].first
<1>7. \A k \in 1..N : w(k) \in W /\ w(k) \in result /\ w(k).first = new[k].first
  BY <1>6
<1> HIDE DEF w
<1>8. \A k, l \in 1..N : w(k) = w(l) => k = l
  BY <1>7 DEF Handed
<1>9. ASSUME NEW r \in W
      PROVE  \E k \in 1..N : /\ r = w(k)
                             /\ IF Continued(new[k], old) # {} THEN r.id = HeirId(new[k], old)
                                ELSE \A row \in rows : row.id # r.id
  <2>1. PICK k \in 1..N :
          /\ r.first = new[k].first
          /\ IF Continued(new[k], old) # {} THEN r.id = HeirId(new[k], old)
             ELSE \A row \in kept \union ToSet(old) : row.id # r.id
    BY <1>9 DEF Handed, HandsOn
  <2>2. r = w(k)
    BY <1>3, <1>7, <1>9, <2>1
  <2>3. rows \subseteq kept \union ToSet(old)
    BY <1>1
  <2>4. QED
    BY <2>1, <2>2, <2>3
<1>10. \A k \in 1..N : IF Continued(new[k], old) # {} THEN w(k).id = HeirId(new[k], old)
                       ELSE \A row \in rows : row.id # w(k).id
  <2>1. SUFFICES ASSUME NEW k \in 1..N
                 PROVE  IF Continued(new[k], old) # {} THEN w(k).id = HeirId(new[k], old)
                        ELSE \A row \in rows : row.id # w(k).id
    OBVIOUS
  <2>2. w(k) \in W
    BY <1>7
  <2>3. PICK j \in 1..N : /\ w(k) = w(j)
                          /\ IF Continued(new[j], old) # {} THEN w(k).id = HeirId(new[j], old)
                             ELSE \A row \in rows : row.id # w(k).id
    BY <1>9, <2>2
  <2>4. j = k
    BY <1>8, <2>3
  <2>5. QED
    BY <2>3, <2>4
<1>11. ASSUME NEW k \in 1..N, Continued(new[k], old) # {}
       PROVE  \E m \in 1..Len(old) : /\ m \in Continued(new[k], old) /\ w(k).id = old[m].id
                                     /\ \A l \in Continued(new[k], old) : m <= l
  <2>1. LET m == Min(Continued(new[k], old))
        IN  m \in Continued(new[k], old) /\ \A l \in Continued(new[k], old) : m <= l
    BY <1>1, <1>11, FirstContinued
  <2>2. Continued(new[k], old) \subseteq 1..Len(old)
    BY DEF Continued
  <2>3. QED
    BY <1>10, <1>11, <2>1, <2>2 DEF HeirId
<1>12. ASSUME NEW s \in kept PROVE RowOf(result, s.first) = s
  <2>1. s \in result /\ s.first \in R
    BY <1>3
  <2>2. ~Before(s.first, s.first)
    BY <1>2, <2>1
  <2> HIDE DEF result
  <2>3. QED
    BY <1>1, <2>1, <2>2, RowOfIs
<1>13. ASSUME NEW m \in 1..Len(old) PROVE at[m] \in 1..N /\ RowOf(result, old[m].first) = w(at[m])
  <2>1. /\ at[m] \in 1..N /\ ~Before(old[m].first, new[at[m]].first)
        /\ \A l \in 1..N : ~Before(old[m].first, new[l].first) => ~Before(new[at[m]].first, new[l].first)
        /\ \A row \in kept : Before(old[m].first, row.first) \/ Before(row.first, new[at[m]].first)
    BY DEF Handed
  <2>2. w(at[m]) \in result /\ w(at[m]).first = new[at[m]].first /\ new[at[m]].first \in R
    BY <1>3, <1>7, <2>1
  <2>3. ASSUME NEW u \in result, ~Before(old[m].first, u.first) PROVE ~Before(new[at[m]].first, u.first)
    <3>1. CASE u \in kept
      <4>1. Before(u.first, new[at[m]].first)
        BY <2>1, <2>3, <3>1
      <4>2. QED
        BY <1>2, <1>3, <2>2, <4>1
    <3>2. CASE u \in W
      <4>1. PICK l \in 1..N : u = w(l)
        BY <1>9, <3>2
      <4>2. QED
        BY <1>7, <2>1, <2>3, <4>1
    <3>3. QED
      BY <3>1, <3>2
  <2>4. \A u \in result : ~Before(old[m].first, u.first) => ~Before(w(at[m]).first, u.first)
    BY <2>2, <2>3
  <2>5. ~Before(old[m].first, w(at[m]).first)
    BY <2>1, <2>2
  <2> HIDE DEF result
  <2>6. RowOf(result, old[m].first) = w(at[m])
    BY <1>1, <2>2, <2>4, <2>5, RowOfIs
  <2>7. QED
    BY <2>1, <2>6
<1>14. \A m \in 1..Len(old), k \in 1..N :
         m \in Continued(new[k], old) <=> at[m] = k /\ old[m].first.kind = new[k].first.kind
  BY DEF Handed
<1>15. \A m, l \in 1..Len(old) : m < l => Before(old[m].first, old[l].first)
  BY DEF Handed
<1>16. \A k \in 1..N : w(k) \notin kept \/ Continued(new[k], old) # {}
  BY <1>1, <1>10
<1>17. \A k \in 1..N : w(k) \notin kept
  <2>1. ASSUME NEW k \in 1..N, w(k) \in kept PROVE FALSE
    <3>1. PICK m \in 1..Len(old) : w(k).id = old[m].id
      BY <1>11, <1>16, <2>1
    <3>2. w(k) \in rows /\ old[m] \in rows /\ w(k) # old[m]
      BY <1>1, <1>4, <2>1
    <3>3. QED
      BY <1>3, <3>1, <3>2
  <2>2. QED
    BY <2>1
<1> DEFINE to(s) == RowOf(result, s.first)
           merged == {s \in rows : s.first.kind = to(s).first.kind}
           live(s) == \A m \in merged : to(m) = to(s) => ~Before(m.first, s.first)
<1>18. LiveOn(rows, result) = {<<s.id, to(s).id>> : s \in {s \in merged : live(s)}}
  <2> DEFINE H == {<<s, to(s)>> : s \in rows}
             M == {h \in H : h[1].first.kind = h[2].first.kind}
             L == {h \in M : \A m \in M : m[2] = h[2] => ~Before(m[1].first, h[1].first)}
  <2>1. LiveOn(rows, result) = {<<h[1].id, h[2].id>> : h \in L}
    BY DEF LiveOn
  <2>2. \A h : h \in M <=> \E s \in merged : h = <<s, to(s)>>
    <3> HIDE DEF to
    <3>1. QED
      OBVIOUS
  <2>3. ASSUME NEW s \in merged PROVE <<s, to(s)>> \in L <=> live(s)
    <3> HIDE DEF to, merged, M
    <3>1. <<s, to(s)>> \in M
      BY <2>2, <2>3
    <3>2. ASSUME NEW m \in M PROVE m[1] \in merged /\ m[2] = to(m[1])
      BY <2>2, <3>2
    <3>3. \A x \in merged : <<x, to(x)>> \in M
      BY <2>2
    <3>4. ASSUME live(s) PROVE <<s, to(s)>> \in L
      BY <3>1, <3>2, <3>4
    <3>5. ASSUME <<s, to(s)>> \in L, NEW x \in merged, to(x) = to(s) PROVE ~Before(x.first, s.first)
      BY <3>3, <3>5
    <3>6. QED
      BY <3>4, <3>5
  <2>4. L \subseteq M
    OBVIOUS
  <2> HIDE DEF to, merged, live, M, L
  <2>5. \A h \in L : \E s \in merged : live(s) /\ h = <<s, to(s)>>
    BY <2>2, <2>3, <2>4
  <2>6. \A s \in merged : live(s) => <<s, to(s)>> \in L
    BY <2>3
  <2>7. {<<h[1].id, h[2].id>> : h \in L} = {<<s.id, to(s).id>> : s \in {s \in merged : live(s)}}
    <3>1. ASSUME NEW x \in {<<h[1].id, h[2].id>> : h \in L}
          PROVE  x \in {<<s.id, to(s).id>> : s \in {s \in merged : live(s)}}
      <4>1. PICK h \in L : x = <<h[1].id, h[2].id>>
        BY <3>1
      <4>2. PICK s \in merged : live(s) /\ h = <<s, to(s)>>
        BY <2>5
      <4>3. x = <<s.id, to(s).id>>
        BY <4>1, <4>2
      <4>4. QED
        BY <4>2, <4>3
    <3>2. ASSUME NEW x \in {<<s.id, to(s).id>> : s \in {s \in merged : live(s)}}
          PROVE  x \in {<<h[1].id, h[2].id>> : h \in L}
      <4>1. PICK s \in merged : live(s) /\ x = <<s.id, to(s).id>>
        BY <3>2
      <4>2. <<s, to(s)>> \in L
        BY <2>6, <4>1
      <4>3. QED
        BY <4>1, <4>2
    <3>3. QED
      BY <3>1, <3>2
  <2>8. QED
    BY <2>1, <2>7
<1>19. \A s \in kept : to(s) = s /\ s \in merged
  BY <1>1, <1>12
<1>20. \A m \in 1..Len(old) :
         /\ at[m] \in 1..N /\ to(old[m]) = w(at[m])
         /\ old[m] \in merged <=> m \in Continued(new[at[m]], old)
  <2>1. SUFFICES ASSUME NEW m \in 1..Len(old)
                 PROVE  /\ at[m] \in 1..N /\ to(old[m]) = w(at[m])
                        /\ old[m] \in merged <=> m \in Continued(new[at[m]], old)
    OBVIOUS
  <2>2. at[m] \in 1..N /\ to(old[m]) = w(at[m])
    BY <1>13
  <2>3. to(old[m]).first = new[at[m]].first
    BY <1>7, <2>2
  <2>4. old[m] \in merged <=> old[m].first.kind = to(old[m]).first.kind
    BY <1>4
  <2>5. m \in Continued(new[at[m]], old) <=> old[m].first.kind = new[at[m]].first.kind
    BY <1>14, <2>2
  <2>6. QED
    BY <2>2, <2>3, <2>4, <2>5
<1> HIDE DEF to, merged
<1>20a. merged \subseteq rows
  BY DEF merged
<1>21. ASSUME NEW s \in kept PROVE live(s)
  <2>1. ASSUME NEW x \in merged, to(x) = to(s) PROVE ~Before(x.first, s.first)
    <3>1. x \notin kept => \E m \in 1..Len(old) : old[m] = x
      BY <1>4, <1>20a, <2>1
    <3>2. x \in kept
      BY <1>17, <1>19, <1>20, <1>21, <2>1, <3>1
    <3>3. x = s
      BY <1>19, <1>21, <2>1, <3>2
    <3>4. s.first \in R
      BY <1>1, <1>3, <1>21
    <3>5. QED
      BY <1>2, <3>3, <3>4
  <2>2. QED
    BY <2>1
<1>22. ASSUME NEW m \in 1..Len(old), old[m] \in merged, live(old[m]) PROVE to(old[m]).id = old[m].id
  <2>1. at[m] \in 1..N /\ to(old[m]) = w(at[m]) /\ m \in Continued(new[at[m]], old)
    BY <1>20, <1>22
  <2>2. PICK l \in 1..Len(old) : /\ l \in Continued(new[at[m]], old) /\ w(at[m]).id = old[l].id /\ l <= m
    BY <1>11, <2>1
  <2>3. at[l] = at[m]
    BY <1>14, <2>1, <2>2
  <2>4. old[l] \in merged /\ to(old[l]) = to(old[m])
    BY <1>20, <2>1, <2>2, <2>3
  <2>5. ~Before(old[l].first, old[m].first)
    BY <1>22, <2>4
  <2>6. l = m
    BY <1>15, <2>2, <2>5
  <2>7. QED
    BY <2>1, <2>2, <2>6
<1>23. ASSUME NEW m \in 1..Len(old), NEW t \in result, t.id = old[m].id
       PROVE  old[m] \in merged /\ live(old[m])
  <2>1. t \notin kept
    BY <1>1, <1>3, <1>4, <1>23
  <2>2. PICK k \in 1..N : t = w(k) /\ IF Continued(new[k], old) # {} THEN t.id = HeirId(new[k], old)
                                      ELSE \A row \in rows : row.id # t.id
    BY <1>9, <2>1
  <2>3. Continued(new[k], old) # {}
    BY <1>4, <1>23, <2>2
  <2>4. PICK l \in 1..Len(old) : /\ l \in Continued(new[k], old) /\ w(k).id = old[l].id
                                 /\ \A i \in Continued(new[k], old) : l <= i
    BY <1>11, <2>3
  <2>5. old[l] = old[m]
    BY <1>3, <1>4, <1>23, <2>2, <2>4
  <2>6. at[l] = k /\ old[l] \in merged /\ to(old[l]) = w(k)
    BY <1>14, <1>20, <2>4
  <2>7. ASSUME NEW x \in merged, to(x) = to(old[l]) PROVE ~Before(x.first, old[l].first)
    <3>1. x \notin kept
      BY <1>17, <1>19, <2>6, <2>7
    <3>2. PICK i \in 1..Len(old) : old[i] = x
      BY <1>4, <1>20a, <2>7, <3>1
    <3>3. at[i] = k /\ i \in Continued(new[k], old)
      BY <1>8, <1>20, <2>6, <2>7, <3>2
    <3>4. l <= i
      BY <2>4, <3>3
    <3>5. i = l \/ Before(old[l].first, old[i].first)
      BY <1>15, <3>4
    <3>6. old[l].first \in R /\ old[i].first \in R
      BY <1>3, <1>4
    <3>7. QED
      BY <1>2, <3>2, <3>5, <3>6
  <2>8. QED
    BY <2>5, <2>6, <2>7
<1> HIDE DEF live
<1>24. ASSUME NEW s \in rows
       PROVE  /\ s \in merged /\ live(s) => to(s).id = s.id /\ \E t \in result : t.id = s.id
              /\ (\E t \in result : t.id = s.id) => s \in merged /\ live(s)
  <2>1. CASE s \in kept
    BY <1>19, <1>21, <2>1
  <2>2. CASE s \notin kept
    <3>1. PICK m \in 1..Len(old) : old[m] = s
      BY <1>4, <1>24, <2>2
    <3>2. to(s) \in result
      BY <1>7, <1>20, <3>1
    <3>3. QED
      BY <1>22, <1>23, <3>1, <3>2
  <2>3. QED
    BY <2>1, <2>2
<1>25. {<<s.id, to(s).id>> : s \in {s \in merged : live(s)}} = {<<s.id, s.id>> : s \in {s \in rows : \E t \in result : t.id = s.id}}
  <2> DEFINE A == {s \in merged : live(s)}
             B == {s \in rows : \E t \in result : t.id = s.id}
  <2>1. A = B /\ \A s \in A : to(s).id = s.id
    BY <1>20a, <1>24
  <2> HIDE DEF A, B
  <2>2. {<<s.id, to(s).id>> : s \in A} = {<<s.id, s.id>> : s \in B}
    BY <2>1
  <2>3. QED
    BY <2>2 DEF A, B
<1>26. QED
  BY <1>18, <1>25 DEF LivesById

\* A replay gives the rows it replaces on as the segments they fall in ask for.
LEMMA ReplayHands ==
  ASSUME NEW R, IsFiniteSet(R), Observations(R), NEW S \in SUBSET R, NEW rows, RowsOK(rows, S),
         NEW start \in Int, NEW t, NEW now, NEW F, F = {r \in R : r.observedAt >= start},
         NEW p, NEW projected, NEW through, Replays(R, rows, start, F, p, projected, through, t, now),
         NEW result, result = Replace(rows, projected, Rows(Held(rows, start, through)), t),
         RowsOK(result, R), StartsDiffer(result)
  PROVE  LivesById(rows, result)
<1> DEFINE T == Seen(F)
           H == Held(rows, start, through)
           existing == Rows(H)
<1>1. /\ RowsOK(rows, R) /\ IsFiniteSet(rows) /\ rows \subseteq Row(R)
      /\ \A s \in rows : s.first \in R /\ Start(s) \in Int /\ s.id # 0 /\ s.first.kind # "active"
      /\ \A s, u \in rows : s # u => s.id # u.id
  <2>1. RowsOK(rows, R)
    BY RowsOfMore
  <2>2. \A s \in rows : s.first \in R /\ s.id # 0 /\ s.first.kind # "active"
    BY <2>1 DEF RowsOK, Row, Shape
  <2>3. QED
    BY <2>1, <2>2 DEF RowsOK, Observations, Start
<1>2. /\ T \in SUBSET R /\ IsFiniteSet(T) /\ Observations(T) /\ \A r \in T : r.observedAt >= start /\ r.observedAt \in Int
      /\ \A r \in R : r.kind # "active" /\ r.observedAt >= start => r \in T
  <2>1. /\ T \in SUBSET R /\ \A r \in T : r.observedAt >= start
        /\ \A r \in R : r.kind # "active" /\ r.observedAt >= start => r \in T
    BY DEF Seen
  <2> HIDE DEF T
  <2>2. IsFiniteSet(T)
    BY <2>1, FS_Subset
  <2>3. QED
    BY <2>1, <2>2 DEF Observations
<1>3. ToldOf(p, T)
  <2>1. Told(p, T)
    BY DEF Replays
  <2> HIDE DEF T
  <2>2. QED
    BY <1>2, <2>1, ToldHas
<1>4. /\ existing \in Seq(rows) /\ ToSet(existing) = H /\ Len(existing) \in Nat
      /\ \A k, l \in 1..Len(existing) : k < l => Before(existing[k].first, existing[l].first)
      /\ \A m \in 1..Len(existing) : existing[m] \in H
      /\ \A s \in H : \E m \in 1..Len(existing) : existing[m] = s
  <2>1. H \in SUBSET rows
    BY DEF Held
  <2> HIDE DEF H
  <2>2. /\ existing \in Seq(rows) /\ ToSet(existing) = H /\ Len(existing) \in Nat
        /\ \A k, l \in 1..Len(existing) : k < l => Before(existing[k].first, existing[l].first)
    BY <1>1, <2>1, RowsInOrder
  <2> HIDE DEF existing
  <2>3. QED
    BY <2>2 DEF ToSet
<1> HIDE DEF T, H, existing
<1>5. projected \in Seq(SegmentOf(R)) /\ Len(projected) \in Nat /\ Len(projected) <= Len(p)
  <2>1. \A X : projected \in Seq(X) => Len(projected) \in Nat
    OBVIOUS
  <2>2. QED
    BY <2>1 DEF Replays
<1>6. PICK i, j, new, old : CutAt(R, rows, projected, existing, t, i, j, new, old)
  BY <1>4, <1>5, ReplaceCuts
<1> DEFINE N == Len(new)
           kept == rows \ ToSet(old)
           W == Written(new, old, kept)
<1>7. /\ result = kept \union W
      /\ i \in 0..Len(projected) /\ (i = 0 => j = Len(existing) + 1)
      /\ new \in Seq(SegmentOf(R)) /\ N \in Nat /\ N = IF i = 0 THEN Len(projected) ELSE i - 1
      /\ old \in Seq(rows) /\ Len(old) = j - 1 /\ Len(old) \in Nat
      /\ ToSet(old) = {existing[k] : k \in 1..(j - 1)}
  <2>1. \A X : new \in Seq(X) => Len(new) \in Nat
    OBVIOUS
  <2>2. \A X : old \in Seq(X) => Len(old) \in Nat
    OBVIOUS
  <2>3. QED
    BY <1>6, <2>1, <2>2 DEF CutAt, existing, H
<1>8. /\ i = 0 => \A k \in 1..Len(projected), m \in 1..Len(existing) :
                    Reaches(projected[k], t) => ~SameAs(projected[k], existing[m])
      /\ i # 0 => j \in 1..Len(existing) /\ projected[i].first = existing[j].first
      /\ \A k \in 1..N : k \in 1..Len(projected) /\ new[k] = projected[k]
      /\ \A k \in 1..(j - 1) : old[k] = existing[k]
  BY <1>6 DEF CutAt, SameAs
<1> HIDE DEF N, kept, W
<1>9. WrittenAs(W, new, N)
  <2>1. IsFiniteSet(kept)
    BY <1>1, FS_Subset DEF kept
  <2>2. old \in Seq(Row(R))
    BY <1>1, <1>7
  <2>3. QED
    BY <1>7, <2>1, <2>2, WrittenFields DEF W, N
<1>10. i = 0 => N = Len(p)
  <2>1. SUFFICES ASSUME i = 0, Len(projected) # Len(p) PROVE FALSE
    BY <1>7
  <2>2. PICK k \in 1..Len(projected), row \in rows :
          /\ SameAs(projected[k], row) /\ Reaches(projected[k], t)
          /\ Start(row) >= start /\ Start(row) <= through
    BY <2>1 DEF Replays, Stops
  <2>3. row \in H
    BY <2>2 DEF H, Held
  <2>4. PICK m \in 1..Len(existing) : existing[m] = row
    BY <1>4, <2>3
  <2>5. QED
    BY <1>8, <2>1, <2>2, <2>4
<1>11. /\ N <= Len(p) /\ Len(p) \in Nat /\ \A k \in 1..N : k \in 1..Len(p)
       /\ \A k \in 1..N : /\ new[k].first = p[k].first /\ new[k].last = p[k].last
                          /\ new[k].ended = IF k = Len(p) THEN EffectiveEnd(p[k], now) ELSE p[k].ended
       /\ N # Len(p) => i # 0 /\ N + 1 = i /\ i \in 1..Len(projected) /\ i \in 1..Len(p)
  <2>1. Len(p) \in Nat
    BY <1>3 DEF ToldOf
  <2>2. \A k \in 1..Len(projected) :
          /\ projected[k].first = p[k].first /\ projected[k].last = p[k].last
          /\ projected[k].ended = IF k = Len(p) THEN EffectiveEnd(p[k], now) ELSE p[k].ended
    BY DEF Replays
  <2>3. N <= Len(p) /\ (N # Len(p) => i # 0 /\ N + 1 = i /\ i \in 1..Len(projected) /\ i \in 1..Len(p))
    BY <1>5, <1>7, <1>10, <2>1
  <2>4. \A k \in 1..N : k \in 1..Len(p)
    BY <1>7, <2>1, <2>3
  <2>5. QED
    BY <1>8, <2>1, <2>2, <2>3, <2>4
<1>12. /\ \A x \in R : ~Before(x, x)
       /\ \A x, y \in R : x # y => Before(x, y) \/ Before(y, x)
       /\ \A x, y, z \in R : Before(x, y) /\ Before(y, z) => Before(x, z)
       /\ \A x, y \in R : Before(x, y) => ~Before(y, x)
  BY BeforeOrders
<1>13. /\ \A k \in 1..Len(p) : p[k].first \in R /\ p[k].first \in T /\ Start(p[k]) \in Int /\ Start(p[k]) >= start
       /\ \A k, l \in 1..Len(p) : k < l => Before(p[k].first, p[l].first)
  BY <1>2, <1>3 DEF ToldOf, Start
<1>14. \A k, l \in 1..N : k # l => new[k].first # new[l].first
  <2>1. \A k, l \in 1..N : k # l => Before(p[k].first, p[l].first) \/ Before(p[l].first, p[k].first)
    BY <1>7, <1>11, <1>13
  <2>2. QED
    BY <1>11, <1>12, <1>13, <2>1
<1>15. \A k \in 1..N : \E r \in W : r.first = new[k].first
  BY <1>9 DEF WrittenAs, SameAs
<1>16. BegunAs(new, p, now)
  <2>1. ASSUME NEW k \in 1..N, NEW l \in 1..N, k # l PROVE Start(p[k]) # Start(p[l])
    <3>1. PICK r \in W : r.first = new[k].first
      BY <1>15
    <3>2. PICK u \in W : u.first = new[l].first
      BY <1>15
    <3>3. r # u /\ r \in result /\ u \in result
      BY <1>7, <1>14, <2>1, <3>1, <3>2
    <3>4. Start(r) # Start(u)
      BY <3>3 DEF StartsDiffer
    <3>5. QED
      BY <1>11, <3>1, <3>2, <3>4 DEF Start
  <2>2. QED
    BY <1>7, <1>11, <2>1 DEF BegunAs, N
<1>17. ASSUME NEW m \in 1..Len(old)
       PROVE  /\ old[m] \in H /\ old[m] = existing[m] /\ m \in 1..Len(existing) /\ m < j /\ old[m] \in rows
              /\ old[m].first \in T /\ old[m].first \in R
              /\ N = Len(p) \/ Before(old[m].first, p[N + 1].first)
  <2>1. m \in 1..(j - 1) /\ m < j /\ m \in 1..Len(existing)
    <3>1. i # 0 => j \in 1..Len(existing)
      BY <1>8
    <3>2. QED
      BY <1>4, <1>7, <3>1
  <2>2. old[m] = existing[m] /\ old[m] \in H
    BY <1>4, <1>8, <2>1
  <2>3. old[m] \in rows /\ Start(old[m]) >= start
    BY <2>2 DEF H, Held
  <2>4. old[m].first \in R /\ old[m].first \in T
    BY <1>1, <1>2, <2>3 DEF Start
  <2>5. ASSUME N # Len(p) PROVE Before(old[m].first, p[N + 1].first)
    <3>1. i # 0 /\ N + 1 = i /\ i \in 1..Len(projected)
      BY <1>11, <2>5
    <3>2. projected[i].first = existing[j].first /\ j \in 1..Len(existing)
      BY <1>8, <3>1
    <3>3. projected[i].first = p[i].first
      BY <3>1 DEF Replays
    <3>4. Before(existing[m].first, existing[j].first)
      BY <1>4, <2>1, <3>2
    <3>5. QED
      BY <2>2, <3>1, <3>2, <3>3, <3>4
  <2>6. QED
    BY <2>1, <2>2, <2>3, <2>4, <2>5
<1> DEFINE Falls(k, m) == FallsIn(p, k, old[m].first)
           at == [m \in 1..Len(old) |-> CHOOSE k \in 1..N : Falls(k, m)]
<1>18. ASSUME NEW m \in 1..Len(old) PROVE \E k \in 1..N : Falls(k, m)
  <2>1. old[m].first \in T /\ (N = Len(p) \/ Before(old[m].first, p[N + 1].first))
    BY <1>17
  <2>2. PICK k \in 1..Len(p) : FallsIn(p, k, old[m].first)
    BY <1>3, <2>1, PieceFound
  <2>3. k <= N
    <3>1. SUFFICES ASSUME N < k PROVE FALSE
      BY <1>7, <1>11
    <3>2. N # Len(p) /\ N + 1 \in 1..Len(p) /\ (N + 1 = k \/ N + 1 < k)
      BY <1>7, <1>11, <3>1
    <3>3. Before(old[m].first, p[N + 1].first) /\ (N + 1 = k \/ Before(p[N + 1].first, p[k].first))
      BY <1>13, <2>1, <3>2
    <3>4. Before(old[m].first, p[k].first)
      BY <1>12, <1>13, <1>17, <3>2, <3>3
    <3>5. QED
      BY <2>2, <3>4 DEF FallsIn
  <2>4. k \in 1..N
    BY <1>7, <1>11, <2>3
  <2>5. QED
    BY <2>2, <2>4
<1>19. \A m \in 1..Len(old) : at[m] \in 1..N /\ at[m] \in 1..Len(p) /\ Falls(at[m], m)
  <2>1. \A m \in 1..Len(old) : at[m] \in 1..N /\ Falls(at[m], m)
    <3> HIDE DEF Falls
    <3>1. QED
      BY <1>18
  <2> HIDE DEF at, Falls
  <2>2. QED
    BY <1>11, <2>1
<1> HIDE DEF at
<1>20. ASSUME NEW m \in 1..Len(old), NEW k \in 1..N, ~Before(old[m].first, p[k].first)
       PROVE  k <= at[m] /\ (Falls(k, m) => at[m] = k)
  <2>1. old[m].first \in T /\ at[m] \in 1..Len(p) /\ k \in 1..Len(p) /\ FallsIn(p, at[m], old[m].first)
    BY <1>11, <1>17, <1>19
  <2>2. QED
    BY <1>3, <1>20, <2>1, PiecesApart
<1>21. ASSUME NEW m \in 1..Len(old), NEW k \in 1..N
       PROVE  m \in Continued(new[k], old) <=> at[m] = k /\ old[m].first.kind = new[k].first.kind
  <2>1. old[m].first \in T /\ (Len(new) = Len(p) \/ Before(old[m].first, p[Len(new) + 1].first))
    BY <1>17 DEF N
  <2>2. Continues(new[k], old[m]) <=> Falls(k, m) /\ old[m].first.kind = new[k].first.kind
    <3>1. k \in 1..Len(new)
      BY DEF N
    <3>2. QED
      BY <1>3, <1>16, <2>1, <3>1, Inherits
  <2>3. Falls(k, m) <=> at[m] = k
    <3>1. Falls(k, m) => ~Before(old[m].first, p[k].first)
      BY DEF FallsIn
    <3>2. QED
      BY <1>19, <1>20, <3>1
  <2>4. QED
    BY <2>2, <2>3 DEF Continued
<1>22. \A m, l \in 1..Len(old) : m < l => Before(old[m].first, old[l].first)
  BY <1>4, <1>17
<1>23. Heirs(new, old)
  <2>1. DOMAIN old = 1..Len(old) /\ Len(old) \in Nat
    BY <1>7
  <2>2. \A m, l \in 1..Len(old) : m # l => old[m].id # old[l].id
    <3>1. SUFFICES ASSUME NEW m \in 1..Len(old), NEW l \in 1..Len(old), m # l PROVE old[m].id # old[l].id
      OBVIOUS
    <3>2. Before(old[m].first, old[l].first) \/ Before(old[l].first, old[m].first)
      BY <1>22, <2>1, <3>1
    <3>3. old[m] # old[l]
      BY <1>12, <1>17, <3>2
    <3>4. QED
      BY <1>1, <1>17, <3>3
  <2>3. \A m \in 1..Len(old) : old[m].id # 0
    BY <1>1, <1>17
  <2>4. ASSUME NEW k \in 1..N, NEW m \in 1..Len(old), old[m].first = new[k].first
        PROVE  m \in Continued(new[k], old) /\ \A l \in Continued(new[k], old) : m <= l
    <3>1. old[m].first = p[k].first /\ k \in 1..Len(p)
      BY <1>11, <2>4
    <3>2. k # Len(p) => Before(p[k].first, p[k + 1].first)
      <4>1. k # Len(p) => k + 1 \in 1..Len(p) /\ k < k + 1
        BY <1>11, <3>1
      <4>2. QED
        BY <1>13, <3>1, <4>1
    <3>3. ~Before(p[k].first, p[k].first)
      BY <1>12, <1>13, <3>1
    <3>4. Falls(k, m)
      BY <3>1, <3>2, <3>3 DEF FallsIn
    <3>5. at[m] = k
      BY <1>20, <3>1, <3>3, <3>4
    <3>6. m \in Continued(new[k], old)
      BY <1>21, <2>4, <3>5
    <3>7. ASSUME NEW l \in Continued(new[k], old) PROVE m <= l
      <4>1. l \in 1..Len(old)
        BY DEF Continued
      <4>2. at[l] = k
        BY <1>21, <4>1, <3>7
      <4>3. ~Before(old[l].first, old[m].first)
        BY <1>19, <3>1, <4>1, <4>2 DEF FallsIn
      <4>4. QED
        BY <1>22, <2>1, <4>1, <4>3
    <3>8. QED
      BY <3>6, <3>7
  <2>5. \A k, l \in 1..N, m \in 1..Len(old) :
          m \in Continued(new[k], old) /\ m \in Continued(new[l], old) => k = l
    BY <1>21
  <2>6. QED
    BY <1>7, <2>1, <2>2, <2>3, <2>4, <2>5 DEF Heirs, N
<1>24. HandsOn(W, new, old, kept)
  <2>1. IsFiniteSet(kept)
    BY <1>1, FS_Subset DEF kept
  <2>2. old \in Seq(Row(R))
    BY <1>1, <1>7
  <2>3. QED
    BY <1>7, <1>23, <2>1, <2>2, IdsHandedOn DEF W
<1>25. ASSUME NEW m \in 1..Len(old), NEW row \in kept
       PROVE  Before(old[m].first, row.first) \/ Before(row.first, new[at[m]].first)
  <2>1. row \in rows /\ row.first \in R /\ Start(row) \in Int /\ old[m] \in H /\ Start(old[m]) \in Int
    BY <1>1, <1>17 DEF kept
  <2>2. CASE Start(row) < start
    <3>1. at[m] \in 1..N /\ at[m] \in 1..Len(p)
      BY <1>19
    <3>2. new[at[m]].first = p[at[m]].first /\ Start(p[at[m]]) >= start /\ Start(p[at[m]]) \in Int
      BY <1>11, <1>13, <3>1
    <3>3. Start(row) < Start(p[at[m]])
      BY <2>1, <2>2, <3>2
    <3>4. QED
      BY <3>2, <3>3 DEF Before, Start
  <2>3. CASE row \in H
    <3>1. PICK l \in 1..Len(existing) : existing[l] = row
      BY <1>4, <2>3
    <3>2. ~(l <= j - 1)
      <4>1. row \notin ToSet(old)
        BY <1>25 DEF kept
      <4>2. l \notin 1..(j - 1)
        BY <1>7, <3>1, <4>1
      <4>3. QED
        BY <1>4, <1>7, <1>8, <4>2
    <3>3. m < l
      <4>1. m < j /\ m \in 1..Len(existing)
        BY <1>17
      <4>2. j \in Int
        BY <1>4, <1>7, <1>8
      <4>3. QED
        BY <1>4, <3>2, <4>1, <4>2
    <3>4. QED
      BY <1>4, <1>17, <3>1, <3>3
  <2>4. CASE ~(Start(row) < start) /\ row \notin H
    <3>1. through # Open /\ ~(Start(row) <= through)
      BY <2>1, <2>4 DEF H, Held
    <3>2. through \in Int
      BY <3>1 DEF Replays, Stops
    <3>3. Start(old[m]) <= through
      BY <2>1, <3>1 DEF H, Held
    <3>4. Start(old[m]) < Start(row)
      BY <2>1, <3>1, <3>2, <3>3
    <3>5. QED
      BY <3>4 DEF Before, Start
  <2>5. QED
    BY <2>2, <2>3, <2>4
<1>26. ASSUME NEW m \in 1..Len(old)
       PROVE  /\ ~Before(old[m].first, new[at[m]].first)
              /\ \A l \in 1..N : ~Before(old[m].first, new[l].first) => ~Before(new[at[m]].first, new[l].first)
  <2>1. at[m] \in 1..N /\ at[m] \in 1..Len(p) /\ new[at[m]].first = p[at[m]].first
    BY <1>11, <1>19
  <2>2. ~Before(old[m].first, p[at[m]].first)
    BY <1>19 DEF FallsIn
  <2>3. ASSUME NEW l \in 1..N, ~Before(old[m].first, new[l].first) PROVE ~Before(new[at[m]].first, new[l].first)
    <3>1. new[l].first = p[l].first /\ l \in 1..Len(p)
      BY <1>11
    <3>2. l <= at[m]
      BY <1>20, <2>3, <3>1
    <3>3. l = at[m] \/ Before(p[l].first, p[at[m]].first)
      BY <1>13, <2>1, <3>1, <3>2
    <3>4. QED
      BY <1>12, <1>13, <2>1, <3>1, <3>3
  <2>4. QED
    BY <2>1, <2>2, <2>3
<1>27. Handed(R, rows, new, old, kept, W, at)
  <2>1. kept = rows \ ToSet(old) /\ RowsOK(kept \union W, R)
    BY <1>7 DEF kept
  <2>2. \A m \in 1..Len(old), k \in 1..N :
          m \in Continued(new[k], old) <=> at[m] = k /\ old[m].first.kind = new[k].first.kind
    BY <1>21
  <2>3. \A m \in 1..Len(old), row \in kept :
          Before(old[m].first, row.first) \/ Before(row.first, new[at[m]].first)
    BY <1>25
  <2>4. QED
    BY <1>1, <1>7, <1>14, <1>15, <1>19, <1>22, <1>24, <1>26, <2>1, <2>2, <2>3, Zenon DEF Handed, N
<1>28. QED
  BY <1>7, <1>27, HandedLiveOn

\* The first segment keeps its first record, whatever is fed.
BeginsAs(g, z) == Len(g) \in Nat \ {0} /\ g[1].first = z.first

LEMMA FirstStays ==
  ASSUME NEW R, \A q \in R : q.observedAt \in Int, NEW z \in SegmentOf(R), NEW rs \in Seq(R)
  PROVE  BeginsAs(Project(<<z>>, rs), z)
<1> DEFINE p == <<z>>
           N == Len(rs)
           f == Fed(p, rs)
<1>1. p \in Seq(SegmentOf(R)) /\ BeginsAs(p, z) /\ N \in Nat /\ \A n \in 1..N : rs[n] \in R
  BY DEF BeginsAs
<1> HIDE DEF p
<1>2. Feeds(f, p, rs, R)
  BY <1>1, FedSteps
<1>3. ASSUME NEW g \in Seq(SegmentOf(R)), BeginsAs(g, z), NEW r \in R PROVE BeginsAs(Feed(g, r), z)
  <2> DEFINE n == Len(g)
             opened == [first |-> r, last |-> r, ended |-> Open]
             e == [g[n] EXCEPT !.last = r, !.ended = Open]
             c == CloseAt(g[n], r.observedAt)
             o == [g EXCEPT ![n] = c]
  <2>1. n \in Nat /\ n # 0 /\ n \in 1..n /\ 1 \in 1..n /\ g \in [1..n -> SegmentOf(R)] /\ g[1].first = z.first
    BY <1>3 DEF BeginsAs
  <2>2. g[n] \in SegmentOf(R) /\ r.observedAt \in Int /\ g[n].last.observedAt \in Int
    BY <2>1 DEF SegmentOf
  <2>3. e.first = g[n].first
    BY <2>2 DEF SegmentOf
  <2>4. c.first = g[n].first
    BY <2>2 DEF SegmentOf, CloseAt
  <2>5. Feed(g, r) \in {g, [g EXCEPT ![n] = e], Append(o, opened)}
    BY <2>1 DEF Feed
  <2>6. BeginsAs([g EXCEPT ![n] = e], z)
    <3> HIDE DEF e
    <3>1. Len([g EXCEPT ![n] = e]) = n
      BY <2>1
    <3>2. [g EXCEPT ![n] = e][1] = IF n = 1 THEN e ELSE g[1]
      BY <2>1
    <3>3. QED
      BY <2>1, <2>3, <3>1, <3>2 DEF BeginsAs
  <2>7. BeginsAs(Append(o, opened), z)
    <3> HIDE DEF c, opened
    <3>1. Len(o) = n /\ o[1] = (IF n = 1 THEN c ELSE g[1]) /\ DOMAIN o = 1..n
      BY <2>1
    <3>2. \E X : o \in Seq(X)
      <4> DEFINE X == {o[k] : k \in 1..n}
      <4>1. o \in [1..n -> X]
        BY <2>1, <3>1
      <4> HIDE DEF X, o, n
      <4>2. o \in Seq(X)
        BY <2>1, <4>1
      <4>3. QED
        BY <4>2
    <3> HIDE DEF o
    <3>3. Len(Append(o, opened)) = n + 1 /\ Append(o, opened)[1] = o[1]
      BY <2>1, <3>1, <3>2
    <3>4. QED
      BY <2>1, <2>4, <3>1, <3>3 DEF BeginsAs
  <2>8. QED
    BY <1>3, <2>5, <2>6, <2>7
<1> DEFINE T == {m \in 1..(N + 1) : BeginsAs(f[m - 1], z)}
<1> HIDE DEF f
<1>4. /\ f[0] = p
      /\ \A n \in 0..N : f[n] \in Seq(SegmentOf(R))
      /\ \A n \in 1..N : f[n] = Feed(f[n - 1], rs[n])
  BY <1>2 DEF Feeds
<1>5. 1 \in T
  <2>1. 1 \in 1..(N + 1) /\ 1 - 1 = 0
    BY <1>1
  <2>2. QED
    BY <1>1, <1>4, <2>1
<1>6. ASSUME NEW n \in 1..(N + 1), n \in T, n < N + 1 PROVE n + 1 \in T
  <2>1. n \in 1..N /\ n - 1 \in 0..N /\ (n + 1) - 1 = n /\ n + 1 \in 1..(N + 1)
    BY <1>1, <1>6
  <2>2. BeginsAs(f[n - 1], z)
    BY <1>6
  <2>3. f[n] = Feed(f[n - 1], rs[n]) /\ rs[n] \in R /\ f[n - 1] \in Seq(SegmentOf(R))
    BY <1>1, <1>4, <2>1
  <2>4. BeginsAs(f[n], z)
    BY <1>3, <2>2, <2>3
  <2>5. QED
    BY <2>1, <2>4
<1>7. BeginsAs(f[N], z)
  <2>1. N + 1 \in Nat /\ N + 1 \in 1..(N + 1) /\ (N + 1) - 1 = N
    BY <1>1
  <2>2. N + 1 \in T
    <3> HIDE DEF T
    <3>1. QED
      BY <1>5, <1>6, <2>1, Upwards
  <2>3. QED
    BY <2>1, <2>2
<1>8. QED
  BY <1>7 DEF f, p, Project

\* So does appending to the last row: only its first segment goes on with that row.
LEMMA AppendHands ==
  ASSUME NEW adopted, IsFiniteSet(adopted), records \intersect adopted = {},
         Observations(records \union adopted),
         NEW rows, RowsOK(rows, records), rows # {}, NEW now,
         \A r \in records : Before(r, MergeOrder(adopted)[1]),
         NEW result, result = AppendTo(rows, MergeOrder(adopted), now),
         RowsOK(result, records \union adopted), StartsDiffer(result), result # rows
  PROVE  LivesById(rows, result)
<1> DEFINE ordered == MergeOrder(adopted)
           z == Last(Rows(rows))
           p == Project(<<Seed(z)>>, ordered)
           existing == <<z>>
           projected == Finish(p, now)
           t == Last(ordered).observedAt
<1>1. PICK S, R : S = records /\ R = S \union adopted
  OBVIOUS
<1>2. /\ Observations(R) /\ Observations(S) /\ S \subseteq R /\ \A q \in R : q.observedAt \in Int
      /\ RowsOK(rows, S) /\ RowsOK(rows, R) /\ RowsOK(result, R)
  <2>1. /\ Observations(R) /\ Observations(S) /\ S \subseteq R /\ \A q \in R : q.observedAt \in Int
        /\ RowsOK(rows, S) /\ RowsOK(result, R)
    BY <1>1 DEF Observations
  <2>2. QED
    BY <2>1, RowsOfMore
<1>3. result = Replace(rows, projected, existing, t)
  BY DEF AppendTo
<1>4. z \in rows /\ z.first \in S /\ \A s \in rows : s # z => Before(s.first, z.first)
  BY <1>2, LastOfRows
<1>5. /\ Seed(z) \in SegmentOf(R) /\ p \in Seq(SegmentOf(R)) /\ projected \in Seq(SegmentOf(R))
      /\ Sound(projected, {z.first} \union adopted, Earlier(R))
  <2> HIDE DEF z
  <2>1. QED
    BY <1>1, <1>2, <1>4, AppendSound
<1>6. FinishedAs(projected, p, now)
  <2> HIDE DEF p
  <2>1. QED
    BY <1>2, <1>5, FinishFields
<1>7. BeginsAs(p, z)
  <2>1. ordered \in Seq(R)
    <3>1. adopted \in SUBSET R
      BY <1>1
    <3>2. QED
      BY <1>2, <3>1, MergedInTime
  <2>2. Seed(z).first = z.first
    BY DEF Seed
  <2> HIDE DEF ordered, z
  <2>3. BeginsAs(p, Seed(z))
    BY <1>2, <1>5, <2>1, FirstStays
  <2>4. QED
    BY <2>2, <2>3 DEF BeginsAs
<1> HIDE DEF ordered, t, z, p, projected
<1>8. /\ Len(projected) \in Nat \ {0} /\ projected[1].first = z.first
      /\ \A k, l \in 1..Len(projected) : k < l => Before(projected[k].first, projected[l].first)
  <2>1. \A k, l \in 1..Len(projected) : k < l => Before(projected[k].first, projected[l].first)
    <3>1. \A x, y : <<x, y>> \in Earlier(R) => Before(x, y)
      BY DEF Earlier
    <3>2. QED
      BY <1>5, <3>1 DEF Sound
  <2>2. QED
    BY <1>6, <1>7, <2>1 DEF FinishedAs, BeginsAs
<1>9. existing \in Seq(rows) /\ Len(existing) = 1 /\ existing[1] = z
  BY <1>4
<1> HIDE DEF existing
<1>10. PICK i, j, new, old : CutAt(R, rows, projected, existing, t, i, j, new, old)
  BY <1>5, <1>9, ReplaceCuts
<1> DEFINE N == Len(new)
           kept == rows \ ToSet(old)
           W == Written(new, old, kept)
<1>11. /\ result = kept \union W
       /\ i \in 0..Len(projected) /\ (i = 0 => j = 2)
       /\ i # 0 => j \in 1..1 /\ SameAs(projected[i], existing[j])
       /\ new \in Seq(SegmentOf(R)) /\ N = IF i = 0 THEN Len(projected) ELSE i - 1
       /\ \A k \in 1..N : k \in 1..Len(projected) /\ new[k] = projected[k]
       /\ old \in Seq(rows) /\ Len(old) = j - 1 /\ \A k \in 1..(j - 1) : old[k] = existing[k]
       /\ ToSet(old) = {existing[k] : k \in 1..(j - 1)}
  BY <1>3, <1>9, <1>10 DEF CutAt
<1> HIDE DEF N, kept, W
<1>12. WrittenAs(W, new, N) /\ IsFiniteSet(kept) /\ old \in Seq(Row(R))
  <2>1. IsFiniteSet(kept)
    BY <1>2, FS_Subset DEF kept, RowsOK
  <2>2. old \in Seq(Row(R))
    BY <1>2, <1>11 DEF RowsOK
  <2>3. QED
    BY <1>11, <2>1, <2>2, WrittenFields DEF W, N
<1>13. /\ \A x \in R : ~Before(x, x)
       /\ \A x, y \in R : Before(x, y) => ~Before(y, x) /\ x.observedAt <= y.observedAt
  BY <1>2, BeforeOrders
<1>14. \A k \in 1..Len(projected) : projected[k].first \in R
  BY <1>1, <1>2, <1>4, <1>5 DEF Sound
<1>15. i = 0
  <2>1. SUFFICES ASSUME i # 0 PROVE FALSE
    OBVIOUS
  <2>2. projected[i].first = z.first /\ j = 1 /\ i \in 1..Len(projected) /\ 1 \in 1..Len(projected)
    BY <1>8, <1>9, <1>11, <2>1 DEF SameAs
  <2>3. ~(1 < i)
    BY <1>8, <1>13, <1>14, <2>2
  <2>4. i = 1
    BY <2>2, <2>3
  <2>5. N = 0 /\ ToSet(old) = {}
    BY <1>11, <2>1, <2>2, <2>4
  <2>6. W = {}
    BY <1>12, <2>5 DEF WrittenAs
  <2>7. QED
    BY <1>11, <2>5, <2>6 DEF kept
<1>16. /\ N = Len(projected) /\ N \in Nat /\ 1 \in 1..N
       /\ j = 2 /\ Len(old) = 1 /\ old[1] = z /\ ToSet(old) = {z}
       /\ new[1].first = z.first
       /\ \A k \in 1..N : new[k].first \in R /\ (k # 1 => Before(z.first, new[k].first))
  <2>1. N = Len(projected) /\ N \in Nat /\ 1 \in 1..N /\ j = 2 /\ Len(old) = 1 /\ new[1].first = z.first
    BY <1>8, <1>11, <1>15
  <2>2. 1..(j - 1) = {1}
    BY <2>1
  <2>3. old[1] = z /\ ToSet(old) = {z}
    BY <1>9, <1>11, <2>2
  <2>4. \A k \in 1..N : k # 1 => Before(projected[1].first, projected[k].first)
    BY <1>8, <2>1
  <2>5. QED
    BY <1>8, <1>11, <1>14, <2>1, <2>3, <2>4
<1>17. \A k, l \in 1..N : k # l => new[k].first # new[l].first
  <2>1. \A k, l \in 1..N : k < l => Before(new[k].first, new[l].first)
    BY <1>8, <1>11, <1>16
  <2>2. \A k, l \in 1..N : k # l => k < l \/ l < k
    BY <1>16
  <2>3. QED
    BY <1>13, <1>16, <2>1, <2>2
<1>18. \A k \in 1..N : \E r \in W : r.first = new[k].first
  BY <1>12 DEF WrittenAs, SameAs
<1>19. \A k \in 1..N : Start(new[k]) \in Int /\ (k # 1 => Start(z) < Start(new[k])) /\ Start(z) \in Int
  <2>1. SUFFICES ASSUME NEW k \in 1..N
                 PROVE  Start(new[k]) \in Int /\ (k # 1 => Start(z) < Start(new[k])) /\ Start(z) \in Int
    OBVIOUS
  <2>2. Start(new[k]) \in Int /\ Start(z) \in Int
    BY <1>2, <1>4, <1>16 DEF Start
  <2>3. PICK r \in W : r.first = new[k].first
    BY <1>18
  <2>4. PICK u \in W : u.first = new[1].first
    BY <1>16, <1>18
  <2>5. ASSUME k # 1 PROVE Start(z) < Start(new[k])
    <3>1. r # u /\ r \in result /\ u \in result
      BY <1>11, <1>16, <1>17, <2>3, <2>4, <2>5
    <3>2. Start(r) # Start(u)
      BY <3>1 DEF StartsDiffer
    <3>3. Start(z) # Start(new[k])
      BY <1>16, <2>3, <2>4, <3>2 DEF Start
    <3>4. Start(z) <= Start(new[k])
      BY <1>2, <1>4, <1>13, <1>16, <2>5 DEF Start
    <3>5. QED
      BY <2>2, <3>3, <3>4
  <2>6. QED
    BY <2>2, <2>5
<1>20. Continues(new[1], z)
  <2>1. Shape(new[1]) /\ new[1] \in SegmentOf(R)
    BY <1>5, <1>8, <1>11, <1>16 DEF Sound
  <2>2. new[1].first.kind = z.first.kind /\ Start(new[1]) = Start(z) /\ IsGap(new[1]) = IsGap(z)
    BY <1>16 DEF Start, IsGap
  <2>3. new[1].last.observedAt \in Int /\ Start(z) \in Int /\ (new[1].ended \in Int \/ new[1].ended = Open)
    BY <1>2, <1>4, <2>1 DEF SegmentOf, Start
  <2>4. new[1].ended = Open \/ Start(z) <= new[1].ended
    BY <2>1, <2>2, <2>3 DEF Shape
  <2>5. QED
    BY <2>2, <2>3, <2>4 DEF Continues, CanInherit
<1>21. \A k \in 1..N : Continued(new[k], old) = IF k = 1 THEN {1} ELSE {}
  <2>1. \A m \in 1..Len(old) : m = 1 /\ old[m] = z
    BY <1>16
  <2>2. \A k \in 1..N : k # 1 => ~Continues(new[k], z)
    BY <1>19 DEF Continues
  <2>3. \A k \in 1..N : Continued(new[k], old) \subseteq {1} /\ (1 \in Continued(new[k], old) <=> k = 1)
    BY <1>16, <1>20, <2>1, <2>2 DEF Continued
  <2>4. QED
    BY <2>3
<1>22. Heirs(new, old)
  <2>1. DOMAIN old = 1..Len(old) /\ Len(old) \in Nat /\ \A m \in 1..Len(old) : m = 1
    BY <1>11, <1>16
  <2>2. \A m \in 1..Len(old) : old[m].id # 0
    BY <1>2, <1>4, <1>16, <2>1 DEF RowsOK, Row
  <2>3. \A k \in 1..N, m \in 1..Len(old) :
          old[m].first = new[k].first => m \in Continued(new[k], old) /\ \A l \in Continued(new[k], old) : m <= l
    BY <1>16, <1>17, <1>21, <2>1
  <2>4. \A k, l \in 1..N, m \in 1..Len(old) :
          m \in Continued(new[k], old) /\ m \in Continued(new[l], old) => k = l
    BY <1>21
  <2>5. QED
    BY <1>16, <2>1, <2>2, <2>3, <2>4 DEF Heirs, N
<1>23. HandsOn(W, new, old, kept)
  BY <1>11, <1>12, <1>22, IdsHandedOn DEF W
<1> DEFINE at == [m \in 1..1 |-> 1]
<1>24. Handed(R, rows, new, old, kept, W, at)
  <2>1. kept = rows \ ToSet(old) /\ RowsOK(kept \union W, R)
    BY <1>2, <1>11 DEF kept
  <2>2. \A m \in 1..Len(old) : m = 1 /\ at[m] = 1
    BY <1>16
  <2> HIDE DEF at
  <2>3. \A m, l \in 1..Len(old) : ~(m < l)
    BY <2>2
  <2>4. \A row \in kept : Before(row.first, new[1].first)
    BY <1>4, <1>16, <2>1
  <2>5. ~Before(z.first, z.first) /\ \A l \in 1..N : ~Before(z.first, new[l].first) => l = 1
    BY <1>2, <1>4, <1>13, <1>16
  <2>6. \A k \in 1..N : 1 \in Continued(new[k], old) <=> k = 1 /\ z.first.kind = new[k].first.kind
    BY <1>16, <1>21
  <2>7. ASSUME NEW m \in 1..Len(old)
        PROVE  /\ at[m] \in 1..N /\ ~Before(old[m].first, new[at[m]].first)
               /\ \A l \in 1..N : ~Before(old[m].first, new[l].first) => ~Before(new[at[m]].first, new[l].first)
               /\ \A row \in kept : Before(old[m].first, row.first) \/ Before(row.first, new[at[m]].first)
               /\ \A k \in 1..N :
                    m \in Continued(new[k], old) <=> at[m] = k /\ old[m].first.kind = new[k].first.kind
    BY <1>16, <2>2, <2>4, <2>5, <2>6
  <2>8. QED
    BY <1>2, <1>11, <1>16, <1>17, <1>18, <1>23, <2>1, <2>3, <2>7 DEF Handed, N
<1>25. QED
  BY <1>11, <1>24, HandedLiveOn

\* What a batch brings leaves the ids of the rows that live on as they were.
LEMMA ProcessHands ==
  ASSUME TimelineInv, NEW batch \in Batches, NEW now \in Clock, Process(batch, now),
         initialized, segments' # segments, StartsDiffer(segments')
  PROVE  LivesById(segments, segments')
<1> DEFINE adopted == {r \in batch : ~Taken(r)}
<1>1. /\ IsFiniteSet(records \union adopted) /\ Observations(records \union adopted)
      /\ IsFiniteSet(adopted) /\ records \intersect adopted = {}
  BY RecordsAdded DEF TimelineInv
<1>2. /\ records' = records \union adopted
      /\ segments' = IF adopted = {} THEN segments ELSE ProjectOn(segments, adopted, now)
  BY DEF Process
<1> HIDE DEF adopted
<1>3. IsFiniteSet(records) /\ RowsOK(segments, records)
  BY DEF TimelineInv, RecordsOK
<1>4. adopted # {}
  BY <1>2
<1>5. segments' = IF (\A r \in records : Before(r, MergeOrder(adopted)[1])) /\ segments # {}
                    THEN AppendTo(segments, MergeOrder(adopted), now)
                    ELSE ReplayOn(segments, MergeOrder(adopted), now)
  BY <1>2, <1>4 DEF ProjectOn
<1>6. RowsOK(segments', records \union adopted)
  <2>1. TimelineInv'
    BY ProcessKeeps
  <2>2. QED
    BY <1>2, <2>1 DEF TimelineInv
<1>7. PICK rows, result : rows = segments /\ result = segments'
  OBVIOUS
<1>8. RowsOK(result, records \union adopted) /\ StartsDiffer(result) /\ result # rows /\ RowsOK(rows, records)
  BY <1>3, <1>6, <1>7
<1>9. CASE (\A r \in records : Before(r, MergeOrder(adopted)[1])) /\ segments # {}
  <2>1. result = AppendTo(rows, MergeOrder(adopted), now) /\ rows # {}
    BY <1>5, <1>7, <1>9
  <2>2. LivesById(rows, result)
    BY <1>1, <1>8, <1>9, <2>1, AppendHands
  <2>3. QED
    BY <1>7, <2>2
<1>10. CASE ~((\A r \in records : Before(r, MergeOrder(adopted)[1])) /\ segments # {})
  <2> DEFINE ordered == MergeOrder(adopted)
             t == Last(ordered).observedAt
             start == ReplayStart(rows, ordered[1].observedAt)
  <2>1. result = ReplayOn(rows, ordered, now)
    BY <1>5, <1>7, <1>10
  <2>2. PICK R : R = records \union adopted
    OBVIOUS
  <2> DEFINE F == {r \in R : r.observedAt >= start}
  <2>3. PICK p, projected, through :
          /\ Replays(R, rows, start, F, p, projected, through, t, now)
          /\ ReplayOn(rows, ordered, now) = Replace(rows, projected, Rows(Held(rows, start, through)), t)
    BY <1>1, <1>3, <1>4, <1>8, <2>2, ReplayReplaces
  <2>4. start \in Int
    BY <1>1, <1>3, <1>4, <1>8, ReplayReplaces
  <2>5. PICK S \in SUBSET R : S = records
    BY <2>2
  <2>6. IsFiniteSet(R) /\ Observations(R) /\ RowsOK(rows, S) /\ RowsOK(result, R)
    BY <1>1, <1>8, <2>2, <2>5
  <2> HIDE DEF ordered, t, start
  <2>7. LivesById(rows, result)
    BY <1>8, <2>1, <2>3, <2>4, <2>6, ReplayHands
  <2>8. QED
    BY <1>7, <2>7
<1>11. QED
  BY <1>9, <1>10

\* Whatever batches come: a segment that goes on keeps its id, segments that merge keep the
\* first one's, and of the parts of a split only that with the old start has the old id, where
\* no two segments start at one instant.
THEOREM IdsAreHandedOn == Spec => IdentityKept
<1> DEFINE Keeps == initialized /\ segments' # segments /\ StartsDiffer(segments') =>
                      LiveOn(segments, segments') =
                        {<<s.id, s.id>> : s \in {s \in segments : \E t \in segments' : t.id = s.id}}
<1>1. TimelineInv /\ [Next]_vars => [Keeps]_vars
  <2>1. ASSUME TimelineInv, NEW batch \in Batches, NEW now \in Clock, Process(batch, now)
        PROVE  Keeps
    BY <2>1, ProcessHands DEF LivesById
  <2> HIDE DEF Keeps
  <2>2. QED
    BY <2>1 DEF Next
<1>2. QED
  BY <1>1, TimelineInvariant, PTL DEF Spec, IdentityKept
=============================================================================
