--------------------------- MODULE SequenceLemmas ---------------------------
(***************************************************************************)
(* What the operators on sequences that the models use return: joining,    *)
(* appending, flattening, sorting, the sequence of a finite set, folding,  *)
(* and functions that are defined by recursion on a number.  Induction     *)
(* over numbers is by the least counterexample (LeastNumber, Upwards).     *)
(***************************************************************************)
EXTENDS Integers, Sequences, SequencesExt, FiniteSets, FiniteSetTheorems, WellFoundedInduction, TLAPS

-----------------------------------------------------------------------------
(* Induction *)

LEMMA LeastNumber ==
  ASSUME NEW T, T \subseteq Nat, T # {} PROVE \E n \in T : \A m \in T : n <= m
<1> DEFINE R == {ss \in Nat \X Nat : ss[1] < ss[2]}
<1>1. IsWellFoundedOn(R, Nat)
  BY NatLessThanWellFounded DEF OpToRel
<1> HIDE DEF R
<1>2. PICK n \in T : \A m \in T : ~ (<<m, n>> \in R)
  BY <1>1, WFMin
<1>3. \A m \in T : n <= m
  <2>1. SUFFICES ASSUME NEW m \in T, m < n PROVE FALSE
    OBVIOUS
  <2>2. <<m, n>> \in R
    BY <2>1 DEF R
  <2>3. QED
    BY <1>2, <2>2
<1>4. QED
  BY <1>3

LEMMA Upwards ==
  ASSUME NEW N \in Nat, NEW T, 1 \in T, \A n \in 1..N : n \in T /\ n < N => n+1 \in T
  PROVE  \A n \in 1..N : n \in T
<1> DEFINE bad == {n \in 1..N : n \notin T}
<1>1. SUFFICES ASSUME bad # {} PROVE FALSE
  OBVIOUS
<1>2. bad \subseteq Nat
  OBVIOUS
<1> HIDE DEF bad
<1>3. PICK n \in bad : \A m \in bad : n <= m
  BY <1>1, <1>2, LeastNumber
<1>4. n \in 1..N /\ n \notin T /\ n # 1
  BY <1>3 DEF bad
<1>5. n - 1 \in 1..N /\ n - 1 < N /\ n - 1 \notin bad
  BY <1>2, <1>3, <1>4
<1>6. (n - 1) + 1 = n /\ n - 1 \in T
  BY <1>4, <1>5 DEF bad
<1>7. QED
  BY <1>4, <1>5, <1>6

LEMMA ConcatSet ==
  ASSUME NEW S, NEW s \in Seq(S), NEW t \in Seq(S)
  PROVE  /\ s \o t \in Seq(S)
         /\ ToSet(s \o t) = ToSet(s) \union ToSet(t)
         /\ IsInjective(s) /\ IsInjective(t) /\ ToSet(s) \intersect ToSet(t) = {} => IsInjective(s \o t)
<1> DEFINE m == Len(s)
           n == Len(t)
<1>1. /\ m \in Nat /\ n \in Nat /\ DOMAIN s = 1..m /\ DOMAIN t = 1..n
      /\ s \o t \in Seq(S) /\ Len(s \o t) = m + n /\ DOMAIN (s \o t) = 1..(m + n)
      /\ \A i \in 1..(m + n) : (s \o t)[i] = IF i <= m THEN s[i] ELSE t[i - m]
  OBVIOUS
<1> HIDE DEF m, n
<1>2. \A i \in 1..(m + n) : (i <= m /\ i \in 1..m /\ (s \o t)[i] = s[i]) \/ (i > m /\ i - m \in 1..n /\ (s \o t)[i] = t[i - m])
  BY <1>1
<1>3. ToSet(s \o t) \subseteq ToSet(s) \union ToSet(t)
  BY <1>1, <1>2 DEF ToSet
<1>4. ToSet(s) \subseteq ToSet(s \o t)
  <2>1. \A i \in 1..m : i \in 1..(m + n) /\ (s \o t)[i] = s[i]
    BY <1>1
  <2>2. QED
    BY <1>1, <2>1 DEF ToSet
<1>5. ToSet(t) \subseteq ToSet(s \o t)
  <2>1. \A i \in 1..n : i + m \in 1..(m + n) /\ (s \o t)[i + m] = t[i]
    BY <1>1
  <2>2. QED
    BY <1>1, <2>1 DEF ToSet
<1>6. ASSUME IsInjective(s), IsInjective(t), ToSet(s) \intersect ToSet(t) = {}
      PROVE  IsInjective(s \o t)
  <2>1. SUFFICES ASSUME NEW i \in 1..(m + n), NEW j \in 1..(m + n), (s \o t)[i] = (s \o t)[j]
                 PROVE  i = j
    BY <1>1 DEF IsInjective
  <2>2. CASE i <= m /\ j <= m
    <3>1. i \in 1..m /\ j \in 1..m /\ s[i] = s[j]
      BY <1>1, <2>1, <2>2
    <3>2. QED
      BY <1>1, <1>6, <3>1 DEF IsInjective
  <2>3. CASE i > m /\ j > m
    <3>1. i - m \in 1..n /\ j - m \in 1..n /\ t[i - m] = t[j - m]
      BY <1>1, <2>1, <2>3
    <3>2. i - m = j - m
      BY <1>1, <1>6, <3>1 DEF IsInjective
    <3>3. QED
      BY <3>2, <1>1
  <2>4. ASSUME NEW k \in 1..(m + n), NEW l \in 1..(m + n), k <= m, l > m, (s \o t)[k] = (s \o t)[l] PROVE FALSE
    <3>1. k \in 1..m /\ l - m \in 1..n /\ s[k] = t[l - m]
      BY <1>1, <2>4
    <3>2. s[k] \in ToSet(s) /\ t[l - m] \in ToSet(t)
      BY <1>1, <3>1 DEF ToSet
    <3>3. QED
      BY <1>6, <3>1, <3>2
  <2>5. ~(i <= m /\ j > m) /\ ~(j <= m /\ i > m)
    BY <2>1, <2>4
  <2>6. i \in Int /\ j \in Int /\ m \in Int
    BY <1>1
  <2>7. QED
    BY <2>2, <2>3, <2>5, <2>6
<1>7. QED
  BY <1>1, <1>3, <1>4, <1>5, <1>6

LEMMA FlattenDefined ==
  ASSUME NEW S, NEW seqs \in Seq(Seq(S)), Len(seqs) # 0
  PROVE  \E f : FlattenSeq(seqs) = f[Len(seqs)] /\ \A i \in 1..Len(seqs) : f[i] = IF i = 1 THEN seqs[i] ELSE f[i-1] \o seqs[i]
<1> DEFINE N == Len(seqs)
      Is(f, n) == f = [i \in 1..n |-> IF i = 1 THEN seqs[i] ELSE f[i-1] \o seqs[i]]
      T == {n \in 1..N : \E f : Is(f, n)}
<1>0. N \in Nat /\ N # 0
  OBVIOUS
<1> HIDE DEF N
<1>1. 1 \in T
 <2>1. Is([i \in 1..1 |-> seqs[1]], 1)
  OBVIOUS
 <2> HIDE DEF Is
 <2>2. QED BY <2>1, <1>0
<1>2. ASSUME NEW n \in 1..N, n \in T, n < N PROVE n+1 \in T
  <2>1. PICK f : Is(f, n)
    BY <1>2
  <2> DEFINE g == [i \in 1..(n+1) |-> IF i = n+1 THEN f[n] \o seqs[n+1] ELSE f[i]]
  <2>2. \A i \in 1..(n+1) : g[i] = IF i = 1 THEN seqs[i] ELSE g[i-1] \o seqs[i]
    <3>1. ASSUME NEW i \in 1..n PROVE g[i] = IF i = 1 THEN seqs[i] ELSE g[i-1] \o seqs[i]
      <4>1. i \in 1..(n+1) /\ i # n + 1 /\ (i # 1 => i - 1 \in 1..(n+1) /\ i - 1 # n + 1 )
       OBVIOUS
      <4>2. g[i] = f[i] /\ (i # 1 => g[i-1] = f[i-1])
       BY <4>1
      <4>3. f[i] = IF i = 1 THEN seqs[i] ELSE f[i-1] \o seqs[i]
        BY <2>1
      <4> QED BY <4>2, <4>3
    <3>2. g[n+1] = f[n] \o seqs[n+1] /\ g[n] = f[n] /\ n + 1 # 1
      <4>1. n \in 1..(n+1) /\ n + 1 \in 1..(n+1) /\ n # n + 1 /\ n + 1 # 1
        OBVIOUS
      <4>2. QED
        BY <4>1
    <3>3. (n + 1) - 1 = n
      OBVIOUS
    <3> HIDE DEF g
    <3>4. \A i \in 1..(n+1) : i \in 1..n \/ i = n + 1
      OBVIOUS
    <3>5. QED
      BY <3>1, <3>2, <3>3, <3>4
  <2>3. g = [i \in 1..(n+1) |-> g[i]]
    OBVIOUS
  <2>4. Is(g, n+1)
    <3> HIDE DEF g
    <3> QED BY <2>2, <2>3
  <2>5. n + 1 \in 1..N
    BY <1>0, <1>2
  <2> HIDE DEF g, Is
  <2>6. QED
   BY <2>4, <2>5
<1>3. \A n \in 1..N : n \in T
 <2> HIDE DEF T
 <2> QED
  BY <1>0, <1>1, <1>2, Upwards
<1>4. \E f : Is(f, N)
  <2>1. N \in 1..N
    BY <1>0
  <2>2. N \in T
    BY <1>3, <2>1
  <2> HIDE DEF Is
  <2>3. QED
    BY <2>2
<1> DEFINE flatten == CHOOSE f : Is(f, N)
<1>5. Is(flatten, N)
  <2> HIDE DEF Is
  <2> QED BY <1>4
<1>6. FlattenSeq(seqs) = flatten[N]
  BY <1>0 DEF FlattenSeq, N
<1> HIDE DEF flatten
<1>7. QED
  BY <1>5, <1>6 DEF N

\* Sequences one after the other, and one more.
LEMMA FlattenAppend ==
  ASSUME NEW S, NEW seqs \in Seq(Seq(S)), NEW x \in Seq(S)
  PROVE  FlattenSeq(Append(seqs, x)) = FlattenSeq(seqs) \o x
<1> DEFINE n == Len(seqs)
           more == Append(seqs, x)
<1>1. /\ n \in Nat /\ more \in Seq(Seq(S)) /\ Len(more) = n + 1 /\ more[n + 1] = x
      /\ \A i \in 1..n : more[i] = seqs[i]
  OBVIOUS
<1> HIDE DEF more
<1>2. PICK g : /\ FlattenSeq(more) = g[n + 1]
               /\ \A i \in 1..(n + 1) : g[i] = IF i = 1 THEN more[i] ELSE g[i - 1] \o more[i]
  <2>1. Len(more) # 0
    BY <1>1
  <2>2. \E f : FlattenSeq(more) = f[Len(more)]
               /\ \A i \in 1..Len(more) : f[i] = IF i = 1 THEN more[i] ELSE f[i - 1] \o more[i]
    BY <1>1, <2>1, FlattenDefined
  <2>3. QED
    BY <1>1, <2>2
<1>3. CASE n = 0
  <2>1. g[1] = x
    BY <1>1, <1>2, <1>3
  <2>2. FlattenSeq(seqs) = <<>>
    BY <1>3 DEF FlattenSeq
  <2>3. <<>> \o x = x
    OBVIOUS
  <2>4. QED
    BY <1>2, <1>3, <2>1, <2>2, <2>3 DEF more
<1>4. CASE n # 0
  <2>1. PICK f : /\ FlattenSeq(seqs) = f[n]
                 /\ \A i \in 1..n : f[i] = IF i = 1 THEN seqs[i] ELSE f[i - 1] \o seqs[i]
    BY <1>4, FlattenDefined
  <2> DEFINE T == {i \in 1..n : g[i] = f[i]}
  <2>2. 1 \in 1..n /\ 1 \in 1..(n + 1) /\ n \in 1..n /\ n + 1 \in 1..(n + 1) /\ n + 1 # 1 /\ (n + 1) - 1 = n
    BY <1>1, <1>4
  <2> HIDE DEF n
  <2>3. 1 \in T
    BY <1>1, <1>2, <2>1, <2>2
  <2>4. ASSUME NEW i \in 1..n, i \in T, i < n PROVE i + 1 \in T
    <3>1. i + 1 \in 1..n /\ i + 1 \in 1..(n + 1) /\ i + 1 # 1 /\ (i + 1) - 1 = i
      BY <1>1, <2>4
    <3>2. g[i + 1] = g[i] \o more[i + 1] /\ f[i + 1] = f[i] \o seqs[i + 1]
      BY <1>2, <2>1, <3>1
    <3>3. QED
      BY <1>1, <2>4, <3>1, <3>2
  <2>5. n \in T
    <3> HIDE DEF T
    <3>1. QED
      BY <1>1, <2>2, <2>3, <2>4, Upwards
  <2>6. g[n + 1] = f[n] \o x
    BY <1>1, <1>2, <2>2, <2>5
  <2>7. QED
    BY <1>2, <2>1, <2>6 DEF more
<1>5. QED
  BY <1>3, <1>4

-----------------------------------------------------------------------------
(* Elements, and that none comes twice *)

\* One more element.
LEMMA AppendSet ==
  ASSUME NEW S, NEW s \in Seq(S), NEW x \in S
  PROVE  /\ Append(s, x) \in Seq(S)
         /\ ToSet(Append(s, x)) = ToSet(s) \union {x}
         /\ IsInjective(s) /\ x \notin ToSet(s) => IsInjective(Append(s, x))
<1> DEFINE n == Len(s)
<1>1. /\ n \in Nat /\ DOMAIN s = 1..n /\ Append(s, x) \in Seq(S) /\ DOMAIN Append(s, x) = 1..(n + 1)
      /\ Append(s, x)[n + 1] = x /\ \A i \in 1..n : i \in 1..(n + 1) /\ Append(s, x)[i] = s[i]
      /\ n + 1 \in 1..(n + 1) /\ \A i \in 1..(n + 1) : i \in 1..n \/ i = n + 1
  OBVIOUS
<1> HIDE DEF n
<1>2. QED
  BY <1>1 DEF ToSet, IsInjective

\* The first element, and the others.
LEMMA HeadTailSet ==
  ASSUME NEW S, NEW s \in Seq(S), s # <<>>
  PROVE  /\ Head(s) \in S /\ Tail(s) \in Seq(S)
         /\ ToSet(s) = {Head(s)} \union ToSet(Tail(s))
         /\ IsInjective(s) => IsInjective(Tail(s)) /\ Head(s) \notin ToSet(Tail(s))
<1> DEFINE n == Len(s)
<1>1. /\ n \in Nat \ {0} /\ DOMAIN s = 1..n /\ Tail(s) \in Seq(S) /\ DOMAIN Tail(s) = 1..(n - 1)
      /\ Head(s) = s[1] /\ \A i \in 1..(n - 1) : Tail(s)[i] = s[i + 1] /\ i + 1 \in 1..n
      /\ 1 \in 1..n /\ \A i \in 1..n : i = 1 \/ (i - 1 \in 1..(n - 1) /\ Tail(s)[i - 1] = s[i])
  OBVIOUS
<1> HIDE DEF n
<1>2. ToSet(s) = {Head(s)} \union ToSet(Tail(s))
  <2>1. ToSet(s) = {s[i] : i \in 1..n} /\ ToSet(Tail(s)) = {Tail(s)[i] : i \in 1..(n - 1)}
    BY <1>1 DEF ToSet
  <2>2. ASSUME NEW i \in 1..n PROVE s[i] \in {Head(s)} \union ToSet(Tail(s))
    BY <1>1, <2>1
  <2>3. ASSUME NEW i \in 1..(n - 1) PROVE Tail(s)[i] \in ToSet(s)
    BY <1>1, <2>1
  <2>4. Head(s) \in ToSet(s)
    BY <1>1, <2>1
  <2>5. QED
    BY <2>1, <2>2, <2>3, <2>4
<1>3. ASSUME IsInjective(s) PROVE IsInjective(Tail(s)) /\ Head(s) \notin ToSet(Tail(s))
  <2>1. \A i \in 1..n, j \in 1..n : s[i] = s[j] => i = j
    BY <1>1, <1>3 DEF IsInjective
  <2>2. \A i \in 1..(n - 1), j \in 1..(n - 1) : i + 1 = j + 1 => i = j
    OBVIOUS
  <2>3. IsInjective(Tail(s))
    BY <1>1, <2>1, <2>2 DEF IsInjective
  <2>4. ASSUME NEW i \in 1..(n - 1) PROVE Tail(s)[i] # Head(s)
    <3>1. i + 1 # 1
      OBVIOUS
    <3>2. QED
      BY <1>1, <2>1, <3>1
  <2>5. QED
    BY <1>1, <2>3, <2>4 DEF ToSet
<1>4. Head(s) \in S
  BY <1>1
<1>5. QED
  BY <1>1, <1>2, <1>3, <1>4

\* A sequence without repetitions is as long as the set of its elements is large.
LEMMA LengthOfInjective ==
  ASSUME NEW S, NEW s \in Seq(S), IsInjective(s)
  PROVE  IsFiniteSet(ToSet(s)) /\ Len(s) = Cardinality(ToSet(s))
<1> DEFINE n == Len(s)
<1>1. n \in Nat /\ DOMAIN s = 1..n /\ s \in [1..n -> S]
  OBVIOUS
<1> HIDE DEF n
<1>2. s \in Bijection(1..n, ToSet(s))
  BY <1>1 DEF Bijection, Injection, Surjection, IsInjective, ToSet
<1>3. ExistsBijection(1..n, ToSet(s))
  BY <1>2 DEF ExistsBijection
<1>4. IsFiniteSet(1..n) /\ Cardinality(1..n) = n
  BY <1>1, FS_Interval
<1>5. QED
  BY <1>3, <1>4, FS_Bijection DEF n

\* The sequence of a finite set has its elements.
LEMMA SequenceOfSet ==
  ASSUME NEW T, IsFiniteSet(T)
  PROVE  /\ Cardinality(T) \in Nat
         /\ SetToSeq(T) \in [1..Cardinality(T) -> T] /\ IsInjective(SetToSeq(T))
         /\ \A x \in T : \E i \in 1..Cardinality(T) : SetToSeq(T)[i] = x
<1> DEFINE n == Cardinality(T)
<1>1. n \in Nat /\ ExistsBijection(1..n, T)
  BY FS_CardinalityType
<1> HIDE DEF n
<1>2. \E f \in [1..n -> T] : IsInjective(f)
  BY <1>1 DEF ExistsBijection, Bijection, Injection, IsInjective
<1>3. SetToSeq(T) \in [1..n -> T] /\ IsInjective(SetToSeq(T))
  BY <1>2 DEF SetToSeq, n
<1>4. SetToSeq(T) \in Injection(1..n, T)
  BY <1>3 DEF Injection, IsInjective
<1>5. IsFiniteSet(1..n) /\ Cardinality(1..n) = n
  BY <1>1, FS_Interval
<1>6. SetToSeq(T) \in Surjection(1..n, T)
  BY <1>4, <1>5, FS_Injection DEF n
<1>7. \A x \in T : \E i \in 1..n : SetToSeq(T)[i] = x
  BY <1>6 DEF Surjection
<1>8. QED
  BY <1>1, <1>3, <1>7 DEF n

\* No element comes twice, in one of the sequences or in two.
Apart(seqs) ==
  /\ \A i \in 1..Len(seqs) : IsInjective(seqs[i])
  /\ \A i, j \in 1..Len(seqs) : i # j => ToSet(seqs[i]) \intersect ToSet(seqs[j]) = {}

\* Sequences one after the other, there being some, have the elements of all of them.
LEMMA FlattenSomeSet ==
  ASSUME NEW S, NEW seqs \in Seq(Seq(S)), Len(seqs) # 0
  PROVE  /\ FlattenSeq(seqs) \in Seq(S)
         /\ \A x : x \in ToSet(FlattenSeq(seqs)) <=> \E i \in 1..Len(seqs) : x \in ToSet(seqs[i])
         /\ Apart(seqs) => IsInjective(FlattenSeq(seqs))
<1> DEFINE N == Len(seqs)
<1>0. N \in Nat /\ seqs \in [1..N -> Seq(S)] /\ N # 0
  OBVIOUS
<1>1. PICK f : /\ FlattenSeq(seqs) = f[N]
               /\ \A i \in 1..N : f[i] = IF i = 1 THEN seqs[i] ELSE f[i-1] \o seqs[i]
  BY FlattenDefined
<1> HIDE DEF N
<1> DEFINE Good(n) == /\ f[n] \in Seq(S)
                      /\ \A x : x \in ToSet(f[n]) <=> \E i \in 1..n : x \in ToSet(seqs[i])
                      /\ Apart(seqs) => IsInjective(f[n])
           T == {n \in 1..N : Good(n)}
<1>2. 1 \in T
  <2>1. 1 \in 1..N /\ 1..1 = {1}
    BY <1>0
  <2>2. f[1] = seqs[1]
    BY <1>1, <2>1
  <2>3. \A x : x \in ToSet(f[1]) <=> \E i \in {1} : x \in ToSet(seqs[i])
    BY <2>2
  <2>4. Good(1)
    BY <1>0, <2>1, <2>2, <2>3 DEF Apart, N
  <2>5. QED
    BY <2>1, <2>4
<1>3. ASSUME NEW n \in 1..N, n \in T, n < N PROVE n + 1 \in T
  <2>1. /\ n + 1 \in 1..N /\ n + 1 # 1 /\ (n + 1) - 1 = n
        /\ \A i \in 1..(n + 1) : i \in 1..n \/ i = n + 1
        /\ \A i \in 1..n : i \in 1..(n + 1) /\ i \in 1..N /\ i # n + 1
        /\ n + 1 \in 1..(n + 1)
    BY <1>0, <1>3
  <2>2. f[n + 1] = f[n] \o seqs[n + 1] /\ seqs[n + 1] \in Seq(S)
    BY <1>0, <1>1, <2>1
  <2>3. Good(n)
    BY <1>3
  <2>4. /\ f[n + 1] \in Seq(S) /\ ToSet(f[n + 1]) = ToSet(f[n]) \union ToSet(seqs[n + 1])
        /\ IsInjective(f[n]) /\ IsInjective(seqs[n + 1]) /\ ToSet(f[n]) \intersect ToSet(seqs[n + 1]) = {}
             => IsInjective(f[n + 1])
    BY <2>2, <2>3, ConcatSet
  <2>5. \A x : x \in ToSet(f[n + 1]) <=> \E i \in 1..(n + 1) : x \in ToSet(seqs[i])
    BY <2>1, <2>3, <2>4
  <2>6. ASSUME Apart(seqs) PROVE IsInjective(f[n + 1])
    <3>1. \A i \in 1..n : ToSet(seqs[i]) \intersect ToSet(seqs[n + 1]) = {}
      BY <2>1, <2>6 DEF Apart, N
    <3>2. ToSet(f[n]) \intersect ToSet(seqs[n + 1]) = {}
      BY <2>3, <3>1
    <3>3. QED
      BY <2>1, <2>3, <2>4, <2>6, <3>2 DEF Apart, N
  <2>7. QED
    BY <2>1, <2>4, <2>5, <2>6
<1>4. N \in 1..N
  BY <1>0
<1>5. N \in T
  <2> HIDE DEF T
  <2>1. QED
    BY <1>0, <1>2, <1>3, <1>4, Upwards
<1>6. QED
  BY <1>1, <1>5 DEF N

\* Sequences one after the other have the elements of all of them.
LEMMA FlattenedSet ==
  ASSUME NEW S, NEW seqs \in Seq(Seq(S))
  PROVE  /\ FlattenSeq(seqs) \in Seq(S)
         /\ \A x : x \in ToSet(FlattenSeq(seqs)) <=> \E i \in 1..Len(seqs) : x \in ToSet(seqs[i])
         /\ Apart(seqs) => IsInjective(FlattenSeq(seqs))
<1>1. CASE Len(seqs) = 0
  <2>1. FlattenSeq(seqs) = <<>> /\ seqs = <<>>
    BY <1>1 DEF FlattenSeq
  <2>2. ToSet(<<>>) = {} /\ IsInjective(<<>>) /\ <<>> \in Seq(S)
    BY DEF ToSet, IsInjective
  <2>3. 1..Len(seqs) = {}
    BY <1>1
  <2>4. QED
    BY <2>1, <2>2, <2>3
<1>2. CASE Len(seqs) # 0
  BY <1>2, FlattenSomeSet
<1>3. QED
  BY <1>1, <1>2

-----------------------------------------------------------------------------
(* Sorting *)

\* Each element's number of those that it does not precede.
Ranks(S, rel) == [x \in S |-> Cardinality({y \in S : <<x, y>> \notin rel})]

ByRank(S, rank) == [i \in 1..Cardinality(S) |-> CHOOSE x \in S : rank[x] = i]

\* The sequence that a strict total order makes of a finite set has each element,
\* the earlier before the later.
LEMMA OrderedSet ==
  ASSUME NEW S, IsFiniteSet(S), NEW rel,
         \A x \in S : <<x, x>> \notin rel,
         \A x, y \in S : x # y => <<x, y>> \in rel \/ <<y, x>> \in rel,
         \A x, y, z \in S : <<x, y>> \in rel /\ <<y, z>> \in rel => <<x, z>> \in rel
  PROVE  LET o == ByRank(S, Ranks(S, rel))
         IN  /\ o \in Seq(S) /\ Len(o) = Cardinality(S) /\ Cardinality(S) \in Nat
             /\ ToSet(o) = S
             /\ \A i, j \in DOMAIN o : i < j => <<o[i], o[j]>> \in rel
<1> DEFINE N == Cardinality(S)
           rank == Ranks(S, rel)
           o == ByRank(S, rank)
           UpTo(x) == {y \in S : <<x, y>> \notin rel}
<1>1. N \in Nat /\ IsFiniteSet(1..N) /\ Cardinality(1..N) = N
  <2>1. N \in Nat
    BY FS_CardinalityType
  <2>2. QED
    BY <2>1, FS_Interval
<1> HIDE DEF rank, o
<1>2. \A x \in S : /\ IsFiniteSet(UpTo(x)) /\ rank[x] = Cardinality(UpTo(x))
                   /\ rank[x] \in Nat /\ rank[x] <= N
  <2>1. \A x \in S : rank[x] = Cardinality(UpTo(x))
    BY DEF rank, Ranks
  <2>2. \A x \in S : IsFiniteSet(UpTo(x)) /\ Cardinality(UpTo(x)) \in Nat /\ Cardinality(UpTo(x)) <= N
    BY FS_Subset, FS_CardinalityType
  <2>3. QED
    BY <2>1, <2>2
<1>3. ASSUME NEW x \in S, NEW y \in S, <<x, y>> \in rel PROVE rank[x] < rank[y]
  <2>1. UpTo(x) \union {y} \subseteq UpTo(y) /\ y \notin UpTo(x)
    BY <1>3
  <2>2. Cardinality(UpTo(x) \union {y}) = Cardinality(UpTo(x)) + 1
    BY <1>2, <2>1, FS_AddElement
  <2>3. Cardinality(UpTo(x) \union {y}) <= Cardinality(UpTo(y))
    BY <1>2, <2>1, FS_Subset
  <2>4. rank[x] \in Nat /\ rank[y] \in Nat /\ rank[x] = Cardinality(UpTo(x)) /\ rank[y] = Cardinality(UpTo(y))
    BY <1>2
  <2> HIDE DEF UpTo
  <2>5. QED
    BY <2>2, <2>3, <2>4
<1>4. \A x \in S : rank[x] \in 1..N
  <2>1. ASSUME NEW x \in S PROVE rank[x] # 0
    <3>1. x \in UpTo(x)
      OBVIOUS
    <3>2. QED
      BY <1>2, <3>1, FS_EmptySet
  <2>2. QED
    <3> HIDE DEF N, UpTo
    <3>1. QED
      BY <1>1, <1>2, <2>1
<1> HIDE DEF N, UpTo
<1>5. \A x, y \in S : rank[x] = rank[y] => x = y
  <2>1. SUFFICES ASSUME NEW x \in S, NEW y \in S, rank[x] = rank[y], x # y PROVE FALSE
    OBVIOUS
  <2>2. rank[x] < rank[y] \/ rank[y] < rank[x]
    BY <1>3, <2>1
  <2>3. rank[x] \in Nat
    BY <1>2
  <2>4. QED
    BY <2>1, <2>2, <2>3
<1>6. rank \in Injection(S, 1..N)
  <2>1. rank = [x \in S |-> rank[x]]
    BY DEF rank, Ranks
  <2>2. QED
    BY <1>4, <1>5, <2>1 DEF Injection, IsInjective
<1>7. rank \in Surjection(S, 1..N)
  BY <1>1, <1>6, FS_Injection DEF N
<1>8. \A i \in 1..N : \E x \in S : rank[x] = i
  BY <1>7 DEF Surjection
<1>9. \A i \in 1..N : o[i] \in S /\ rank[o[i]] = i
  <2>1. ASSUME NEW i \in 1..N PROVE o[i] \in S /\ rank[o[i]] = i
    <3>1. o[i] = CHOOSE x \in S : rank[x] = i
      BY DEF o, ByRank, N
    <3>2. QED
      BY <1>8, <3>1
  <2>2. QED
    BY <2>1
<1>10. o \in Seq(S) /\ Len(o) = N /\ DOMAIN o = 1..N
  <2>1. o = [i \in 1..N |-> o[i]]
    BY DEF o, ByRank, N
  <2>2. QED
    BY <1>1, <1>9, <2>1
<1>11. ToSet(o) = S
  <2>1. ASSUME NEW x \in S PROVE x \in ToSet(o)
    <3>1. rank[x] \in 1..N /\ o[rank[x]] = x
      BY <1>4, <1>5, <1>9
    <3>2. QED
      BY <1>10, <3>1 DEF ToSet
  <2>2. QED
    BY <1>9, <1>10, <2>1 DEF ToSet
<1>12. ASSUME NEW i \in DOMAIN o, NEW j \in DOMAIN o, i < j PROVE <<o[i], o[j]>> \in rel
  <2>1. i \in 1..N /\ j \in 1..N /\ i \in Int /\ j \in Int
    BY <1>10
  <2>2. o[i] \in S /\ o[j] \in S /\ rank[o[i]] = i /\ rank[o[j]] = j
    BY <1>9, <2>1
  <2>3. o[i] # o[j] /\ ~(j < i)
    BY <1>12, <2>1, <2>2
  <2>4. CASE <<o[j], o[i]>> \in rel
    BY <1>3, <2>2, <2>3, <2>4
  <2>5. QED
    BY <2>2, <2>3, <2>4
<1>13. QED
  BY <1>1, <1>10, <1>11, <1>12 DEF N, o, rank

\* A finite set of integers has a greatest element.
LEMMA GreatestOf ==
  ASSUME NEW S, S \subseteq Int, S # {}, IsFiniteSet(S)
  PROVE  \E m \in S : \A x \in S : x <= m
<1> DEFINE rel == {p \in S \X S : p[1] < p[2]}
           o == ByRank(S, Ranks(S, rel))
           N == Cardinality(S)
<1>1. \A x \in S : x \in Int
  OBVIOUS
<1>2. \A x, y \in S : <<x, y>> \in rel <=> x < y
  OBVIOUS
<1> HIDE DEF rel
<1>3. /\ \A x \in S : <<x, x>> \notin rel
      /\ \A x, y \in S : x # y => <<x, y>> \in rel \/ <<y, x>> \in rel
      /\ \A x, y, z \in S : <<x, y>> \in rel /\ <<y, z>> \in rel => <<x, z>> \in rel
  BY <1>1, <1>2
<1> HIDE DEF o
<1>4. /\ o \in Seq(S) /\ Len(o) = N /\ N \in Nat /\ ToSet(o) = S
      /\ \A i, j \in DOMAIN o : i < j => <<o[i], o[j]>> \in rel
  BY <1>3, OrderedSet DEF o
<1>5. N # 0 /\ DOMAIN o = 1..N
  BY <1>4, FS_EmptySet
<1> HIDE DEF N
<1>6. N \in DOMAIN o /\ o[N] \in S
  BY <1>4, <1>5
<1>7. ASSUME NEW x \in S PROVE x <= o[N]
  <2>1. PICK i \in DOMAIN o : o[i] = x
    BY <1>4 DEF ToSet
  <2>2. i = N \/ i < N
    BY <1>4, <1>5
  <2>3. x = o[N] \/ <<x, o[N]>> \in rel
    BY <1>4, <1>6, <2>1, <2>2
  <2>4. x \in Int /\ o[N] \in Int /\ (x = o[N] \/ x < o[N])
    BY <1>1, <1>2, <1>6, <2>3
  <2>5. QED
    BY <2>4
<1>8. QED
  BY <1>6, <1>7

-----------------------------------------------------------------------------
(* Recursive functions on 0..N and folds from the left *)

\* The states f goes through from base in N steps, the n-th of which is g[n].
StepsThrough(f, A, base, N, g) ==
  f \in [0..N -> A] /\ f[0] = base /\ \A n \in 1..N : f[n] = g[n][f[n - 1]]

\* A recursive function on 0..N is defined.
LEMMA StepsDefined ==
  ASSUME NEW A, NEW base \in A, NEW N \in Nat, NEW g \in [1..N -> [A -> A]]
  PROVE  \E f : StepsThrough(f, A, base, N, g)
<1> DEFINE Is(f, n) == /\ f \in [0..n -> A] /\ f[0] = base
                       /\ \A k \in 1..n : f[k] = g[k][f[k - 1]]
           T == {n \in 1..(N + 1) : \E f : Is(f, n - 1)}
<1>1. 1 \in T
  <2>1. Is([k \in 0..0 |-> base], 0)
    OBVIOUS
  <2>2. 1 \in 1..(N + 1) /\ 1 - 1 = 0
    OBVIOUS
  <2> HIDE DEF Is
  <2>3. QED
    BY <2>1, <2>2
<1>2. ASSUME NEW n \in 1..(N + 1), n \in T, n < N + 1 PROVE n + 1 \in T
  <2>1. PICK f : Is(f, n - 1)
    BY <1>2
  <2> DEFINE h == [k \in 0..n |-> IF k = n THEN g[n][f[n - 1]] ELSE f[k]]
  <2>2. n \in 1..N /\ n - 1 \in 0..(n - 1) /\ n # 0 /\ 0 \in 0..n /\ n - 1 # n /\ n - 1 \in 0..n
    BY <1>2
  <2>3. f[n - 1] \in A /\ g[n][f[n - 1]] \in A
    BY <2>1, <2>2
  <2>4. \A k \in 0..n : k = n \/ k \in 0..(n - 1)
    BY <2>2
  <2>5. h \in [0..n -> A] /\ h[0] = base
    BY <2>1, <2>2, <2>3, <2>4
  <2>6. ASSUME NEW k \in 1..n PROVE h[k] = g[k][h[k - 1]]
    <3>1. CASE k = n
      BY <2>2, <3>1
    <3>2. CASE k # n
      <4>1. k \in 1..(n - 1) /\ k \in 0..n /\ k - 1 \in 0..n /\ k - 1 # n
        BY <2>2, <3>2
      <4>2. h[k] = f[k] /\ h[k - 1] = f[k - 1]
        BY <3>2, <4>1
      <4>3. QED
        BY <2>1, <4>1, <4>2
    <3>3. QED
      BY <3>1, <3>2
  <2> HIDE DEF h
  <2>7. Is(h, n)
    BY <2>5, <2>6
  <2>8. n + 1 \in 1..(N + 1) /\ (n + 1) - 1 = n
    BY <2>2
  <2> HIDE DEF Is
  <2>9. QED
    BY <2>7, <2>8
<1>3. N + 1 \in 1..(N + 1) /\ (N + 1) - 1 = N /\ N + 1 \in Nat
  OBVIOUS
<1>4. N + 1 \in T
  <2> HIDE DEF T
  <2>1. QED
    BY <1>1, <1>2, <1>3, Upwards
<1>5. QED
  BY <1>3, <1>4 DEF StepsThrough

\* The function on the sets of positions 1..N that a fold from the left over N
\* elements is: g[i] is what the i-th of them does.
FoldsLeft(iter, A, base, N, g) ==
  /\ iter \in [SUBSET (1..N) -> A]
  /\ \A s \in SUBSET (1..N) :
       iter[s] = IF s = {} THEN base ELSE g[Max(s)][iter[s \ {Max(s)}]]

\* A set of positions has its last one.
LEMMA LastPosition ==
  ASSUME NEW N \in Nat, NEW s \in SUBSET (1..N), s # {}
  PROVE  /\ Max(s) \in s /\ \A x \in s : x <= Max(s)
         /\ N \in s => Max(s) = N
         /\ N \notin s => s \in SUBSET (1..(N - 1))
         /\ s \ {Max(s)} \in SUBSET (1..(N - 1))
<1>1. s \subseteq 1..N
  OBVIOUS
<1>2. \A x \in s : x \in Int /\ 1 <= x /\ x <= N
  BY <1>1
<1>3. s \subseteq Int
  BY <1>2
<1>4. IsFiniteSet(s)
  <2>1. IsFiniteSet(1..N)
    BY FS_Interval
  <2>2. QED
    BY <1>1, <2>1, FS_Subset
<1>5. Max(s) \in s /\ \A x \in s : x <= Max(s)
  <2>1. \E m \in s : \A x \in s : x <= m
    BY <1>3, <1>4, GreatestOf
  <2>2. \A m, x \in s : m >= x <=> x <= m
    BY <1>3
  <2>3. QED
    BY <2>1, <2>2 DEF Max
<1> DEFINE m == Max(s)
<1>6. m \in s /\ m \in Int /\ m <= N /\ \A x \in s : x <= m
  BY <1>2, <1>5
<1> HIDE DEF m
<1>7. N \in s => m = N
  BY <1>6
<1>8. N \notin s => s \in SUBSET (1..(N - 1))
  <2>1. \A x \in s : x # N => x \in 1..(N - 1)
    BY <1>2
  <2>2. QED
    BY <2>1
<1>9. s \ {m} \in SUBSET (1..(N - 1))
  <2>1. \A x \in s : x # m => x \in 1..(N - 1)
    BY <1>2, <1>6
  <2>2. QED
    BY <2>1
<1>10. QED
  BY <1>5, <1>7, <1>8, <1>9 DEF m

\* A fold from the left is defined.
LEMMA FoldDefined ==
  ASSUME NEW A, NEW base \in A, NEW N \in Nat, NEW g \in [1..N -> [A -> A]]
  PROVE  \E iter : FoldsLeft(iter, A, base, N, g)
<1> DEFINE T == {n \in 1..(N + 1) : \E iter : FoldsLeft(iter, A, base, n - 1, g)}
<1>1. 1 \in T
  <2> DEFINE f == [s \in SUBSET (1..0) |-> base]
  <2>1. 1..0 = {} /\ 1 - 1 = 0 /\ 1 \in 1..(N + 1)
    OBVIOUS
  <2>2. FoldsLeft(f, A, base, 0, g)
    BY <2>1 DEF FoldsLeft
  <2> HIDE DEF f
  <2>3. QED
    BY <2>1, <2>2
<1>2. ASSUME NEW n \in 1..(N + 1), n \in T, n < N + 1 PROVE n + 1 \in T
  <2>1. PICK f : FoldsLeft(f, A, base, n - 1, g)
    BY <1>2
  <2> DEFINE h == [s \in SUBSET (1..n) |-> IF n \in s THEN g[n][f[s \ {n}]] ELSE f[s]]
  <2>2. n \in 1..N /\ n \in Nat /\ (n + 1) - 1 = n /\ n + 1 \in 1..(N + 1)
    BY <1>2
  <2>3. f \in [SUBSET (1..(n - 1)) -> A] /\ g[n] \in [A -> A]
    BY <2>1, <2>2 DEF FoldsLeft
  <2>4. \A s \in SUBSET (1..n) : /\ n \in s => Max(s) = n /\ s \ {n} \in SUBSET (1..(n - 1))
                                 /\ n \notin s => s \in SUBSET (1..(n - 1))
                                 /\ s # {} => Max(s) \in s
    BY <2>2, LastPosition
  <2>5. h \in [SUBSET (1..n) -> A]
    <3>1. ASSUME NEW s \in SUBSET (1..n) PROVE (IF n \in s THEN g[n][f[s \ {n}]] ELSE f[s]) \in A
      BY <2>3, <2>4
    <3>2. QED
      BY <3>1
  <2>6. ASSUME NEW s \in SUBSET (1..n)
        PROVE  h[s] = IF s = {} THEN base ELSE g[Max(s)][h[s \ {Max(s)}]]
    <3>1. CASE n \in s
      <4>1. s # {} /\ Max(s) = n /\ s \ {n} \in SUBSET (1..n) /\ n \notin s \ {n}
        BY <2>4, <3>1
      <4>2. h[s] = g[n][f[s \ {n}]] /\ h[s \ {n}] = f[s \ {n}]
        BY <3>1, <4>1
      <4>3. QED
        BY <4>1, <4>2
    <3>2. CASE n \notin s
      <4>1. s \in SUBSET (1..(n - 1)) /\ h[s] = f[s]
        BY <2>4, <3>2
      <4>2. s \ {Max(s)} \in SUBSET (1..n) /\ n \notin s \ {Max(s)}
        BY <3>2
      <4>3. h[s \ {Max(s)}] = f[s \ {Max(s)}]
        BY <4>2
      <4>4. f[s] = IF s = {} THEN base ELSE g[Max(s)][f[s \ {Max(s)}]]
        BY <2>1, <4>1 DEF FoldsLeft
      <4> HIDE DEF h
      <4>5. QED
        BY <4>1, <4>3, <4>4
    <3>3. QED
      BY <3>1, <3>2
  <2> HIDE DEF h
  <2>7. FoldsLeft(h, A, base, n, g)
    BY <2>5, <2>6 DEF FoldsLeft
  <2>8. QED
    BY <2>2, <2>7
<1>3. N + 1 \in 1..(N + 1) /\ (N + 1) - 1 = N /\ N + 1 \in Nat
  OBVIOUS
<1>4. N + 1 \in T
  <2> HIDE DEF T
  <2>1. QED
    BY <1>1, <1>2, <1>3, Upwards
<1>5. QED
  BY <1>3, <1>4
=============================================================================
