--------------------------- MODULE TimelineProofs ---------------------------
(***************************************************************************)
(* Facts about the arithmetic of Timeline, for every manifest.             *)
(***************************************************************************)
EXTENDS Timeline, Integers, TLAPS, FiniteSetTheorems, WellFoundedInduction

-----------------------------------------------------------------------------
(* Induction and division *)

\* Induction over the naturals for a predicate given as a set (the rule with an
\* operator parameter cannot be instantiated).
LEMMA NatSetInduction ==
    ASSUME NEW T, 0 \in T, \A n \in Nat : n \in T => n + 1 \in T
    PROVE  \A n \in Nat : n \in T
<1> SUFFICES ASSUME NEW x \in Nat, x \notin T PROVE FALSE
    OBVIOUS
<1> DEFINE R == OpToRel(<, Nat)
           U == {m \in Nat : m \notin T}
<1>1. U \subseteq Nat /\ U # {}
    OBVIOUS
<1>2. \E m \in U : \A k \in U : ~(<<k, m>> \in R)
  <2>1. IsWellFoundedOn(R, Nat)
    BY NatLessThanWellFounded
  <2> HIDE DEF R, U
  <2> QED
    BY <1>1, <2>1, WFMin
<1>3. PICK m \in U : \A k \in U : ~(<<k, m>> \in R)
    BY <1>2
<1>4. m # 0
    OBVIOUS
<1>5. m - 1 \in Nat /\ m - 1 < m /\ m \in Nat
    BY <1>4
<1>6. <<m - 1, m>> \in R
    BY <1>5 DEF OpToRel
<1>7. m - 1 \in T
    BY <1>3, <1>5, <1>6
<1> QED
    BY <1>5, <1>7

\* Division with remainder.
LEMMA DivMod ==
    ASSUME NEW n \in Nat, NEW d \in Nat \ {0}
    PROVE  /\ n \div d \in Nat
           /\ (n % d) \in 0 .. d - 1
           /\ n = (n \div d) * d + (n % d)
    OBVIOUS

\* The quotient and the remainder are the only ones.
LEMMA DivModUnique ==
    ASSUME NEW d \in Nat \ {0}, NEW q \in Nat, NEW r \in 0 .. d - 1
    PROVE  /\ (q * d + r) \div d = q
           /\ ((q * d + r) % d) = r
    OBVIOUS

-----------------------------------------------------------------------------
(* The prefix sums *)

\* The recursion that defines acc has a solution.
LEMMA AccExists ==
    \E f : f = [i \in 0..N |-> IF i = 0 THEN 0 ELSE f[i - 1] + Segments[i].duration]
<1> DEFINE Sum(n, f) == f = [i \in 0..n |->
                               IF i = 0 THEN 0 ELSE f[i - 1] + Segments[i].duration]
           T == {n \in Nat : \E f : Sum(n, f)}
<1>1. 0 \in T
  <2> DEFINE f == [i \in 0..0 |-> 0]
  <2>1. Sum(0, f)
    OBVIOUS
  <2> QED
    BY <2>1
<1>2. ASSUME NEW n \in Nat, n \in T PROVE n + 1 \in T
  <2>1. PICK f : Sum(n, f)
    BY <1>2
  <2> DEFINE g == [i \in 0 .. n + 1 |->
                      IF i = n + 1 THEN f[n] + Segments[n + 1].duration ELSE f[i]]
  <2>2. ASSUME NEW i \in 0 .. n + 1
        PROVE  g[i] = IF i = 0 THEN 0 ELSE g[i - 1] + Segments[i].duration
    <3>1. CASE i = n + 1
      BY <3>1
    <3>2. CASE i # n + 1
      BY <2>1, <3>2
    <3> QED
      BY <3>1, <3>2
  <2>3. Sum(n + 1, g)
    BY <2>2
  <2>4. n + 1 \in Nat
    OBVIOUS
  <2> HIDE DEF Sum, g
  <2> QED
    BY <2>3, <2>4
<1> HIDE DEF T
<1>3. \A n \in Nat : n \in T
    BY <1>1, <1>2, NatSetInduction
<1>4. N \in Nat
    BY SegmentsAssumption DEF N
<1> QED
    BY <1>3, <1>4 DEF T

\* acc satisfies its recursion.
LEMMA AccRecursion ==
    /\ acc[0] = 0
    /\ \A i \in 1..N : acc[i] = acc[i - 1] + Segments[i].duration
<1>1. acc = [i \in 0..N |-> IF i = 0 THEN 0 ELSE acc[i - 1] + Segments[i].duration]
    BY AccExists DEF acc
<1>2. N \in Nat
    BY SegmentsAssumption DEF N
<1> QED
    BY <1>1, <1>2

\* The parameters, as the proofs use them.
LEMMA ParameterTypes ==
    /\ N \in Nat /\ N >= WindowSize /\ WindowSize = 3
    /\ \A i \in 1..N : /\ Segments[i].name \in Name
                       /\ Segments[i].duration \in Nat \ {0}
<1> DEFINE Segment == [name : Name, duration : Nat \ {0}]
<1>1. Segments \in Seq(Segment) /\ Len(Segments) >= 3
    BY SegmentsAssumption DEF WindowSize
<1> HIDE DEF Segment
<1>2. N \in Nat /\ N >= 3 /\ \A i \in 1..N : Segments[i] \in Segment
    BY <1>1 DEF N
<1> QED
    BY <1>2 DEF Segment, WindowSize

\* Prefix sums are naturals.
LEMMA AccType == \A i \in 0..N : acc[i] \in Nat
<1> DEFINE T == {n \in Nat : n \in 0..N => acc[n] \in Nat}
<1>1. 0 \in T
    BY AccRecursion
<1>2. ASSUME NEW n \in Nat, n \in T PROVE n + 1 \in T
  <2> SUFFICES ASSUME n + 1 \in 0..N PROVE acc[n + 1] \in Nat
    OBVIOUS
  <2>1. n \in 0..N /\ n + 1 \in 1..N /\ (n + 1) - 1 = n
    BY ParameterTypes
  <2>2. acc[n + 1] = acc[n] + Segments[n + 1].duration
    BY <2>1, AccRecursion
  <2> QED
    BY <1>2, <2>1, <2>2, ParameterTypes
<1> HIDE DEF T
<1>3. \A n \in Nat : n \in T
    BY <1>1, <1>2, NatSetInduction
<1> QED
    BY <1>3, ParameterTypes DEF T

\* Every segment lasts: the prefix sums grow strictly.
LEMMA AccIncreases ==
    \A i \in 0..N : \A j \in 0..N : i < j => acc[i] < acc[j]
<1> SUFFICES ASSUME NEW i \in 0..N
             PROVE  \A j \in 0..N : i < j => acc[i] < acc[j]
    OBVIOUS
<1> DEFINE T == {n \in Nat : n \in 0..N /\ i < n => acc[i] < acc[n]}
<1>1. 0 \in T
    BY ParameterTypes
<1>2. ASSUME NEW n \in Nat, n \in T PROVE n + 1 \in T
  <2> SUFFICES ASSUME n + 1 \in 0..N, i < n + 1 PROVE acc[i] < acc[n + 1]
    OBVIOUS
  <2>1. n \in 0..N /\ n + 1 \in 1..N /\ (n + 1) - 1 = n
    BY ParameterTypes
  <2>2. acc[n + 1] = acc[n] + Segments[n + 1].duration
    BY <2>1, AccRecursion
  <2>3. acc[n] < acc[n + 1]
    BY <2>1, <2>2, AccType, ParameterTypes
  <2>4. acc[i] \in Nat /\ acc[n] \in Nat /\ acc[n + 1] \in Nat
    BY <2>1, AccType
  <2>5. CASE i = n
    BY <2>3, <2>5
  <2>6. CASE i < n
    BY <1>2, <2>1, <2>3, <2>4, <2>6
  <2> QED
    BY <2>5, <2>6
<1> HIDE DEF T
<1>3. \A n \in Nat : n \in T
    BY <1>1, <1>2, NatSetInduction
<1> QED
    BY <1>3, ParameterTypes DEF T

\* A lap takes time.
LEMMA TotalType == total \in Nat \ {0}
<1>1. 0 \in 0..N /\ N \in 0..N /\ 0 < N
    BY ParameterTypes
<1>2. acc[0] < acc[N]
    BY <1>1, AccIncreases
<1> QED
    BY <1>1, <1>2, AccRecursion, AccType DEF total

-----------------------------------------------------------------------------
(* Segments and their instants *)

\* The position of a global segment within its lap.
LEMMA Position ==
    ASSUME NEW n \in Nat
    PROVE  /\ n \div N \in Nat
           /\ (n % N) \in 0 .. N - 1
           /\ (n % N) + 1 \in 1..N
           /\ n = (n \div N) * N + (n % N)
<1>1. N \in Nat \ {0}
    BY ParameterTypes
<1>2. /\ n \div N \in Nat
      /\ (n % N) \in 0 .. N - 1
      /\ n = (n \div N) * N + (n % N)
    BY <1>1, DivMod
<1> QED
    BY <1>1, <1>2

\* Every global segment is one of the manifest's.
LEMMA SegmentType ==
    ASSUME NEW n \in Nat
    PROVE  segment(n).name \in Name /\ segment(n).duration \in Nat \ {0}
    BY Position, ParameterTypes DEF segment

\* Instants are naturals.
LEMMA PublishAtType ==
    ASSUME NEW n \in Nat
    PROVE  publishAt(n) \in Nat
<1>1. acc[n % N] \in Nat
    BY Position, AccType, ParameterTypes
<1> QED
    BY <1>1, Position, TotalType DEF publishAt

\* A segment is followed by the next after its duration, across laps too.
LEMMA PublishAtNext ==
    ASSUME NEW n \in Nat
    PROVE  publishAt(n + 1) = publishAt(n) + segment(n).duration
<1> DEFINE q == n \div N
           r == n % N
<1>1. q \in Nat /\ r \in 0 .. N - 1 /\ n = q * N + r /\ N \in Nat \ {0}
    BY Position, ParameterTypes
<1>2. r + 1 \in 1..N /\ (r + 1) - 1 = r
    BY <1>1
<1>3. acc[r + 1] = acc[r] + Segments[r + 1].duration
    BY <1>2, AccRecursion
<1>4. acc[r] \in Nat /\ acc[r + 1] \in Nat /\ total \in Nat
    BY <1>1, <1>2, AccType, TotalType
<1>5. publishAt(n) = q * total + acc[r] /\ segment(n) = Segments[r + 1]
    BY DEF publishAt, segment
<1> HIDE DEF q, r
<1>6. CASE r + 1 = N
  <2>1. n + 1 = (q + 1) * N + 0
    BY <1>1, <1>6
  <2>2. (n + 1) \div N = q + 1 /\ ((n + 1) % N) = 0
    BY <1>1, <2>1, DivModUnique
  <2>3. publishAt(n + 1) = (q + 1) * total + acc[0]
    BY <2>2 DEF publishAt
  <2>4. (q + 1) * total = q * total + total
    BY <1>1, <1>4
  <2>5. Segments[r + 1].duration \in Nat /\ q * total \in Nat
    BY <1>1, <1>2, <1>4, ParameterTypes
  <2> QED
    BY <1>3, <1>4, <1>5, <1>6, <2>3, <2>4, <2>5, AccRecursion DEF total
<1>7. CASE r + 1 # N
  <2>1. n + 1 = q * N + (r + 1) /\ r + 1 \in 0 .. N - 1
    BY <1>1, <1>7
  <2>2. (n + 1) \div N = q /\ ((n + 1) % N) = r + 1
    BY <1>1, <2>1, DivModUnique
  <2>3. publishAt(n + 1) = q * total + acc[r + 1]
    BY <2>2 DEF publishAt
  <2>4. Segments[r + 1].duration \in Nat /\ q * total \in Nat
    BY <1>1, <1>2, <1>4, ParameterTypes
  <2> QED
    BY <1>3, <1>4, <1>5, <2>3, <2>4
<1> QED
    BY <1>6, <1>7

\* The stream starts at the epoch.
LEMMA PublishAtZero == publishAt(0) = 0
<1>1. 0 = 0 * N + 0 /\ 0 \in 0 .. N - 1 /\ N \in Nat \ {0}
    BY ParameterTypes
<1>2. 0 \div N = 0 /\ (0 % N) = 0
    BY <1>1, DivModUnique
<1>3. publishAt(0) = 0 * total + acc[0]
    BY <1>2 DEF publishAt
<1> QED
    BY <1>3, AccRecursion, TotalType

\* Later segments are published later.
LEMMA PublishAtIncreases ==
    ASSUME NEW m \in Nat, NEW n \in Nat, m < n
    PROVE  publishAt(m) < publishAt(n)
<1> DEFINE T == {i \in Nat : m < i => publishAt(m) < publishAt(i)}
<1>1. 0 \in T
    OBVIOUS
<1>2. ASSUME NEW i \in Nat, i \in T PROVE i + 1 \in T
  <2> SUFFICES ASSUME m < i + 1 PROVE publishAt(m) < publishAt(i + 1)
    OBVIOUS
  <2>1. /\ publishAt(i + 1) = publishAt(i) + segment(i).duration
        /\ segment(i).duration \in Nat \ {0}
    BY PublishAtNext, SegmentType
  <2>2. publishAt(m) \in Nat /\ publishAt(i) \in Nat /\ publishAt(i + 1) \in Nat
    BY PublishAtType
  <2>3. CASE m = i
    BY <2>1, <2>2, <2>3
  <2>4. CASE m < i
    BY <1>2, <2>1, <2>2, <2>4
  <2> QED
    BY <2>3, <2>4
<1> HIDE DEF T
<1>3. \A i \in Nat : i \in T
    BY <1>1, <1>2, NatSetInduction
<1> QED
    BY <1>3 DEF T

-----------------------------------------------------------------------------
(* The window on air *)

\* A bounded set of naturals has a maximum, and Max is it.
LEMMA MaxOfBounded ==
    ASSUME NEW n \in Nat, NEW S \in SUBSET (0..n), S # {}
    PROVE  Max(S) \in S /\ \A y \in S : y <= Max(S)
<1> DEFINE HasMax(U) == \E x \in U : \A y \in U : x >= y
           T == {m \in Nat : \A U \in SUBSET (0..m) : U # {} => HasMax(U)}
<1>1. 0 \in T
  <2> SUFFICES ASSUME NEW U \in SUBSET (0..0), U # {} PROVE HasMax(U)
    OBVIOUS
  <2>1. \A y \in U : y = 0
    OBVIOUS
  <2>2. 0 \in U
    BY <2>1
  <2>3. \A y \in U : 0 >= y
    BY <2>1
  <2> QED
    BY <2>2, <2>3
<1>2. ASSUME NEW m \in Nat, m \in T PROVE m + 1 \in T
  <2> SUFFICES ASSUME NEW U \in SUBSET (0 .. m + 1), U # {} PROVE HasMax(U)
    OBVIOUS
  <2>1. CASE m + 1 \in U
    BY <2>1
  <2>2. CASE m + 1 \notin U
    <3>1. U \in SUBSET (0..m)
      BY <2>2
    <3> QED
      BY <1>2, <3>1
  <2> QED
    BY <2>1, <2>2
<1> HIDE DEF T
<1>3. \A m \in Nat : m \in T
    BY <1>1, <1>2, NatSetInduction
<1>4. PICK x \in S : \A y \in S : x >= y
    BY <1>3 DEF T
<1>5. Max(S) \in S /\ \A y \in S : Max(S) >= y
    BY <1>4 DEF Max
<1> QED
    BY <1>5

\* WindowAt's search finds the segment on air: the media sequence at any
\* instant is the one segment that has begun and whose successor has not.
THEOREM MediaSequenceOnAir ==
    ASSUME NEW e \in Nat
    PROVE  /\ mediaSequence(e) \in Nat
           /\ publishAt(mediaSequence(e)) <= e
           /\ e < publishAt(mediaSequence(e) + 1)
<1> DEFINE q == e \div total
           r == e % total
           begun == {j \in 0 .. N - 1 : acc[j] <= r}
           i == Max(begun)
<1>1. q \in Nat /\ r \in 0 .. total - 1 /\ e = q * total + r
    BY DivMod, TotalType
<1>2. N - 1 \in Nat /\ N \in Nat \ {0}
    BY ParameterTypes
<1>3. i \in begun /\ \A j \in begun : j <= i
  <2>1. 0 \in begun
    BY <1>1, <1>2, AccRecursion, TotalType
  <2> QED
    BY <1>2, <2>1, MaxOfBounded
<1> HIDE DEF i
<1>4. i \in 0 .. N - 1 /\ acc[i] <= r
    BY <1>3
<1>5. mediaSequence(e) = q * N + i
    BY DEF mediaSequence, i
<1> HIDE DEF begun, q, r
<1>6. total \in Nat /\ q * total \in Nat /\ r \in Nat /\ q * N + i \in Nat
    BY <1>1, <1>2, <1>4, TotalType
<1>7. publishAt(q * N + i) = q * total + acc[i]
    BY <1>1, <1>2, <1>4, DivModUnique DEF publishAt
<1>8. acc[i] \in Nat
    BY <1>2, <1>4, AccType
<1>9. e < publishAt(q * N + i + 1)
  <2>1. CASE i + 1 = N
    <3>1. q * N + i + 1 = (q + 1) * N + 0 /\ 0 \in 0 .. N - 1
      BY <1>1, <1>2, <1>4, <2>1
    <3>2. publishAt(q * N + i + 1) = (q + 1) * total + acc[0]
      BY <1>1, <1>2, <3>1, DivModUnique DEF publishAt
    <3>3. (q + 1) * total = q * total + total
      BY <1>1, <1>6
    <3> QED
      BY <1>1, <1>6, <3>2, <3>3, AccRecursion
  <2>2. CASE i + 1 # N
    <3>1. q * N + i + 1 = q * N + (i + 1) /\ i + 1 \in 0 .. N - 1
      BY <1>1, <1>2, <1>4, <2>2
    <3>2. publishAt(q * N + i + 1) = q * total + acc[i + 1]
      BY <1>1, <1>2, <3>1, DivModUnique DEF publishAt
    <3>3. i + 1 \notin begun
      BY <1>3, <1>4
    <3>4. acc[i + 1] \in Nat /\ ~(acc[i + 1] <= r)
      BY <1>2, <3>1, <3>3, AccType DEF begun
    <3> QED
      BY <1>1, <1>6, <3>2, <3>4
  <2> QED
    BY <2>1, <2>2
<1> QED
    BY <1>1, <1>4, <1>5, <1>6, <1>7, <1>8, <1>9

\* From one instant on, the media sequence is at least a segment already begun.
LEMMA MediaSequenceReaches ==
    ASSUME NEW e \in Nat, NEW k \in Nat, publishAt(k) <= e
    PROVE  k <= mediaSequence(e)
<1>1. mediaSequence(e) \in Nat /\ e < publishAt(mediaSequence(e) + 1)
    BY MediaSequenceOnAir
<1>2. SUFFICES ASSUME mediaSequence(e) + 1 <= k PROVE FALSE
    BY <1>1
<1>3. publishAt(mediaSequence(e) + 1) <= publishAt(k)
  <2>1. CASE mediaSequence(e) + 1 = k
    BY <2>1, PublishAtType
  <2>2. CASE mediaSequence(e) + 1 < k
    BY <1>1, <2>2, PublishAtIncreases, PublishAtType
  <2> QED
    BY <1>1, <1>2, <2>1, <2>2
<1> QED
    BY <1>1, <1>3, PublishAtType

-----------------------------------------------------------------------------
(* Discontinuities *)

Tags == {n \in Nat : entry(n).Discontinuity}

\* A step of the discontinuity sequence: one more after a tagged segment.
LEMMA DiscontinuityStep ==
    ASSUME NEW k \in Nat
    PROVE  /\ discontinuitySequence(k) \in Nat
           /\ discontinuitySequence(k + 1) =
                 discontinuitySequence(k) + (IF k \in Tags THEN 1 ELSE 0)
<1>1. N \in Nat \ {0}
    BY ParameterTypes
<1>2. k \in Tags <=> k > 0 /\ (k % N) = 0
    BY DEF Tags, entry
<1>3. discontinuitySequence(k + 1) = k \div N
    BY DEF discontinuitySequence
<1>4. CASE k = 0
  <2>1. 0 \div N = 0
    <3>1. 0 = 0 * N + 0 /\ 0 \in 0 .. N - 1
      BY <1>1
    <3> QED
      BY <1>1, <3>1, DivModUnique
  <2> QED
    BY <1>2, <1>3, <1>4, <2>1 DEF discontinuitySequence
<1>5. CASE k # 0
  <2> DEFINE q == (k - 1) \div N
             r == (k - 1) % N
  <2>1. k - 1 \in Nat
    BY <1>5
  <2>2. q \in Nat /\ r \in 0 .. N - 1 /\ k - 1 = q * N + r
    BY <1>1, <2>1, DivMod
  <2>3. discontinuitySequence(k) = q
    BY <1>5 DEF discontinuitySequence
  <2> HIDE DEF q, r
  <2>4. CASE r + 1 = N
    <3>1. k = (q + 1) * N + 0 /\ 0 \in 0 .. N - 1
      BY <1>1, <2>2, <2>4
    <3>2. k \div N = q + 1 /\ (k % N) = 0
      BY <1>1, <2>2, <3>1, DivModUnique
    <3> QED
      BY <1>2, <1>3, <1>5, <2>2, <2>3, <3>2
  <2>5. CASE r + 1 # N
    <3>1. k = q * N + (r + 1) /\ r + 1 \in 0 .. N - 1
      BY <1>1, <2>2, <2>5
    <3>2. k \div N = q /\ (k % N) = r + 1
      BY <1>1, <2>2, <3>1, DivModUnique
    <3> QED
      BY <1>2, <1>3, <1>5, <2>2, <2>3, <3>2
  <2> QED
    BY <2>4, <2>5
<1> QED
    BY <1>4, <1>5

\* From one playlist to any later one the discontinuity sequence grows by the
\* number of tagged segments that left, however many left at once and however
\* many laps ended.
THEOREM DiscontinuityCountsTags ==
    ASSUME NEW m \in Nat, NEW n \in Nat, m <= n
    PROVE  discontinuitySequence(n) =
              discontinuitySequence(m) + Cardinality(Tags \cap (m .. n - 1))
<1> DEFINE Out(i) == Tags \cap (m .. (m + i) - 1)
           Counted(i) == discontinuitySequence(m + i) =
                            discontinuitySequence(m) + Cardinality(Out(i))
           T == {i \in Nat : Counted(i)}
<1>1. 0 \in T
  <2>1. Out(0) = {}
    OBVIOUS
  <2>2. Cardinality(Out(0)) = 0
    BY <2>1, FS_EmptySet
  <2> QED
    BY <2>2, DiscontinuityStep
<1>2. ASSUME NEW i \in Nat, i \in T PROVE i + 1 \in T
  <2>1. IsFiniteSet(Out(i)) /\ Cardinality(Out(i)) \in Nat
    <3>1. IsFiniteSet(m .. (m + i) - 1)
      BY FS_Interval
    <3>2. IsFiniteSet(Out(i))
      BY <3>1, FS_Subset
    <3> QED
      BY <3>2, FS_CardinalityType
  <2>2. Out(i + 1) = IF m + i \in Tags THEN Out(i) \cup {m + i} ELSE Out(i)
    <3>1. m .. (m + (i + 1)) - 1 = (m .. (m + i) - 1) \cup {m + i}
      OBVIOUS
    <3> QED
      BY <3>1
  <2>3. m + i \notin Out(i)
    OBVIOUS
  <2>4. Cardinality(Out(i + 1)) =
           Cardinality(Out(i)) + (IF m + i \in Tags THEN 1 ELSE 0)
    <3> HIDE DEF Out
    <3>1. Cardinality(Out(i) \cup {m + i}) = Cardinality(Out(i)) + 1
      BY <2>1, <2>3, FS_AddElement
    <3> QED
      BY <2>1, <2>2, <3>1
  <2>5. /\ discontinuitySequence((m + i) + 1) =
              discontinuitySequence(m + i) + (IF m + i \in Tags THEN 1 ELSE 0)
        /\ discontinuitySequence(m) \in Nat
        /\ discontinuitySequence(m + i) \in Nat
    BY DiscontinuityStep
  <2>6. m + (i + 1) = (m + i) + 1
    OBVIOUS
  <2>7. Counted(i)
    BY <1>2
  <2> HIDE DEF Out
  <2>8. Counted(i + 1)
    BY <2>1, <2>4, <2>5, <2>6, <2>7
  <2> QED
    BY <2>8
<1> HIDE DEF T
<1>3. \A i \in Nat : i \in T
    BY <1>1, <1>2, NatSetInduction
<1>4. n - m \in Nat /\ m + (n - m) = n
    OBVIOUS
<1>5. Counted(n - m)
    BY <1>3, <1>4 DEF T
<1> QED
    BY <1>4, <1>5

-----------------------------------------------------------------------------
(* The names in the cache *)

\* The segments a tick keeps are few and known files, and hold the window's.
LEMMA CacheNames ==
    ASSUME NEW k \in Nat
    PROVE  /\ required(k) \subseteq Name
           /\ prefetch(k) \subseteq Name
           /\ {segment(k).name, segment(k + 1).name, segment(k + 2).name}
                 \subseteq required(k)
           /\ k > 0 => segment(k - 1).name \in required(k)
<1>1. k + WindowSize - 1 = k + 2 /\ k + WindowSize = k + 3
    BY ParameterTypes
<1>2. \A n \in Nat : segment(n).name \in Name
    BY SegmentType
<1>3. CASE k = 0
  <2>1. required(k) = {segment(n).name : n \in k .. k + 2}
    BY <1>1, <1>3 DEF required
  <2> QED
    BY <1>1, <1>2, <1>3, <2>1 DEF prefetch
<1>4. CASE k > 0
  <2>1. required(k) = {segment(n).name : n \in k - 1 .. k + 2}
    BY <1>1, <1>4 DEF required
  <2>2. \A n \in k - 1 .. k + 2 : n \in Nat
    BY <1>4
  <2> HIDE DEF segment
  <2>3. required(k) \subseteq Name
    BY <1>2, <2>1, <2>2
  <2>4. \A n \in k - 1 .. k + 2 : segment(n).name \in required(k)
    BY <2>1
  <2> QED
    BY <1>1, <1>2, <2>3, <2>4 DEF prefetch
<1> QED
    BY <1>3, <1>4

\* A set of at most five elements.
LEMMA AtMostFive ==
    ASSUME NEW a, NEW b, NEW c, NEW d, NEW e, NEW S \in SUBSET {a, b, c, d, e}
    PROVE  IsFiniteSet(S) /\ Cardinality(S) <= 5
<1>1. IsFiniteSet({a}) /\ Cardinality({a}) = 1
    BY FS_Singleton
<1>2. IsFiniteSet({a} \cup {b}) /\ Cardinality({a} \cup {b}) \in 1..2
    BY <1>1, FS_AddElement
<1> DEFINE AB == {a} \cup {b}
<1> HIDE DEF AB
<1>3. IsFiniteSet(AB \cup {c}) /\ Cardinality(AB \cup {c}) \in 1..3
    BY <1>2, FS_AddElement DEF AB
<1> DEFINE ABC == AB \cup {c}
<1> HIDE DEF ABC
<1>4. IsFiniteSet(ABC \cup {d}) /\ Cardinality(ABC \cup {d}) \in 1..4
    BY <1>3, FS_AddElement DEF ABC
<1> DEFINE ABCD == ABC \cup {d}
<1> HIDE DEF ABCD
<1>5. IsFiniteSet(ABCD \cup {e}) /\ Cardinality(ABCD \cup {e}) \in 1..5
    BY <1>4, FS_AddElement DEF ABCD
<1>6. S \in SUBSET (ABCD \cup {e})
    BY DEF AB, ABC, ABCD
<1>7. IsFiniteSet(S) /\ Cardinality(S) <= Cardinality(ABCD \cup {e})
    BY <1>5, <1>6, FS_Subset
<1>8. Cardinality(S) \in Nat
    BY <1>7, FS_CardinalityType
<1> QED
    BY <1>5, <1>7, <1>8

\* However much of the prefetch is read, a tick keeps at most the grace
\* segment, the window and one segment more.
LEMMA CacheSize ==
    ASSUME NEW k \in Nat, NEW S \in SUBSET (required(k) \cup prefetch(k))
    PROVE  Cardinality(S) <= WindowSize + 2
<1> DEFINE name(n) == segment(n).name
<1>1. k + WindowSize - 1 = k + 2 /\ k + WindowSize = k + 3 /\ WindowSize + 2 = 5
    BY ParameterTypes
<1>2. required(k) \subseteq {name(k - 1), name(k), name(k + 1), name(k + 2)}
  <2>1. \A n \in k - 1 .. k + 2 : n \in {k - 1, k, k + 1, k + 2}
    OBVIOUS
  <2>2. required(k) \subseteq {name(n) : n \in k - 1 .. k + 2}
    BY <1>1 DEF required
  <2> HIDE DEF name
  <2> QED
    BY <2>1, <2>2
<1>3. prefetch(k) \subseteq {name(k + 3)}
    BY <1>1 DEF prefetch
<1> HIDE DEF name
<1>4. S \in SUBSET {name(k - 1), name(k), name(k + 1), name(k + 2), name(k + 3)}
    BY <1>2, <1>3
<1>5. Cardinality(S) <= 5
    BY <1>4, AtMostFive
<1> QED
    BY <1>1, <1>5

\* What the next tick requires is in the cache of this one, prefetch included.
LEMMA RequiredNext ==
    ASSUME NEW k \in Nat
    PROVE  required(k + 1) \subseteq required(k) \cup prefetch(k)
<1>1. /\ k + WindowSize - 1 = k + 2 /\ k + WindowSize = k + 3
      /\ (k + 1) + WindowSize - 1 = k + 3 /\ (k + 1) - 1 = k /\ k + 1 > 0
    BY ParameterTypes
<1>2. required(k + 1) = {segment(n).name : n \in k .. k + 3}
    BY <1>1 DEF required
<1>3. \A n \in k .. k + 3 : n \in {k, k + 1, k + 2, k + 3}
    OBVIOUS
<1>4. segment(k + 3).name \in required(k) \cup prefetch(k)
    BY <1>1 DEF prefetch
<1>5. {segment(k).name, segment(k + 1).name, segment(k + 2).name} \subseteq required(k)
    BY CacheNames
<1> HIDE DEF segment
<1> QED
    BY <1>2, <1>3, <1>4, <1>5

-----------------------------------------------------------------------------
(* The target duration *)

\* No segment lasts longer than the target duration.
LEMMA TargetCovers ==
    /\ target \in Nat
    /\ \A i \in 1..N : Segments[i].duration <= target * Second
<1> DEFINE Durations == {Segments[i].duration : i \in 1..N}
<1>1. longest \in Nat /\ \A i \in 1..N : Segments[i].duration <= longest
  <2>1. \A i \in 1..N : Segments[i].duration \in 0..total
    <3> SUFFICES ASSUME NEW i \in 1..N PROVE Segments[i].duration \in 0..total
      OBVIOUS
    <3>1. acc[i] = acc[i - 1] + Segments[i].duration
      BY AccRecursion
    <3>2. i \in 0..N /\ i - 1 \in 0..N /\ N \in 0..N
      BY ParameterTypes
    <3>3. acc[i] \in Nat /\ acc[i - 1] \in Nat /\ acc[N] \in Nat
      BY <3>2, AccType
    <3>4. acc[i] <= acc[N]
      <4>1. CASE i = N
        BY <3>3, <4>1
      <4>2. CASE i < N
        BY <3>2, <3>3, <4>2, AccIncreases
      <4> QED
        BY <3>2, <4>1, <4>2, ParameterTypes
    <3>5. Segments[i].duration \in Nat
      BY ParameterTypes
    <3> QED
      BY <3>1, <3>3, <3>4, <3>5 DEF total
  <2>2. Durations \in SUBSET (0..total) /\ Durations # {} /\ total \in Nat
    BY <2>1, ParameterTypes, TotalType
  <2>3. Max(Durations) \in Durations /\ \A d \in Durations : d <= Max(Durations)
    BY <2>2, MaxOfBounded
  <2> QED
    BY <2>2, <2>3 DEF longest
<1>2. Second \in Nat \ {0} /\ longest + Second - 1 \in Nat
    BY <1>1, SecondAssumption
<1> DEFINE r == (longest + Second - 1) % Second
<1>3. /\ target \in Nat /\ r \in 0 .. Second - 1
      /\ longest + Second - 1 = target * Second + r
    BY <1>2, DivMod DEF target
<1> HIDE DEF r
<1>4. target * Second \in Nat
    BY <1>2, <1>3
<1>5. longest <= target * Second
    BY <1>1, <1>2, <1>3, <1>4
<1>6. \A i \in 1..N : Segments[i].duration \in Nat
    BY ParameterTypes
<1> QED
    BY <1>1, <1>3, <1>4, <1>5, <1>6

\* Two segments last no longer than twice the target duration.
LEMMA TwoSegments ==
    ASSUME NEW k \in Nat
    PROVE  /\ publishAt(k + 1) \in Nat /\ publishAt(k + 3) \in Nat
           /\ publishAt(k + 3) <= publishAt(k + 1) + 2 * target * Second
<1>1. \A n \in Nat : segment(n).duration \in Nat /\ segment(n).duration <= target * Second
    BY Position, TargetCovers, SegmentType DEF segment
<1>2. /\ publishAt((k + 1) + 1) = publishAt(k + 1) + segment(k + 1).duration
      /\ publishAt((k + 2) + 1) = publishAt(k + 2) + segment(k + 2).duration
    BY PublishAtNext
<1>3. (k + 1) + 1 = k + 2 /\ (k + 2) + 1 = k + 3 /\ k + 1 \in Nat /\ k + 2 \in Nat
    OBVIOUS
<1>4. publishAt(k + 1) \in Nat /\ publishAt(k + 2) \in Nat /\ publishAt(k + 3) \in Nat
    BY PublishAtType
<1>5. target * Second \in Nat /\ 2 * target * Second = target * Second + target * Second
    BY TargetCovers, SecondAssumption
<1> QED
    BY <1>1, <1>2, <1>3, <1>4, <1>5
=============================================================================
