-------------------------- MODULE HadithReaderProofs --------------------------
(* What the Hadith reader shows, for any database and page size.           *)
EXTENDS HadithReader, FiniteSetTheorems, SequenceTheorems, TLAPS

-----------------------------------------------------------------------------
(* Lists in ascending order.                                               *)

\* A list that goes up has no hadith twice.
Rising(list) == \A i, j \in DOMAIN list : i < j => list[i] < list[j]

Below(x, S) == {y \in S : y < x}

\* The number of the smaller elements grows with an element, and is less than
\* the number of all.
LEMMA Ranks ==
  ASSUME NEW S, IsFiniteSet(S), S \subseteq Int
  PROVE  /\ \A x \in S : Cardinality(Below(x, S)) \in 0 .. Cardinality(S) - 1
         /\ \A x, y \in S : x < y => Cardinality(Below(x, S)) < Cardinality(Below(y, S))
  <1>0. Cardinality(S) \in Nat
    BY FS_CardinalityType
  <1>1. ASSUME NEW x \in S
        PROVE  /\ IsFiniteSet(Below(x, S)) /\ Cardinality(Below(x, S)) \in Nat
               /\ Cardinality(Below(x, S)) < Cardinality(S)
    <2>1. Below(x, S) \in SUBSET S /\ x \notin Below(x, S)
      BY DEF Below
    <2>2. /\ IsFiniteSet(Below(x, S)) /\ Cardinality(Below(x, S)) <= Cardinality(S)
          /\ Cardinality(S) # Cardinality(Below(x, S))
      BY <2>1, FS_Subset
    <2>3. Cardinality(Below(x, S)) \in Nat
      BY <2>2, FS_CardinalityType
    <2> QED
      BY <1>0, <2>2, <2>3
  <1>2. ASSUME NEW x \in S, NEW y \in S, x < y
        PROVE  Cardinality(Below(x, S)) < Cardinality(Below(y, S))
    <2>0. x \in Int /\ y \in Int /\ \A z \in S : z \in Int
      OBVIOUS
    <2>1. Below(x, S) \in SUBSET Below(y, S) /\ x \in Below(y, S) /\ x \notin Below(x, S)
      <3>1. \A z \in S : z < x => z < y
        BY <1>2, <2>0
      <3>2. ~(x < x)
        BY <2>0
      <3> QED
        BY <1>2, <3>1, <3>2 DEF Below
    <2>2. IsFiniteSet(Below(y, S))
      BY <1>1
    <2>3. /\ Cardinality(Below(x, S)) <= Cardinality(Below(y, S))
          /\ Cardinality(Below(y, S)) # Cardinality(Below(x, S))
      BY <2>1, <2>2, FS_Subset
    <2>4. Cardinality(Below(x, S)) \in Nat /\ Cardinality(Below(y, S)) \in Nat
      BY <1>1
    <2> QED
      BY <2>3, <2>4
  <1> QED
    BY <1>0, <1>1, <1>2

\* So different elements have different ranks, and every rank is taken.
LEMMA RankIsTaken ==
  ASSUME NEW S, IsFiniteSet(S), S \subseteq Int
  PROVE  /\ \A x, y \in S : Cardinality(Below(x, S)) = Cardinality(Below(y, S)) => x = y
         /\ \A k \in 1..Cardinality(S) : \E x \in S : Cardinality(Below(x, S)) = k - 1
  <1> DEFINE n == Cardinality(S)
             rank == [x \in S |-> Cardinality(Below(x, S))]
  <1>0. n \in Nat
    BY FS_CardinalityType
  <1>1. \A x, y \in S : Cardinality(Below(x, S)) = Cardinality(Below(y, S)) => x = y
    <2> SUFFICES ASSUME NEW x \in S, NEW y \in S, x # y
                 PROVE  Cardinality(Below(x, S)) # Cardinality(Below(y, S))
      OBVIOUS
    <2>1. x < y \/ y < x
      OBVIOUS
    <2>2. Cardinality(Below(x, S)) \in 0..(n - 1) /\ Cardinality(Below(y, S)) \in 0..(n - 1)
      BY Ranks
    <2>3. \/ Cardinality(Below(x, S)) < Cardinality(Below(y, S))
          \/ Cardinality(Below(y, S)) < Cardinality(Below(x, S))
      BY <2>1, Ranks
    <2> QED
      BY <1>0, <2>2, <2>3
  <1>2. rank \in Injection(S, 0..(n - 1))
    <2>1. rank \in [S -> 0..(n - 1)]
      BY Ranks
    <2> QED
      BY <1>1, <2>1 DEF Injection, IsInjective
  <1>3. IsFiniteSet(0..(n - 1)) /\ Cardinality(0..(n - 1)) = n
    <2>1. 0 \in Int /\ n - 1 \in Int
      BY <1>0
    <2>2. Cardinality(0..(n - 1)) = IF 0 > n - 1 THEN 0 ELSE (n - 1) - 0 + 1
      BY <2>1, FS_Interval
    <2> QED
      BY <1>0, <2>1, <2>2, FS_Interval
  <1>4. rank \in Surjection(S, 0..(n - 1))
    <2> HIDE DEF rank, n
    <2>1. Cardinality(S) = n
      BY DEF n
    <2> QED
      BY <1>2, <1>3, <2>1, FS_Injection
  <1>5. ASSUME NEW k \in 1..n PROVE \E x \in S : Cardinality(Below(x, S)) = k - 1
    <2>1. k - 1 \in 0..(n - 1)
      BY <1>0
    <2>2. \E x \in S : rank[x] = k - 1
      BY <1>4, <2>1 DEF Surjection
    <2> QED
      BY <2>2
  <1> QED
    BY <1>1, <1>5

\* A set in ascending order goes up and has the elements of the set.
LEMMA AscendingProperties ==
  ASSUME NEW S, IsFiniteSet(S), S \subseteq Int
  PROVE  /\ Ascending(S) \in Seq(S) /\ Len(Ascending(S)) = Cardinality(S)
         /\ DOMAIN Ascending(S) = 1..Cardinality(S)
         /\ \A k \in 1..Cardinality(S) : Cardinality(Below(Ascending(S)[k], S)) = k - 1
         /\ Rising(Ascending(S)) /\ Range(Ascending(S)) = S
  <1> DEFINE n == Cardinality(S)
             s == Ascending(S)
  <1>0. n \in Nat
    BY FS_CardinalityType
  <1>1. /\ s = [k \in 1..n |-> CHOOSE x \in S : Cardinality(Below(x, S)) = k - 1]
        /\ DOMAIN s = 1..n
    BY DEF Ascending, Below
  <1>2. ASSUME NEW k \in 1..n PROVE s[k] \in S /\ Cardinality(Below(s[k], S)) = k - 1
    <2>1. s[k] = CHOOSE x \in S : Cardinality(Below(x, S)) = k - 1
      BY <1>1
    <2>2. \E x \in S : Cardinality(Below(x, S)) = k - 1
      BY RankIsTaken
    <2> HIDE DEF s, n
    <2> QED
      BY <2>1, <2>2
  <1> HIDE DEF s
  <1>3. s \in Seq(S) /\ Len(s) = n
    BY <1>0, <1>1, <1>2
  <1>4. Rising(s)
    <2> SUFFICES ASSUME NEW i \in 1..n, NEW j \in 1..n, i < j PROVE s[i] < s[j]
      BY <1>1 DEF Rising
    <2>1. /\ s[i] \in S /\ s[j] \in S /\ Cardinality(Below(s[i], S)) = i - 1
          /\ Cardinality(Below(s[j], S)) = j - 1
      BY <1>2
    <2>2. i \in Int /\ j \in Int /\ s[i] \in Int /\ s[j] \in Int
      <3>1. i \in Int /\ j \in Int
        BY <1>0
      <3>2. s[i] \in Int /\ s[j] \in Int
        BY <2>1
      <3> QED
        BY <3>1, <3>2
    <2>3. ASSUME s[j] < s[i] PROVE FALSE
      <3>1. Cardinality(Below(s[j], S)) < Cardinality(Below(s[i], S))
        BY <2>1, <2>3, Ranks
      <3> QED
        BY <2>1, <2>2, <3>1
    <2>4. s[j] # s[i]
      <3>1. i - 1 # j - 1
        BY <2>2
      <3> QED
        BY <2>1, <3>1
    <2> QED
      BY <2>2, <2>3, <2>4
  <1>5. Range(s) = S
    <2>1. Range(s) \subseteq S
      BY <1>1, <1>2 DEF Range
    <2>2. ASSUME NEW x \in S PROVE x \in Range(s)
      <3> DEFINE k == Cardinality(Below(x, S)) + 1
      <3>1. k \in 1..n /\ Cardinality(Below(x, S)) = k - 1
        <4> DEFINE r == Cardinality(Below(x, S))
        <4>1. r \in 0..(n - 1)
          BY Ranks
        <4> HIDE DEF r, n
        <4>2. r + 1 \in 1..n /\ r = (r + 1) - 1
          BY <1>0, <4>1
        <4> QED
          BY <4>2 DEF r
      <3> HIDE DEF k
      <3>2. s[k] = x
        BY <1>2, <3>1, RankIsTaken
      <3> QED
        BY <1>1, <3>1, <3>2 DEF Range
    <2> QED
      BY <2>1, <2>2
  <1> QED
    BY <1>1, <1>2, <1>3, <1>4, <1>5 DEF s

\* There is one such list: a list that goes up is its own set in order.
LEMMA RisingIsAscending ==
  ASSUME NEW s \in Seq(Int), Rising(s)
  PROVE  s = Ascending(Range(s))
  <1> DEFINE n == Len(s)
             S == Range(s)
             a == Ascending(S)
  <1>1. n \in Nat /\ DOMAIN s = 1..n /\ s \in [1..n -> Int] /\ S \subseteq Int
    BY LenProperties DEF Range
  <1>2. \A i, j \in 1..n : s[i] = s[j] => i = j
    <2> SUFFICES ASSUME NEW i \in 1..n, NEW j \in 1..n, i # j PROVE s[i] # s[j]
      OBVIOUS
    <2>1. i < j \/ j < i
      BY <1>1
    <2> QED
      BY <1>1, <2>1 DEF Rising
  <1>3. IsFiniteSet(1..n) /\ Cardinality(1..n) = n
    <2>1. Cardinality(1..n) = IF 1 > n THEN 0 ELSE n - 1 + 1
      BY <1>1, FS_Interval
    <2> QED
      BY <1>1, <2>1, FS_Interval
  <1>4. s \in Surjection(1..n, S) /\ s \in Injection(1..n, S)
    BY <1>1, <1>2 DEF Surjection, Injection, IsInjective, Range
  <1> HIDE DEF n, S
  <1>5. IsFiniteSet(S) /\ Cardinality(S) = n
    BY <1>3, <1>4, FS_Surjection
  <1>6. ASSUME NEW k \in 1..n PROVE Cardinality(Below(s[k], S)) = k - 1
    <2> DEFINE g == [j \in 1..(k - 1) |-> s[j]]
               B == Below(s[k], S)
    <2>1. k - 1 \in Nat /\ 1..(k - 1) \subseteq 1..n
      BY <1>1
    <2>2. \A j \in 1..(k - 1) : s[j] \in B
      <3> SUFFICES ASSUME NEW j \in 1..(k - 1) PROVE s[j] \in S /\ s[j] < s[k]
        BY DEF Below
      <3>1. j \in 1..n /\ j < k
        BY <1>1
      <3> QED
        BY <1>1, <1>4, <3>1 DEF Rising, Surjection
    <2>3. \A y \in B : \E j \in 1..(k - 1) : y = s[j]
      <3> SUFFICES ASSUME NEW y \in S, y < s[k] PROVE \E j \in 1..(k - 1) : y = s[j]
        BY DEF Below
      <3>1. PICK j \in 1..n : y = s[j]
        BY <1>1 DEF S, Range
      <3>2. ~(k < j) /\ k # j
        BY <1>1, <3>1 DEF Rising
      <3>3. j \in 1..(k - 1)
        BY <1>1, <3>2
      <3> QED
        BY <3>1, <3>3
    <2>4. g \in Surjection(1..(k - 1), B) /\ g \in Injection(1..(k - 1), B)
      <3>1. g \in [1..(k - 1) -> B]
        BY <2>2
      <3>2. g \in Surjection(1..(k - 1), B)
        BY <2>3, <3>1 DEF Surjection
      <3>3. g \in Injection(1..(k - 1), B)
        BY <1>2, <2>1, <3>1 DEF Injection, IsInjective
      <3> QED
        BY <3>2, <3>3
    <2>5. IsFiniteSet(1..(k - 1)) /\ Cardinality(1..(k - 1)) = k - 1
      <3>1. Cardinality(1..(k - 1)) = IF 1 > k - 1 THEN 0 ELSE (k - 1) - 1 + 1
        BY <2>1, FS_Interval
      <3> QED
        BY <2>1, <3>1, FS_Interval
    <2> HIDE DEF g, B
    <2>6. Cardinality(B) = Cardinality(1..(k - 1))
      BY <2>4, <2>5, FS_Surjection
    <2> QED
      BY <2>5, <2>6 DEF B
  <1>7. /\ a \in Seq(S) /\ Len(a) = n /\ DOMAIN a = 1..n
        /\ \A k \in 1..n : Cardinality(Below(a[k], S)) = k - 1
    <2>1. S \subseteq Int
      BY <1>1 DEF S
    <2> QED
      BY <1>5, <2>1, AscendingProperties
  <1> HIDE DEF a
  <1>8. ASSUME NEW k \in 1..n PROVE s[k] = a[k]
    <2>1. s[k] \in S /\ a[k] \in S /\ S \subseteq Int
      BY <1>1, <1>4, <1>7 DEF Surjection, S
    <2>2. Cardinality(Below(s[k], S)) = Cardinality(Below(a[k], S))
      BY <1>6, <1>7
    <2> QED
      BY <1>5, <2>1, <2>2, RankIsTaken
  <1>9. s \in Seq(S)
    BY <1>1, <1>4 DEF Surjection, n
  <1> QED
    BY <1>7, <1>8, <1>9, SeqEqual DEF a, n, S

-----------------------------------------------------------------------------
(* The operators on lists.                                                 *)

\* Two lists that go up, the second beyond the first, go up together.
LEMMA RisingJoined ==
  ASSUME NEW s \in Seq(Int), NEW t \in Seq(Int), Rising(s), Rising(t),
         \A x \in Range(s), y \in Range(t) : x < y
  PROVE  /\ Rising(s \o t) /\ Range(s \o t) = Range(s) \cup Range(t)
         /\ s # <<>> => (s \o t)[1] = s[1]
         /\ t # <<>> => LastId(s \o t) = LastId(t)
  <1> DEFINE u == s \o t
             m == Len(s)
             n == Len(t)
  <1>1. /\ m \in Nat /\ n \in Nat /\ DOMAIN s = 1..m /\ DOMAIN t = 1..n
        /\ s \in [1..m -> Int] /\ t \in [1..n -> Int]
    BY LenProperties
  <1>2. /\ u \in Seq(Int) /\ Len(u) = m + n /\ DOMAIN u = 1..(m + n)
        /\ \A i \in 1..(m + n) : u[i] = IF i <= m THEN s[i] ELSE t[i - m]
    BY ConcatProperties, LenProperties
  <1>3. (s # <<>> => m # 0) /\ (t # <<>> => n # 0) /\ (u = <<>> => Len(u) = 0)
    BY EmptySeq
  <1> HIDE DEF u, m, n
  <1>4. ASSUME NEW i \in 1..m PROVE i \in 1..(m + n) /\ u[i] = s[i] /\ s[i] \in Range(s)
    BY <1>1, <1>2 DEF Range
  <1>5. ASSUME NEW i \in 1..n
        PROVE  m + i \in 1..(m + n) /\ u[m + i] = t[i] /\ t[i] \in Range(t)
    <2>1. m + i \in 1..(m + n) /\ ~(m + i <= m) /\ (m + i) - m = i
      BY <1>1
    <2> QED
      BY <1>1, <1>2, <2>1 DEF Range
  <1>6. ASSUME NEW i \in 1..(m + n)
        PROVE  i \in 1..m \/ (i - m \in 1..n /\ m + (i - m) = i)
    BY <1>1
  <1>7. Rising(u)
    <2> SUFFICES ASSUME NEW i \in 1..(m + n), NEW j \in 1..(m + n), i < j PROVE u[i] < u[j]
      BY <1>2 DEF Rising
    <2>1. CASE j \in 1..m
      <3>1. i \in 1..m
        BY <1>1, <2>1
      <3> QED
        BY <1>1, <1>4, <2>1, <3>1 DEF Rising
    <2>2. CASE i \in 1..m /\ j \notin 1..m
      BY <1>4, <1>5, <1>6, <2>2
    <2>3. CASE i \notin 1..m /\ j \notin 1..m
      <3>1. i - m \in 1..n /\ j - m \in 1..n /\ i - m < j - m
        BY <1>1, <1>6, <2>3
      <3>2. t[i - m] < t[j - m]
        BY <1>1, <3>1 DEF Rising
      <3> QED
        BY <1>5, <1>6, <2>3, <3>1, <3>2
    <2> QED
      <3>1. j \in 1..m => i \in 1..m
        BY <1>1
      <3> QED
        BY <2>1, <2>2, <2>3, <3>1
  <1>8. Range(u) = Range(s) \cup Range(t)
    <2>1. Range(s) \cup Range(t) \subseteq Range(u)
      <3>1. ASSUME NEW i \in 1..m PROVE s[i] \in Range(u)
        BY <1>2, <1>4 DEF Range
      <3>2. ASSUME NEW i \in 1..n PROVE t[i] \in Range(u)
        BY <1>2, <1>5 DEF Range
      <3> QED
        BY <1>1, <3>1, <3>2 DEF Range
    <2>2. ASSUME NEW i \in 1..(m + n) PROVE u[i] \in Range(s) \cup Range(t)
      BY <1>4, <1>5, <1>6
    <2> QED
      BY <1>2, <2>1, <2>2 DEF Range
  <1>9. s # <<>> => u[1] = s[1]
    <2>1. m # 0 => 1 \in 1..m
      BY <1>1
    <2> QED
      BY <1>3, <1>4, <2>1
  <1>10. t # <<>> => LastId(u) = LastId(t)
    <2>1. n # 0 => n \in 1..n /\ m + n # 0
      BY <1>1
    <2>2. LastId(t) = IF t = <<>> THEN 0 ELSE t[n]
      BY DEF LastId, n
    <2>3. LastId(u) = IF u = <<>> THEN 0 ELSE u[m + n]
      BY <1>2 DEF LastId
    <2> QED
      BY <1>2, <1>3, <1>5, <2>1, <2>2, <2>3
  <1> QED
    BY <1>7, <1>8, <1>9, <1>10 DEF u

\* The ends of a list that goes up are its least and its greatest element.
LEMMA EndsOfRising ==
  ASSUME NEW s \in Seq(Int), Rising(s), s # <<>>
  PROVE  /\ s[1] \in Range(s) /\ LastId(s) \in Range(s) /\ Head(s) = s[1]
         /\ \A x \in Range(s) : s[1] <= x /\ x <= LastId(s)
  <1> DEFINE n == Len(s)
  <1>1. n \in Nat /\ n # 0 /\ DOMAIN s = 1..n /\ s \in [1..n -> Int] /\ LastId(s) = s[n]
    BY LenProperties, EmptySeq DEF LastId
  <1> HIDE DEF n
  <1>2. 1 \in 1..n /\ n \in 1..n
    BY <1>1
  <1>3. ASSUME NEW i \in 1..n PROVE s[1] <= s[i] /\ s[i] <= s[n]
    <2>1. (i = 1 \/ 1 < i) /\ (i = n \/ i < n)
      BY <1>1
    <2>2. s[1] \in Int /\ s[i] \in Int /\ s[n] \in Int
      BY <1>1, <1>2
    <2>3. (i = 1 \/ s[1] < s[i]) /\ (i = n \/ s[i] < s[n])
      BY <1>1, <1>2, <2>1 DEF Rising
    <2> QED
      BY <2>2, <2>3
  <1>4. Head(s) = s[1]
    BY HeadTailProperties
  <1> QED
    BY <1>1, <1>2, <1>3, <1>4 DEF Range

\* The first elements of a list that goes up are all up to the last of them.
LEMMA Beginning ==
  ASSUME NEW s \in Seq(Int), Rising(s), NEW m \in 0..Len(s)
  PROVE  LET b == SubSeq(s, 1, m)
         IN  /\ b \in Seq(Int) /\ Rising(b) /\ Len(b) = m
             /\ Range(b) \subseteq Range(s)
             /\ b # <<>> => Range(b) = {x \in Range(s) : x <= LastId(b)}
  <1> DEFINE b == SubSeq(s, 1, m)
             n == Len(s)
  <1>1. n \in Nat /\ DOMAIN s = 1..n /\ s \in [1..n -> Int] /\ m \in Nat /\ m <= n
    BY LenProperties
  <1>2. b = [i \in 1..m |-> s[i]] /\ b \in Seq(Int) /\ Len(b) = m
    <2>1. \A i \in 1..m : s[i] \in Int
      BY <1>1
    <2> QED
      BY <1>1, <2>1, SubSeqProperties
  <1> HIDE DEF b, n
  <1>3. \A i \in 1..m : i \in 1..n /\ b[i] = s[i]
    BY <1>1, <1>2
  <1>4. DOMAIN b = 1..m
    BY <1>2
  <1>5. Rising(b)
    BY <1>1, <1>3, <1>4 DEF Rising
  <1>6. Range(b) \subseteq Range(s)
    BY <1>1, <1>3, <1>4 DEF Range
  <1>7. ASSUME b # <<>> PROVE Range(b) = {x \in Range(s) : x <= LastId(b)}
    <2>1. m # 0
      BY <1>2, <1>7, EmptySeq
    <2>2. m \in 1..m /\ LastId(b) = s[m]
      BY <1>1, <1>2, <1>3, <1>7, <2>1 DEF LastId
    <2>3. ASSUME NEW i \in 1..n, s[i] <= s[m] PROVE i \in 1..m
      <3>1. ~(m < i)
        <4>1. s[i] \in Int /\ s[m] \in Int /\ m \in 1..n
          BY <1>1, <1>3, <2>2
        <4>2. m < i => s[m] < s[i]
          BY <1>1, <4>1 DEF Rising
        <4> QED
          BY <2>3, <4>1, <4>2
      <3> QED
        BY <1>1, <3>1
    <2>4. ASSUME NEW x \in Range(s), x <= LastId(b) PROVE x \in Range(b)
      <3>1. PICK i \in 1..n : x = s[i]
        BY <1>1 DEF Range
      <3> QED
        BY <1>3, <1>4, <2>2, <2>3, <2>4, <3>1 DEF Range
    <2>5. ASSUME NEW x \in Range(b) PROVE x \in Range(s) /\ x <= LastId(b)
      BY <1>2, <1>5, <1>6, <1>7, EndsOfRising
    <2> QED
      BY <2>4, <2>5
  <1> QED
    BY <1>2, <1>5, <1>6, <1>7 DEF b

\* Filtering a list that goes up leaves one that goes up.
LEMMA RisingFiltered ==
  ASSUME NEW T, T \subseteq Int, NEW list \in Seq(T), Rising(list), NEW S
  PROVE  Filter(list, S) \in Seq(T) /\ Rising(Filter(list, S))
  <1> DEFINE n == Len(list)
             P == {i \in DOMAIN list : list[i] \in S}
             places == Ascending(P)
             f == Filter(list, S)
  <1>1. n \in Nat /\ DOMAIN list = 1..n /\ list \in [1..n -> T]
    BY LenProperties
  <1>2. IsFiniteSet(P) /\ P \subseteq Int /\ P \subseteq 1..n
    <2>1. IsFiniteSet(1..n) /\ P \in SUBSET (1..n)
      BY <1>1, FS_Interval
    <2> QED
      BY <1>1, <2>1, FS_Subset
  <1> HIDE DEF P
  <1>3. places \in Seq(P) /\ Rising(places)
    BY <1>2, AscendingProperties
  <1>4. f = [k \in DOMAIN places |-> list[places[k]]]
    BY DEF Filter, P
  <1> HIDE DEF f, places, n
  <1>5. /\ DOMAIN places = 1..Len(places) /\ Len(places) \in Nat
        /\ \A k \in DOMAIN places : places[k] \in 1..n
    <2>1. DOMAIN places = 1..Len(places) /\ Len(places) \in Nat /\ places \in [1..Len(places) -> P]
      BY <1>3, LenProperties
    <2> QED
      BY <1>2, <2>1
  <1>6. f \in Seq(T)
    BY <1>1, <1>4, <1>5
  <1>7. Rising(f)
    BY <1>1, <1>3, <1>4, <1>5 DEF Rising
  <1> QED
    BY <1>6, <1>7 DEF f

-----------------------------------------------------------------------------
(* The queries.                                                            *)

\* The ids are positive, and a book or a topic that is there has hadiths.
LEMMA Database ==
  /\ IsFiniteSet(Hadith) /\ Hadith \subseteq Int /\ \A h \in Hadith : h \in Nat /\ h > 0
  /\ \A h \in Hadith : Catalogue[h].book \in Book /\ Catalogue[h].topic \in Topic
  /\ OfBook(NoName) = {} /\ \A b \in Book : OfBook(b) # {}
  /\ \A b : \A t \in TopicsOf(b) : t \in Topic /\ OfTopic(b, t) # {}
  <1>1. Catalogue \in [1..Len(Catalogue) -> [book : Book, topic : Topic]] /\ Len(Catalogue) \in Nat
        /\ Hadith = 1..Len(Catalogue)
    BY CatalogueAssumption, LenProperties DEF Hadith
  <1>2. IsFiniteSet(Hadith) /\ Hadith \subseteq Int /\ \A h \in Hadith : h \in Nat /\ h > 0
    BY <1>1, FS_Interval
  <1>3. \A h \in Hadith : Catalogue[h].book \in Book /\ Catalogue[h].topic \in Topic
    BY DEF Book, Topic
  <1>4. OfBook(NoName) = {} /\ \A b \in Book : OfBook(b) # {}
    BY <1>3, PageAssumption DEF OfBook, Book
  <1>5. ASSUME NEW b, NEW t \in TopicsOf(b) PROVE t \in Topic /\ OfTopic(b, t) # {}
    <2>1. PICK h \in Hadith : Catalogue[h].book = b /\ Catalogue[h].topic = t
      BY DEF TopicsOf, OfBook
    <2>2. Catalogue[h] = [book |-> b, topic |-> t]
      BY <1>1, <2>1
    <2> QED
      BY <1>3, <2>1, <2>2 DEF OfTopic
  <1> QED
    BY <1>2, <1>3, <1>4, <1>5

\* ORDER BY id
LEMMA QueryById ==
  ASSUME NEW S \in SUBSET Hadith
  PROVE  /\ ById(S) \in Seq(Hadith) /\ ById(S) \in Seq(Int) /\ Rising(ById(S)) /\ Range(ById(S)) = S
         /\ S # {} => ById(S) # <<>>
  <1>1. IsFiniteSet(S) /\ S \subseteq Int
    BY Database, FS_Subset
  <1>2. ById(S) \in Seq(S) /\ Rising(ById(S)) /\ Range(ById(S)) = S
    BY <1>1, AscendingProperties DEF ById
  <1>3. ById(S) \in Seq(Hadith) /\ ById(S) \in Seq(Int)
    BY <1>1, <1>2, SeqMonotonic
  <1>4. ById(S) = <<>> => Range(ById(S)) = {}
    BY DEF Range
  <1> QED
    BY <1>2, <1>3, <1>4

\* A page of a book: what follows afterId up to the end of the page.
LEMMA QueryBook ==
  ASSUME NEW b, NEW afterId \in Nat
  PROVE  LET batch == HadithsInBook(b, afterId)
         IN  /\ batch \in Seq(Hadith) /\ batch \in Seq(Int) /\ Rising(batch)
             /\ batch = <<>> => \A h \in OfBook(b) : ~(h > afterId)
             /\ batch # <<>> =>
                  Range(batch) = {h \in OfBook(b) : h > afterId /\ h <= LastId(batch)}
  <1> DEFINE S == {h \in OfBook(b) : h > afterId}
             found == ById(S)
             m == IF Len(found) < PageSize THEN Len(found) ELSE PageSize
             batch == SubSeq(found, 1, m)
  <1>0. OfBook(b) \subseteq Hadith
    BY DEF OfBook
  <1>1. found \in Seq(Hadith) /\ found \in Seq(Int) /\ Rising(found) /\ Range(found) = S
    BY <1>0, QueryById
  <1>2. HadithsInBook(b, afterId) = batch
    BY DEF HadithsInBook
  <1>3. Len(found) \in Nat /\ DOMAIN found = 1..Len(found)
    BY <1>1, LenProperties
  <1> HIDE DEF found
  <1>4. m \in 0..Len(found) /\ (m = 0 => Len(found) = 0)
    BY <1>3, PageAssumption
  <1> HIDE DEF m
  <1>5. /\ batch \in Seq(Int) /\ Rising(batch) /\ Len(batch) = m
        /\ Range(batch) \subseteq S
        /\ batch # <<>> => Range(batch) = {h \in S : h <= LastId(batch)}
    BY <1>1, <1>4, Beginning
  <1> HIDE DEF batch
  <1>6. batch \in Seq(Hadith)
    <2>1. Len(batch) \in Nat /\ DOMAIN batch = 1..Len(batch) /\ batch \in [1..Len(batch) -> Int]
      BY <1>5, LenProperties
    <2>2. \A i \in 1..Len(batch) : batch[i] \in Hadith
      BY <1>0, <1>5, <2>1 DEF Range
    <2> QED
      BY <2>1, <2>2
  <1>7. batch = <<>> => S = {}
    <2>1. batch = <<>> => Len(found) = 0
      BY <1>4, <1>5
    <2>2. Len(found) = 0 => Range(found) = {}
      BY <1>3 DEF Range
    <2> QED
      BY <1>1, <2>1, <2>2
  <1> QED
    BY <1>2, <1>5, <1>6, <1>7

-----------------------------------------------------------------------------
(* The reader.                                                             *)

\* What a list shows: in a book the run of hadiths between its ends, and
\* nothing only where there is no book; in a topic all of it.  Any list is in
\* the order of the ids, so that it has no hadith twice.
Shows(m, b, t, list) ==
  /\ Rising(list)
  /\ m = "book" =>
       /\ list = <<>> => b = NoName
       /\ list # <<>> => Range(list) = {h \in OfBook(b) : list[1] <= h /\ h <= LastId(list)}
  /\ m = "topic" => list # <<>> /\ Range(list) = OfTopic(b, t)

\* The reader shows its list, goes on where the list ends, and its place is in
\* the list.
ListInOrder ==
  /\ Shows(mode, book, topic, items)
  /\ mode = "book" => lastLoadedId = LastId(items)
  /\ items # <<>> /\ mode # "selection" => currentId \in Range(items)

\* A list from the first page of a book shows that book.
LEMMA FirstPage ==
  ASSUME NEW b, NEW t, NEW afterId \in Nat, b = NoName \/ \E h \in OfBook(b) : h > afterId
  PROVE  /\ HadithsInBook(b, afterId) \in Seq(Hadith)
         /\ Shows("book", b, t, HadithsInBook(b, afterId))
  <1> DEFINE batch == HadithsInBook(b, afterId)
  <1>1. /\ batch \in Seq(Hadith) /\ batch \in Seq(Int) /\ Rising(batch)
        /\ batch = <<>> => \A h \in OfBook(b) : ~(h > afterId)
        /\ batch # <<>> => Range(batch) = {h \in OfBook(b) : h > afterId /\ h <= LastId(batch)}
    BY QueryBook
  <1>2. OfBook(b) \subseteq Int
    BY Database DEF OfBook
  <1> HIDE DEF batch
  <1>3. ASSUME batch # <<>>
        PROVE  Range(batch) = {h \in OfBook(b) : batch[1] <= h /\ h <= LastId(batch)}
    <2>1. /\ batch[1] \in Range(batch) /\ \A x \in Range(batch) : batch[1] <= x
      BY <1>1, <1>3, EndsOfRising
    <2>2. batch[1] \in Int /\ batch[1] > afterId
      BY <1>1, <1>2, <1>3, <2>1
    <2>3. \A h \in OfBook(b) : batch[1] <= h => h > afterId
      BY <1>2, <2>2
    <2> QED
      BY <1>1, <1>3, <2>1, <2>3
  <1> QED
    BY <1>1, <1>3 DEF Shows, batch

\* A topic and a reading list.
LEMMA OtherPages ==
  ASSUME NEW b
  PROVE  /\ \A t \in TopicsOf(b) : /\ HadithsByTopic(b, t) \in Seq(Hadith)
                                   /\ Shows("topic", b, t, HadithsByTopic(b, t))
         /\ \A topics, t : /\ HadithsForSelection(b, topics) \in Seq(Hadith)
                           /\ Shows("selection", b, t, HadithsForSelection(b, topics))
  <1>1. \A t : OfTopic(b, t) \in SUBSET Hadith
    BY DEF OfTopic
  <1>2. \A topics : UNION {OfTopic(b, t) : t \in topics} \in SUBSET Hadith
    BY <1>1
  <1>3. ASSUME NEW t \in TopicsOf(b)
        PROVE  /\ HadithsByTopic(b, t) \in Seq(Hadith)
               /\ Shows("topic", b, t, HadithsByTopic(b, t))
    BY <1>1, QueryById, Database DEF HadithsByTopic, Shows
  <1>4. ASSUME NEW topics, NEW t
        PROVE  /\ HadithsForSelection(b, topics) \in Seq(Hadith)
               /\ Shows("selection", b, t, HadithsForSelection(b, topics))
    BY <1>2, QueryById DEF HadithsForSelection, Shows
  <1> QED
    BY <1>3, <1>4

\* The head of a list that shows something is in it.
LEMMA ShownIds ==
  ASSUME NEW list \in Seq(Hadith), Rising(list)
  PROVE  /\ list \in Seq(Int) /\ Range(list) \subseteq Hadith
         /\ FirstId(list) \in Hadith \cup {0} /\ LastId(list) \in Hadith \cup {0}
         /\ list # <<>> => FirstId(list) \in Range(list) /\ Head(list) \in Range(list)
  <1>1. list \in Seq(Int)
    BY Database, SeqMonotonic
  <1>2. Range(list) \subseteq Hadith
    <2>1. list \in [DOMAIN list -> Hadith]
      BY LenProperties
    <2> QED
      BY <2>1 DEF Range
  <1>3. list # <<>> => LastId(list) \in Range(list) /\ Head(list) \in Range(list)
    BY <1>1, EndsOfRising
  <1> QED
    BY <1>1, <1>2, <1>3 DEF FirstId, LastId

\* A new reader shows what it was opened with.
LEMMA OpenedStep ==
  ASSUME HadithTypeOK, NEW m \in {"book", "topic", "selection"}, NEW b \in Book \cup {NoName},
         NEW t \in Topic \cup {NoName}, NEW list \in Seq(Hadith), Shows(m, b, t, list),
         Opened(m, b, t, list)
  PROVE  HadithTypeOK' /\ ListInOrder'
  <1>1. /\ FirstId(list) \in Hadith \cup {0} /\ LastId(list) \in Hadith \cup {0}
        /\ list # <<>> => FirstId(list) \in Range(list)
    BY ShownIds DEF Shows
  <1>2. /\ open' = TRUE /\ mode' = m /\ book' = b /\ topic' = t /\ items' = list
        /\ lastLoadedId' = (IF m = "book" THEN LastId(list) ELSE 0) /\ reachedEnd' \in BOOLEAN
        /\ currentId' = FirstId(list) /\ selecting' = FALSE /\ selectedIds' = {}
        /\ UNCHANGED <<behind, progress>>
    BY DEF Opened
  <1>3. HadithTypeOK'
    BY <1>1, <1>2 DEF HadithTypeOK
  <1>4. ListInOrder'
    BY <1>1, <1>2 DEF ListInOrder, Shows
  <1> QED
    BY <1>3, <1>4

\* Opening the reader, whatever from.
LEMMA OpenStep ==
  ASSUME HadithTypeOK,
         \/ \E b \in Book : \/ OpenBook(b)
                            \/ \E t \in Topic : OpenTopic(b, t)
                            \/ \E topics \in SUBSET Topic : OpenSelection(b, topics)
         \/ \E h \in Hadith : OpenAt(h)
         \/ Return
  PROVE  HadithTypeOK' /\ ListInOrder'
  <1>1. ASSUME NEW b \in Book, OpenBook(b) PROVE HadithTypeOK' /\ ListInOrder'
    <2>1. \E h \in OfBook(b) : h > 0
      BY Database DEF OfBook
    <2> QED
      BY <1>1, <2>1, FirstPage, OpenedStep DEF OpenBook
  <1>2. ASSUME NEW b \in Book, NEW t \in Topic, OpenTopic(b, t) PROVE HadithTypeOK' /\ ListInOrder'
    BY <1>2, OtherPages, OpenedStep DEF OpenTopic
  <1>3. ASSUME NEW b \in Book, NEW topics \in SUBSET Topic, OpenSelection(b, topics)
        PROVE  HadithTypeOK' /\ ListInOrder'
    <2>1. Shows("selection", NoName, NoName, HadithsForSelection(b, topics))
      BY OtherPages DEF Shows
    <2> QED
      BY <1>3, <2>1, OtherPages, OpenedStep DEF OpenSelection
  <1>4. ASSUME NEW h \in Hadith, OpenAt(h) PROVE HadithTypeOK' /\ ListInOrder'
    <2> DEFINE b == Catalogue[h].book
    <2>1. b \in Book /\ h \in OfBook(b) /\ h - 1 \in Nat /\ h > h - 1
      BY Database DEF OfBook
    <2>2. Opened("book", b, NoName, HadithsInBook(b, h - 1))
      BY <1>4 DEF OpenAt
    <2> HIDE DEF b
    <2> QED
      BY <2>1, <2>2, FirstPage, OpenedStep
  <1>5. CASE Return
    <2>1. <<>> \in Seq(Hadith) /\ Shows("book", NoName, NoName, <<>>)
      BY DEF Shows, Rising
    <2> QED
      BY <1>5, <2>1, OpenedStep DEF Return
  <1> QED
    BY <1>1, <1>2, <1>3, <1>4, <1>5

\* A page that is loaded at the end continues the run of the book.
LEMMA LoadMoreStep ==
  ASSUME HadithTypeOK, ListInOrder, LoadMore
  PROVE  HadithTypeOK' /\ ListInOrder'
  <1> DEFINE batch == HadithsInBook(book, lastLoadedId)
  <1>1. /\ mode = "book" /\ UNCHANGED <<open, behind, mode, book, topic, currentId, selecting, selectedIds, progress>>
        /\ batch = <<>> => reachedEnd' = TRUE /\ UNCHANGED <<items, lastLoadedId>>
        /\ batch # <<>> => /\ items' = items \o batch
                           /\ lastLoadedId' = LastId(batch)
                           /\ UNCHANGED reachedEnd
    BY DEF LoadMore, placeVars, tickVars
  <1>2. lastLoadedId \in Nat /\ items \in Seq(Hadith) /\ items \in Seq(Int) /\ Rising(items)
    BY Database, ShownIds DEF HadithTypeOK, ListInOrder, Shows
  <1>3. /\ batch \in Seq(Hadith) /\ batch \in Seq(Int) /\ Rising(batch)
        /\ batch = <<>> => \A h \in OfBook(book) : ~(h > lastLoadedId)
        /\ batch # <<>> =>
             Range(batch) = {h \in OfBook(book) : h > lastLoadedId /\ h <= LastId(batch)}
    BY <1>2, QueryBook
  <1> HIDE DEF batch
  <1>4. CASE batch = <<>>
    BY <1>1, <1>4 DEF HadithTypeOK, ListInOrder
  <1>5. CASE batch # <<>>
    <2>1. /\ batch[1] \in Range(batch) /\ LastId(batch) \in Range(batch)
          /\ \A x \in Range(batch) : batch[1] <= x /\ x <= LastId(batch)
      BY <1>3, <1>5, EndsOfRising
    <2>2. OfBook(book) \subseteq Int /\ OfBook(NoName) = {}
      BY Database DEF OfBook
    <2>3. items # <<>>
      BY <1>1, <1>3, <1>5, <2>1, <2>2 DEF ListInOrder, Shows
    <2>4. /\ lastLoadedId = LastId(items)
          /\ Range(items) = {h \in OfBook(book) : items[1] <= h /\ h <= LastId(items)}
          /\ currentId \in Range(items)
      BY <1>1, <2>3 DEF ListInOrder, Shows
    <2>5. /\ items[1] \in Range(items) /\ LastId(items) \in Range(items)
          /\ \A x \in Range(items) : items[1] <= x /\ x <= LastId(items)
      BY <1>2, <2>3, EndsOfRising
    <2>6. \A x \in Range(items), y \in Range(batch) : x < y
      <3> SUFFICES ASSUME NEW x \in Range(items), NEW y \in Range(batch) PROVE x < y
        OBVIOUS
      <3>1. x \in Int /\ y \in Int /\ x <= lastLoadedId /\ y > lastLoadedId
        BY <1>3, <1>5, <2>2, <2>4
      <3> QED
        BY <1>2, <3>1
    <2>7. /\ Rising(items') /\ Range(items') = Range(items) \cup Range(batch)
          /\ items'[1] = items[1] /\ LastId(items') = LastId(batch)
      <3>1. items' = items \o batch
        BY <1>1, <1>5
      <3> QED
        BY <1>2, <1>3, <1>5, <2>3, <2>6, <3>1, RisingJoined
    <2>8. Range(items') = {h \in OfBook(book) : items[1] <= h /\ h <= LastId(batch)}
      <3>1. LastId(items) < LastId(batch) /\ items[1] <= LastId(items)
        BY <2>1, <2>5, <2>6
      <3>2. /\ items[1] \in Int /\ LastId(items) \in Int /\ LastId(batch) \in Int
        BY <1>3, <1>5, <2>1, <2>2, <2>4, <2>5
      <3>3. \A h \in OfBook(book) :
              items[1] <= h /\ h <= LastId(batch) <=>
                \/ items[1] <= h /\ h <= LastId(items)
                \/ h > LastId(items) /\ h <= LastId(batch)
        BY <2>2, <3>1, <3>2
      <3> QED
        BY <1>3, <1>5, <2>4, <2>7, <3>3
    <2>9. items' \in Seq(Hadith) /\ items' # <<>>
      <3>1. items' \in Seq(Hadith)
        BY <1>1, <1>2, <1>3, <1>5, ConcatProperties
      <3>2. items' = <<>> => Range(items') = {}
        BY DEF Range
      <3> QED
        BY <2>4, <2>7, <3>1, <3>2
    <2>10. LastId(batch) \in Hadith \cup {0}
      BY <1>3, ShownIds
    <2>11. HadithTypeOK'
      BY <1>1, <1>5, <2>9, <2>10 DEF HadithTypeOK
    <2>12. Shows(mode, book, topic, items')
      BY <1>1, <2>7, <2>8, <2>9 DEF Shows
    <2> QED
      BY <1>1, <1>5, <2>4, <2>7, <2>11, <2>12 DEF ListInOrder
  <1> QED
    BY <1>4, <1>5

\* The topic picker over an open reader.
LEMMA PickStep ==
  ASSUME HadithTypeOK, ListInOrder,
         \/ \E t \in Topic : PickTopic(t)
         \/ \E topics \in SUBSET Topic : PickSelection(topics)
         \/ ReadWholeBook
  PROVE  HadithTypeOK' /\ ListInOrder'
  <1>1. ASSUME NEW t \in Topic, PickTopic(t) PROVE HadithTypeOK' /\ ListInOrder'
    <2> DEFINE list == HadithsByTopic(book, t)
    <2>1. /\ mode' = "topic" /\ topic' = t /\ items' = list
          /\ currentId' = (IF list = <<>> THEN currentId ELSE Head(list))
          /\ UNCHANGED <<open, behind, book, lastLoadedId, reachedEnd, selecting, selectedIds, progress>>
      BY <1>1 DEF PickTopic, Refill, tickVars
    <2>2. list \in Seq(Hadith) /\ Shows("topic", book, t, list)
      BY <1>1, OtherPages DEF PickTopic
    <2> HIDE DEF list
    <2>3. list # <<>> /\ Head(list) \in Range(list) /\ Range(list) \subseteq Hadith
      BY <2>2, ShownIds DEF Shows
    <2> QED
      BY <2>1, <2>2, <2>3 DEF HadithTypeOK, ListInOrder
  <1>2. ASSUME NEW topics \in SUBSET Topic, PickSelection(topics)
        PROVE  HadithTypeOK' /\ ListInOrder'
    <2> DEFINE list == HadithsForSelection(book, topics)
    <2>1. /\ mode' = "selection" /\ items' = list
          /\ UNCHANGED <<open, behind, book, topic, lastLoadedId, reachedEnd, currentId,
                         selecting, selectedIds, progress>>
      BY <1>2 DEF PickSelection, tickVars
    <2>2. list \in Seq(Hadith) /\ Shows("selection", book, topic, list)
      BY OtherPages
    <2> HIDE DEF list
    <2> QED
      BY <2>1, <2>2 DEF HadithTypeOK, ListInOrder
  <1>3. CASE ReadWholeBook
    <2> DEFINE list == HadithsInBook(book, 0)
    <2>1. /\ mode' = "book" /\ topic' = NoName /\ items' = list /\ book # NoName
          /\ currentId' = (IF list = <<>> THEN currentId ELSE Head(list))
          /\ lastLoadedId' = LastId(list) /\ reachedEnd' = FALSE
          /\ UNCHANGED <<open, behind, book, selecting, selectedIds, progress>>
      BY <1>3 DEF ReadWholeBook, CanPick, Refill, tickVars
    <2>2. \E h \in OfBook(book) : h > 0
      BY <2>1, Database DEF HadithTypeOK, OfBook
    <2>3. list \in Seq(Hadith) /\ Shows("book", book, NoName, list)
      BY <2>2, FirstPage
    <2> HIDE DEF list
    <2>4. /\ Range(list) \subseteq Hadith /\ LastId(list) \in Hadith \cup {0}
          /\ list # <<>> => Head(list) \in Range(list)
      BY <2>3, ShownIds DEF Shows
    <2> QED
      BY <2>1, <2>3, <2>4 DEF HadithTypeOK, ListInOrder
  <1> QED
    BY <1>1, <1>2, <1>3

\* Every other step.
LEMMA ReadingStep ==
  ASSUME HadithTypeOK, ListInOrder,
         \/ Leave \/ Scroll \/ ToggleSelecting \/ ConfirmSelection
         \/ \E h \in Hadith : ToggleSelected(h)
         \/ UNCHANGED hadithVars
  PROVE  HadithTypeOK' /\ ListInOrder'
  <1>1. CASE Leave
    <2>1. Shows("book", NoName, NoName, <<>>) /\ LastId(<<>>) = 0 /\ <<>> \in Seq(Hadith)
      BY DEF Shows, Rising, LastId
    <2> QED
      BY <1>1, <2>1 DEF Leave, HadithTypeOK, ListInOrder
  <1>2. CASE Scroll
    <2>1. Range(items) \subseteq Hadith
      BY ShownIds DEF HadithTypeOK, ListInOrder, Shows
    <2> QED
      BY <1>2, <2>1 DEF Scroll, HadithTypeOK, ListInOrder, placeVars, pageVars, tickVars
  <1>3. CASE ToggleSelecting
    BY <1>3 DEF ToggleSelecting, HadithTypeOK, ListInOrder, placeVars, pageVars
  <1>4. CASE ConfirmSelection
    <2>1. /\ mode' = "selection" /\ items' = Filter(items, selectedIds)
          /\ selecting' = FALSE /\ selectedIds' = {}
          /\ UNCHANGED <<open, behind, book, topic, lastLoadedId, reachedEnd, currentId, progress>>
      BY <1>4 DEF ConfirmSelection
    <2>2. Hadith \subseteq Int
      BY Database
    <2>3. items' \in Seq(Hadith) /\ Rising(items')
      BY <2>1, <2>2, RisingFiltered DEF HadithTypeOK, ListInOrder, Shows
    <2> QED
      BY <2>1, <2>3 DEF HadithTypeOK, ListInOrder, Shows
  <1>5. ASSUME NEW h \in Hadith, ToggleSelected(h) PROVE HadithTypeOK' /\ ListInOrder'
    BY <1>5 DEF ToggleSelected, HadithTypeOK, ListInOrder, placeVars, pageVars
  <1>6. CASE UNCHANGED hadithVars
    BY <1>6 DEF hadithVars, HadithTypeOK, ListInOrder, placeVars, pageVars, tickVars
  <1> QED
    BY <1>1, <1>2, <1>3, <1>4, <1>5, <1>6

\* A reader that is not open shows nothing.
LEMMA HadithInitial == HadithInit => HadithTypeOK /\ ListInOrder
  <1>1. Shows("book", NoName, NoName, <<>>) /\ LastId(<<>>) = 0 /\ <<>> \in Seq(Hadith)
    BY DEF Shows, Rising, LastId
  <1> QED
    BY <1>1 DEF HadithInit, HadithTypeOK, ListInOrder

LEMMA HadithStep ==
  ASSUME HadithTypeOK, ListInOrder, [HadithNext]_hadithVars
  PROVE  HadithTypeOK' /\ ListInOrder'
  BY OpenStep, LoadMoreStep, PickStep, ReadingStep DEF HadithNext

\* Every variable of the Hadith reader keeps its type.
THEOREM HadithTypeCorrect == HadithSpec => []HadithTypeOK
  <1>1. HadithTypeOK /\ ListInOrder /\ [HadithNext]_hadithVars => (HadithTypeOK /\ ListInOrder)'
    BY HadithStep
  <1> QED
    BY <1>1, HadithInitial, PTL DEF HadithSpec

\* The list is what the header says, on every way through the reader.
THEOREM ListAlwaysMatches == HadithSpec => []ListMatchesMode
  <1>1. HadithTypeOK /\ ListInOrder => ListMatchesMode
    <2> SUFFICES ASSUME HadithTypeOK, ListInOrder, items # <<>> PROVE ListMatchesMode
      BY DEF ListMatchesMode
    <2>1. items \in Seq(Int) /\ Rising(items)
      BY ShownIds DEF HadithTypeOK, ListInOrder, Shows
    <2>2. items = ById(Range(items))
      BY <2>1, RisingIsAscending DEF ById
    <2>3. mode = "book" => Range(items) = {h \in OfBook(book) : h \in items[1]..lastLoadedId}
      <3>1. /\ OfBook(book) \subseteq Int /\ items[1] \in Int /\ LastId(items) \in Int
        <4>1. items[1] \in Range(items) /\ LastId(items) \in Range(items)
          BY <2>1, EndsOfRising
        <4>2. Range(items) \subseteq Int
          BY <2>1, LenProperties DEF Range
        <4> QED
          BY <4>1, <4>2, Database DEF OfBook
      <3> QED
        BY <3>1 DEF ListInOrder, Shows
    <2>4. mode = "topic" => Range(items) = OfTopic(book, topic)
      BY DEF ListInOrder, Shows
    <2> QED
      BY <2>2, <2>3, <2>4 DEF ListMatchesMode, HadithsByTopic, ListInOrder
  <1>2. HadithTypeOK /\ ListInOrder /\ [HadithNext]_hadithVars => (HadithTypeOK /\ ListInOrder)'
    BY HadithStep
  <1> QED
    BY <1>1, <1>2, HadithInitial, PTL DEF HadithSpec
=============================================================================
