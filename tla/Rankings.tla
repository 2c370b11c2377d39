------------------------------- MODULE Rankings -------------------------------
(***************************************************************************)
(* Ranks in a totally ordered finite set, and how they shift as elements    *)
(* come and go: what the proofs about offset pagination rest on.  An order  *)
(* is a function R: R[i] holds what sorts before i.                         *)
(***************************************************************************)
EXTENDS Integers, FiniteSets, SequenceTheorems, FiniteSetTheorems, FunctionTheorems, TLAPS

\* R orders the elements of S, each before or after each other one.
StrictOrder(R, S) ==
  /\ \A i \in S : i \notin R[i]
  /\ \A i, j \in S : j \in R[i] => R[j] \cap S \subseteq R[i]
  /\ \A i, j \in S : i = j \/ i \in R[j] \/ j \in R[i]

\* The number of elements of S before i.
Rank(R, S, i) == Cardinality(R[i] \cap S)

\* The first k elements of S, or all if there are fewer.
First(R, S, k) == {i \in S : Rank(R, S, i) < k}

\* Those after the first k that are among the first m.
Between(R, S, k, m) == First(R, S, m) \ First(R, S, k)

\* The n entries of s from place k + 1 on, as far as there are any.
Cut(s, k, n) == SubSeq(s, k + 1, IF k + n <= Len(s) THEN k + n ELSE Len(s))

\* s lists S in the order of R.
Sorted(R, S, s) ==
  /\ s \in [1 .. Cardinality(S) -> S]
  /\ \A m, n \in 1 .. Cardinality(S) : m # n => s[m] # s[n]
  /\ \A m, n \in 1 .. Cardinality(S) : m < n => s[n] \notin R[s[m]]

-----------------------------------------------------------------------------
\* Ranks are numbers below the size of the set.
LEMMA RankType ==
  ASSUME NEW R, NEW S, IsFiniteSet(S), StrictOrder(R, S), NEW i \in S
  PROVE  /\ IsFiniteSet(R[i] \cap S)
         /\ Rank(R, S, i) \in Nat /\ Rank(R, S, i) \in 0 .. Cardinality(S) - 1
<1>1. R[i] \cap S \subseteq S \ {i}
  BY DEF StrictOrder
<1>2. IsFiniteSet(S \ {i}) /\ Cardinality(S \ {i}) = Cardinality(S) - 1
  BY FS_RemoveElement
<1>3. IsFiniteSet(R[i] \cap S) /\ Cardinality(R[i] \cap S) <= Cardinality(S) - 1
  BY <1>1, <1>2, FS_Subset
<1>4. Cardinality(S) \in Nat /\ Cardinality(R[i] \cap S) \in Nat
  BY <1>3, FS_CardinalityType
<1>5. QED
  BY <1>3, <1>4 DEF Rank

\* What sorts before has a smaller rank.
LEMMA RankMonotone ==
  ASSUME NEW R, NEW S, IsFiniteSet(S), StrictOrder(R, S), NEW i \in S, NEW j \in S, j \in R[i]
  PROVE  Rank(R, S, j) < Rank(R, S, i)
<1>1. R[j] \cap S \subseteq (R[i] \cap S) \ {j}
  BY DEF StrictOrder
<1>2. IsFiniteSet(R[i] \cap S)
  BY RankType
<1>3. /\ IsFiniteSet((R[i] \cap S) \ {j})
      /\ Cardinality((R[i] \cap S) \ {j}) = Cardinality(R[i] \cap S) - 1
  BY <1>2, FS_RemoveElement
<1>4. Cardinality(R[j] \cap S) <= Cardinality(R[i] \cap S) - 1
  BY <1>1, <1>3, FS_Subset
<1>5. Rank(R, S, i) \in Nat /\ Rank(R, S, j) \in Nat
  BY RankType
<1>6. QED
  BY <1>4, <1>5 DEF Rank

\* Every rank below the size of the set is that of exactly one element.
LEMMA RankBijection ==
  ASSUME NEW R, NEW S, IsFiniteSet(S), StrictOrder(R, S)
  PROVE  [i \in S |-> Rank(R, S, i)] \in Bijection(S, 0 .. Cardinality(S) - 1)
<1> DEFINE f == [i \in S |-> Rank(R, S, i)]
           n == Cardinality(S)
<1>1. n \in Nat
  BY FS_CardinalityType
<1>2. f \in [S -> 0 .. n - 1]
  BY RankType
<1>3. ASSUME NEW i \in S, NEW j \in S, f[i] = f[j]
      PROVE  i = j
  <2>1. Rank(R, S, i) = Rank(R, S, j) /\ Rank(R, S, i) \in Nat
    BY <1>3, RankType
  <2>2. i \notin R[j] /\ j \notin R[i]
    BY <2>1, RankMonotone
  <2>3. QED
    BY <2>2 DEF StrictOrder
<1>4. f \in Injection(S, 0 .. n - 1)
  BY <1>2, <1>3 DEF Injection, IsInjective
<1>5. IsFiniteSet(0 .. n - 1) /\ Cardinality(0 .. n - 1) = n
  BY <1>1, FS_Interval
<1>6. f \in Surjection(S, 0 .. n - 1)
  BY <1>4, <1>5, FS_Injection
<1>7. QED
  BY <1>4, <1>6 DEF Bijection

\* There are k first elements, or as many as there are at all.
LEMMA FirstSize ==
  ASSUME NEW R, NEW S, IsFiniteSet(S), StrictOrder(R, S), NEW k \in Nat
  PROVE  /\ IsFiniteSet(First(R, S, k))
         /\ Cardinality(First(R, S, k)) = IF k <= Cardinality(S) THEN k ELSE Cardinality(S)
<1> DEFINE n == Cardinality(S)
           F == First(R, S, k)
           f == [i \in F |-> Rank(R, S, i)]
           h == IF k <= n THEN k ELSE n
<1>1. n \in Nat /\ h \in Nat /\ h <= n /\ h <= k
  BY FS_CardinalityType
<1>2. F \subseteq S
  BY DEF First
<1>3. IsFiniteSet(F)
  BY <1>2, FS_Subset
<1>4. \A i \in S : Rank(R, S, i) \in 0 .. n - 1
  BY RankType
<1>5. f \in [F -> 0 .. h - 1]
  BY <1>1, <1>4 DEF First
<1>6. [i \in S |-> Rank(R, S, i)] \in Bijection(S, 0 .. n - 1)
  BY RankBijection
<1>7. \A i, j \in S : Rank(R, S, i) = Rank(R, S, j) => i = j
  BY <1>6 DEF Bijection, Injection, IsInjective
<1>8. \A r \in 0 .. n - 1 : \E i \in S : Rank(R, S, i) = r
  BY <1>6 DEF Bijection, Surjection
<1>9. \A i, j \in F : f[i] = f[j] => i = j
  BY <1>2, <1>7
<1>10. \A r \in 0 .. h - 1 : \E i \in F : f[i] = r
  <2> SUFFICES ASSUME NEW r \in 0 .. h - 1 PROVE \E i \in F : f[i] = r
    OBVIOUS
  <2>1. r \in 0 .. n - 1 /\ r < k
    BY <1>1
  <2>2. PICK i \in S : Rank(R, S, i) = r
    BY <1>8, <2>1
  <2>3. i \in F
    BY <2>1, <2>2 DEF First
  <2>4. QED
    BY <2>2, <2>3
<1>11. f \in Injection(F, 0 .. h - 1) /\ f \in Surjection(F, 0 .. h - 1)
  <2> HIDE DEF f, F, h
  <2> QED
    BY <1>5, <1>9, <1>10 DEF Injection, IsInjective, Surjection
<1>12. Cardinality(0 .. h - 1) = Cardinality(F)
  <2> HIDE DEF f, F, h
  <2> QED
    BY <1>3, <1>11, FS_Surjection
<1>13. Cardinality(0 .. h - 1) = h
  <2> HIDE DEF h
  <2>1. Cardinality(0 .. h - 1) = IF 0 > h - 1 THEN 0 ELSE h - 1 - 0 + 1
    BY <1>1, FS_Interval
  <2>2. QED
    BY <1>1, <2>1
<1>14. QED
  BY <1>3, <1>12, <1>13

-----------------------------------------------------------------------------
(* Elements that come and go *)

\* With fewer elements around, an element moves to the front if at all.
LEMMA RankShifts ==
  ASSUME NEW R, NEW T, IsFiniteSet(T), StrictOrder(R, T), NEW S \in SUBSET T, NEW k \in Nat
  PROVE  /\ IsFiniteSet(S) /\ StrictOrder(R, S)
         /\ First(R, T, k) \cap S \subseteq First(R, S, k)
<1>1. IsFiniteSet(S)
  BY FS_Subset
<1>2. StrictOrder(R, S)
  BY DEF StrictOrder
<1>3. ASSUME NEW i \in First(R, T, k) \cap S
      PROVE  i \in First(R, S, k)
  <2>1. i \in S /\ i \in T /\ Rank(R, T, i) < k
    BY <1>3 DEF First
  <2>2. Rank(R, S, i) \in Nat /\ Rank(R, T, i) \in Nat
    BY <1>1, <1>2, <2>1, RankType
  <2>3. R[i] \cap S \subseteq R[i] \cap T /\ IsFiniteSet(R[i] \cap T)
    BY <2>1, RankType
  <2>4. Cardinality(R[i] \cap S) <= Cardinality(R[i] \cap T)
    BY <2>3, FS_Subset
  <2>5. QED
    BY <2>1, <2>2, <2>4 DEF First, Rank
<1>4. QED
  BY <1>1, <1>2, <1>3

\* Orders that agree on S rank it alike.
LEMMA SameRanks ==
  ASSUME NEW R, NEW Q, NEW S, \A i \in S : R[i] \cap S = Q[i] \cap S, NEW k
  PROVE  First(R, S, k) = First(Q, S, k)
BY DEF First, Rank

\* What is pushed out of the first k makes room for as many that came in.
LEMMA PushedOut ==
  ASSUME NEW R, NEW T, IsFiniteSet(T), StrictOrder(R, T), NEW S \in SUBSET T, NEW k \in Nat
  PROVE  /\ IsFiniteSet(First(R, S, k) \ First(R, T, k))
         /\ IsFiniteSet(First(R, T, k) \ S)
         /\ Cardinality(First(R, S, k) \ First(R, T, k)) <= Cardinality(First(R, T, k) \ S)
<1> DEFINE A == First(R, S, k)
           B == First(R, T, k)
<1>1. IsFiniteSet(S) /\ StrictOrder(R, S) /\ B \cap S \subseteq A
  BY RankShifts
<1>2. /\ IsFiniteSet(A) /\ Cardinality(A) = IF k <= Cardinality(S) THEN k ELSE Cardinality(S)
  BY <1>1, FirstSize
<1>3. /\ IsFiniteSet(B) /\ Cardinality(B) = IF k <= Cardinality(T) THEN k ELSE Cardinality(T)
  BY FirstSize
<1>4. Cardinality(S) <= Cardinality(T) /\ Cardinality(S) \in Nat /\ Cardinality(T) \in Nat
  BY <1>1, FS_Subset, FS_CardinalityType
<1>5. Cardinality(A) <= Cardinality(B)
  BY <1>2, <1>3, <1>4
<1>6. A \subseteq S
  BY DEF First
<1> HIDE DEF A, B
<1>7. A \cap B = B \cap S
  BY <1>1, <1>6
<1>8. /\ IsFiniteSet(A \ B) /\ Cardinality(A \ B) = Cardinality(A) - Cardinality(A \cap B)
      /\ Cardinality(A \cap B) \in Nat
  BY <1>2, FS_Difference, FS_CardinalityType, FS_Intersection
<1>9. IsFiniteSet(B \ S) /\ Cardinality(B \ S) = Cardinality(B) - Cardinality(B \cap S)
  BY <1>3, FS_Difference
<1>10. Cardinality(A) \in Nat /\ Cardinality(B) \in Nat
  BY <1>2, <1>3, FS_CardinalityType
<1>11. Cardinality(A \ B) <= Cardinality(B \ S)
  BY <1>5, <1>7, <1>8, <1>9, <1>10
<1>12. QED
  BY <1>8, <1>9, <1>11 DEF A, B

\* Of the members of G beyond the first k, as many more as elements came in.
LEMMA BeyondAfterInsert ==
  ASSUME NEW R, NEW T, IsFiniteSet(T), StrictOrder(R, T), NEW S \in SUBSET T, NEW k \in Nat, NEW G
  PROVE  /\ Cardinality((G \cap T) \ First(R, T, k)) \in Nat
         /\ Cardinality((G \cap S) \ First(R, S, k)) \in Nat
         /\ Cardinality(T \ S) \in Nat
         /\ Cardinality((G \cap T) \ First(R, T, k))
              <= Cardinality((G \cap S) \ First(R, S, k)) + Cardinality(T \ S)
<1> DEFINE A == First(R, S, k)
           B == First(R, T, k)
           X == (G \cap S) \ A
           Y == A \ B
           Z == (T \ S) \ B
<1>1. IsFiniteSet(S) /\ IsFiniteSet(T \ S) /\ Cardinality(T \ S) \in Nat
  BY FS_Subset, FS_Difference, FS_CardinalityType
<1>2. /\ IsFiniteSet(Y) /\ IsFiniteSet(B \ S)
      /\ Cardinality(Y) <= Cardinality(B \ S)
  BY PushedOut
<1>3. B \subseteq T
  BY DEF First
<1> HIDE DEF A, B
<1>4. IsFiniteSet(X) /\ IsFiniteSet(Z)
  BY <1>1, FS_Subset
<1>5. /\ Cardinality(X) \in Nat /\ Cardinality(Y) \in Nat /\ Cardinality(Z) \in Nat
      /\ Cardinality(B \ S) \in Nat
  BY <1>2, <1>4, FS_CardinalityType
<1>6. Cardinality(Z) + Cardinality(B \ S) = Cardinality(T \ S)
  <2>1. Cardinality(Z) = Cardinality(T \ S) - Cardinality((T \ S) \cap B)
    BY <1>1, FS_Difference
  <2>2. (T \ S) \cap B = B \ S
    BY <1>3
  <2>3. Cardinality((T \ S) \cap B) = Cardinality(B \ S)
    BY <2>2
  <2> HIDE DEF Z
  <2>4. QED
    BY <1>1, <1>5, <2>1, <2>3
<1>7. (G \cap T) \ B \subseteq X \cup (Y \cup Z)
  OBVIOUS
<1> HIDE DEF X, Y, Z
<1>8. /\ IsFiniteSet(Y \cup Z)
      /\ Cardinality(Y \cup Z) = Cardinality(Y) + Cardinality(Z) - Cardinality(Y \cap Z)
      /\ Cardinality(Y \cap Z) \in Nat
  BY <1>2, <1>4, FS_Union, FS_Intersection, FS_CardinalityType
<1>9. /\ IsFiniteSet(X \cup (Y \cup Z))
      /\ Cardinality(X \cup (Y \cup Z))
           = Cardinality(X) + Cardinality(Y \cup Z) - Cardinality(X \cap (Y \cup Z))
      /\ Cardinality(X \cap (Y \cup Z)) \in Nat
  BY <1>4, <1>8, FS_Union, FS_Intersection, FS_CardinalityType
<1>10. /\ IsFiniteSet((G \cap T) \ B) /\ Cardinality((G \cap T) \ B) \in Nat
       /\ Cardinality((G \cap T) \ B) <= Cardinality(X \cup (Y \cup Z))
  BY <1>7, <1>9, FS_Subset, FS_CardinalityType
<1>11. Cardinality((G \cap T) \ B) <= Cardinality(X) + Cardinality(T \ S)
  BY <1>1, <1>2, <1>5, <1>6, <1>8, <1>9, <1>10
<1>12. QED
  BY <1>1, <1>5, <1>10, <1>11 DEF X, A, B

\* When elements leave, no others come to be beyond the first k.
LEMMA BeyondAfterRemove ==
  ASSUME NEW R, NEW T, IsFiniteSet(T), StrictOrder(R, T), NEW S \in SUBSET T, NEW k \in Nat, NEW G
  PROVE  Cardinality((G \cap S) \ First(R, S, k)) <= Cardinality((G \cap T) \ First(R, T, k))
<1>1. First(R, T, k) \cap S \subseteq First(R, S, k)
  BY RankShifts
<1>2. (G \cap S) \ First(R, S, k) \subseteq (G \cap T) \ First(R, T, k)
  BY <1>1
<1>3. IsFiniteSet((G \cap T) \ First(R, T, k))
  BY FS_Subset
<1>4. QED
  BY <1>2, <1>3, FS_Subset

\* Of a set W, as many more among the first k as elements left.
LEMMA AmongAfterRemove ==
  ASSUME NEW R, NEW T, IsFiniteSet(T), StrictOrder(R, T), NEW S \in SUBSET T, NEW k \in Nat, NEW W
  PROVE  /\ Cardinality(W \cap First(R, S, k)) \in Nat
         /\ Cardinality(W \cap First(R, T, k)) \in Nat
         /\ Cardinality(T \ S) \in Nat
         /\ Cardinality(W \cap First(R, S, k))
              <= Cardinality(W \cap First(R, T, k)) + Cardinality(T \ S)
<1> DEFINE A == First(R, S, k)
           B == First(R, T, k)
           X == W \cap B
           Y == A \ B
<1>1. IsFiniteSet(S) /\ IsFiniteSet(T \ S) /\ Cardinality(T \ S) \in Nat
  BY FS_Subset, FS_Difference, FS_CardinalityType
<1>2. /\ IsFiniteSet(Y) /\ IsFiniteSet(B \ S)
      /\ Cardinality(Y) <= Cardinality(B \ S)
  BY PushedOut
<1>3. B \ S \subseteq T \ S /\ A \subseteq S /\ B \subseteq T
  BY DEF First
<1>4. IsFiniteSet(X) /\ IsFiniteSet(W \cap A)
  BY <1>1, <1>3, FS_Subset
<1>5. /\ Cardinality(X) \in Nat /\ Cardinality(Y) \in Nat /\ Cardinality(W \cap A) \in Nat
      /\ Cardinality(B \ S) \in Nat /\ Cardinality(B \ S) <= Cardinality(T \ S)
  BY <1>1, <1>2, <1>3, <1>4, FS_CardinalityType, FS_Subset
<1>6. W \cap A \subseteq X \cup Y
  OBVIOUS
<1>7. /\ IsFiniteSet(X \cup Y)
      /\ Cardinality(X \cup Y) = Cardinality(X) + Cardinality(Y) - Cardinality(X \cap Y)
      /\ Cardinality(X \cap Y) \in Nat
  BY <1>2, <1>4, FS_Union, FS_Intersection, FS_CardinalityType
<1>8. Cardinality(W \cap A) <= Cardinality(X \cup Y)
  BY <1>6, <1>7, FS_Subset
<1> HIDE DEF A, B, X, Y
<1>9. Cardinality(W \cap A) <= Cardinality(X) + Cardinality(T \ S)
  BY <1>1, <1>2, <1>5, <1>7, <1>8
<1>10. QED
  BY <1>1, <1>5, <1>9 DEF X, A, B

-----------------------------------------------------------------------------
(* Pages *)

\* In a sorted list an element's rank is its place.
LEMMA SortedRank ==
  ASSUME NEW R, NEW S, IsFiniteSet(S), StrictOrder(R, S), NEW s, Sorted(R, S, s)
  PROVE  /\ \A k \in 1 .. Cardinality(S) : Rank(R, S, s[k]) = k - 1
         /\ \A i \in S : \E k \in 1 .. Cardinality(S) : s[k] = i
<1> DEFINE c == Cardinality(S)
<1>1. c \in Nat
  BY FS_CardinalityType
<1>2. s \in Injection(1 .. c, S)
  BY DEF Sorted, Injection, IsInjective
<1>3. Cardinality(1 .. c) = c
  BY <1>1, FS_Interval
<1>4. s \in Surjection(1 .. c, S)
  BY <1>2, <1>3, FS_Injection
<1>5. \A i \in S : \E k \in 1 .. c : s[k] = i
  BY <1>4 DEF Surjection
<1>6. ASSUME NEW k \in 1 .. c
      PROVE  Rank(R, S, s[k]) = k - 1
  <2> DEFINE P == R[s[k]] \cap S
             f == [m \in 1 .. k - 1 |-> s[m]]
  <2>1. \A m \in 1 .. k - 1 : m \in 1 .. c /\ m < k
    BY <1>1
  <2>2. \A m \in 1 .. k - 1 : s[m] \in P
    BY <2>1 DEF Sorted, StrictOrder
  <2>3. f \in [1 .. k - 1 -> P]
    BY <2>2
  <2>4. ASSUME NEW i \in P
        PROVE  \E m \in 1 .. k - 1 : f[m] = i
    <3>1. PICK m \in 1 .. c : s[m] = i
      BY <1>5
    <3>2. m # k
      BY <3>1 DEF StrictOrder, Sorted
    <3>3. ~(k < m)
      BY <3>1 DEF Sorted
    <3>4. m \in 1 .. k - 1
      BY <1>1, <3>2, <3>3
    <3>5. QED
      BY <3>1, <3>4
  <2>5. \A m, n \in 1 .. k - 1 : f[m] = f[n] => m = n
    BY <2>1 DEF Sorted
  <2> HIDE DEF f, P
  <2>6. f \in Surjection(1 .. k - 1, P) /\ f \in Injection(1 .. k - 1, P)
    BY <2>3, <2>4, <2>5 DEF Surjection, Injection, IsInjective
  <2>7. IsFiniteSet(1 .. k - 1) /\ Cardinality(1 .. k - 1) = k - 1
    <3>1. Cardinality(1 .. k - 1) = IF 1 > k - 1 THEN 0 ELSE k - 1 - 1 + 1
      BY FS_Interval
    <3>2. QED
      BY <3>1, FS_Interval
  <2>8. Cardinality(P) = k - 1
    BY <2>6, <2>7, FS_Surjection
  <2>9. QED
    BY <2>8 DEF P, Rank
<1>7. QED
  BY <1>5, <1>6

\* The n entries of a sorted list from place k + 1 on, as far as there are any, are
\* the elements whose ranks are k up to k + n - 1.
LEMMA PageRanks ==
  ASSUME NEW R, NEW S, IsFiniteSet(S), StrictOrder(R, S), NEW s, Sorted(R, S, s),
         NEW k \in Nat, NEW n \in Nat
  PROVE  /\ Cut(s, k, n) \in Seq(S)
         /\ Range(Cut(s, k, n)) = Between(R, S, k, k + n)
         /\ Cardinality(Range(Cut(s, k, n))) = Len(Cut(s, k, n))
         /\ Len(Cut(s, k, n)) < n => Cardinality(S) < k + n
<1> DEFINE c == Cardinality(S)
           last == IF k + n <= c THEN k + n ELSE c
           p == SubSeq(s, k + 1, last)
           l == IF k <= last THEN last - k ELSE 0
           D == {p[x] : x \in DOMAIN p}
<1>1. c \in Nat /\ last \in Nat /\ last <= c /\ last <= k + n /\ l \in Nat
  BY FS_CardinalityType
<1>2. s \in Seq(S) /\ Len(s) = c
  BY <1>1, IsASeq, LenProperties DEF Sorted
<1> HIDE DEF last
<1>3. p \in Seq(S) /\ Len(p) = l /\ DOMAIN p = 1 .. l
      /\ \A x \in 1 .. l : p[x] = s[k + x] /\ k + x \in 1 .. c
  <2> HIDE DEF c
  <2>1. \A y \in k + 1 .. last : s[y] \in S
    BY <1>1, <1>2
  <2>2. k + 1 \in Int /\ last \in Int
    BY <1>1
  <2>3. /\ p \in Seq(S) /\ Len(p) = IF k + 1 <= last THEN last - (k + 1) + 1 ELSE 0
        /\ \A x \in 1 .. last - (k + 1) + 1 : p[x] = s[(k + 1) + x - 1]
    BY <2>1, <2>2, SubSeqProperties
  <2> HIDE DEF p
  <2>4. Len(p) = l
    BY <1>1, <2>3
  <2>5. DOMAIN p = 1 .. l
    BY <2>3, <2>4
  <2>6. ASSUME NEW x \in 1 .. l
        PROVE  p[x] = s[k + x] /\ k + x \in 1 .. c
    <3>1. k <= last /\ x \in Int /\ 1 <= x /\ x <= last - k
      BY <1>1, <2>6
    <3>2. x \in 1 .. last - (k + 1) + 1 /\ (k + 1) + x - 1 = k + x
      BY <1>1, <3>1
    <3>3. p[x] = s[k + x]
      BY <2>3, <3>2
    <3>4. k + x \in 1 .. c
      BY <1>1, <3>1
    <3>5. QED
      BY <3>3, <3>4
  <2>7. QED
    BY <2>3, <2>4, <2>5, <2>6
<1>4. ASSUME NEW i \in D
      PROVE  i \in First(R, S, k + n) \ First(R, S, k)
  <2>1. PICK x \in 1 .. l : i = s[k + x] /\ k + x \in 1 .. c
    BY <1>3, <1>4
  <2>2. Rank(R, S, i) = (k + x) - 1
    BY <2>1, SortedRank
  <2>3. i \in S
    BY <2>1 DEF Sorted
  <2>4. k + x <= last
    BY <1>1, <2>1
  <2>5. Rank(R, S, i) < k + n /\ ~(Rank(R, S, i) < k)
    BY <1>1, <2>1, <2>2, <2>4
  <2>6. QED
    BY <2>3, <2>5 DEF First
<1>5. ASSUME NEW i \in First(R, S, k + n) \ First(R, S, k)
      PROVE  i \in D
  <2>1. PICK y \in 1 .. c : s[y] = i
    BY <1>5, SortedRank DEF First
  <2>2. Rank(R, S, i) = y - 1
    BY <2>1, SortedRank
  <2>3. y - 1 < k + n /\ y - 1 >= k
    BY <1>1, <1>5, <2>2 DEF First
  <2>4. y - k \in 1 .. l /\ k + (y - k) = y
    BY <1>1, <2>1, <2>3 DEF last
  <2>5. p[y - k] = i
    BY <1>3, <2>1, <2>4
  <2>6. QED
    BY <1>3, <2>4, <2>5
<1>6. p \in Injection(1 .. l, D) /\ p \in Surjection(1 .. l, D)
  <2>1. \A x, y \in 1 .. l : p[x] = p[y] => x = y
    BY <1>1, <1>3 DEF Sorted
  <2>2. p \in [1 .. l -> D]
    <3>1. p = [x \in 1 .. l |-> p[x]]
      BY <1>3, LenProperties
    <3>2. \A x \in 1 .. l : p[x] \in D
      BY <1>3
    <3> HIDE DEF D, l
    <3>3. QED
      BY <3>1, <3>2
  <2>3. \A i \in D : \E x \in 1 .. l : p[x] = i
    BY <1>3
  <2> HIDE DEF D, l
  <2>4. p \in Injection(1 .. l, D)
    BY <2>1, <2>2, Fun_IsInj
  <2>5. p \in Surjection(1 .. l, D)
    BY <2>2, <2>3, Fun_IsSurj
  <2>6. QED
    BY <2>4, <2>5
<1>7. IsFiniteSet(1 .. l) /\ Cardinality(1 .. l) = l
  <2> HIDE DEF l
  <2>1. Cardinality(1 .. l) = IF 1 > l THEN 0 ELSE l - 1 + 1
    BY <1>1, FS_Interval
  <2>2. QED
    BY <1>1, <2>1, FS_Interval
<1>8. Cardinality(D) = l
  <2> HIDE DEF D, l
  <2> QED
    BY <1>6, <1>7, FS_Surjection
<1>9. D = Range(p) /\ D = Between(R, S, k, k + n)
  BY <1>4, <1>5 DEF Range, Between
<1>10. Cut(s, k, n) = p
  BY <1>2 DEF Cut, last
<1>11. ASSUME Len(p) < n
       PROVE  c < k + n
  BY <1>1, <1>3, <1>11 DEF last
<1> HIDE DEF p, l, D, c
<1>12. p \in Seq(S) /\ Range(p) = Between(R, S, k, k + n) /\ Cardinality(Range(p)) = Len(p)
  BY <1>3, <1>8, <1>9
<1>13. QED
  BY <1>10, <1>11, <1>12 DEF c

===============================================================================
