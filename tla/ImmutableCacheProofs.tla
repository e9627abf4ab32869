------------------------ MODULE ImmutableCacheProofs ------------------------
(* Machine-checked proofs about ImmutableCache, for all sets of keys,      *)
(* digests and clients, all sizes and every limit.                         *)
EXTENDS ImmutableCache, FiniteSetTheorems, SequenceTheorems, TLAPS

-----------------------------------------------------------------------------
(* Sizes of sets of CAS records.                                           *)

\* The cells of a set of digests are finitely many.
LEMMA CellsFinite ==
    ASSUME NEW S \in SUBSET Digests
    PROVE  IsFiniteSet(Cells(S))
<1> DEFINE T == {{d} \X (1 .. DeepSize[d]) : d \in S}
           f == [d \in S |-> {d} \X (1 .. DeepSize[d])]
<1>1. IsFiniteSet(S)
  BY FS_Subset, FiniteAssumption
<1>2. f \in Surjection(S, T)
  BY DEF Surjection
<1>3. IsFiniteSet(T)
  BY <1>1, <1>2, FS_Surjection
<1>4. \A X \in T : IsFiniteSet(X)
  <2> SUFFICES ASSUME NEW d \in S
               PROVE  IsFiniteSet({d} \X (1 .. DeepSize[d]))
    OBVIOUS
  <2>1. DeepSize[d] \in Nat
    BY SizeAssumption
  <2>2. IsFiniteSet({d})
    BY FS_Singleton
  <2>3. IsFiniteSet(1 .. DeepSize[d])
    BY <2>1, FS_Interval
  <2> QED
    BY <2>2, <2>3, FS_Product
<1> HIDE DEF T
<1>5. IsFiniteSet(UNION T)
  BY <1>3, <1>4, FS_UNION
<1> QED
  BY <1>5 DEF Cells, T

\* The size of a set of CAS records is a natural number.
LEMMA SizeType ==
    ASSUME NEW S \in SUBSET Digests
    PROVE  SizeOf(S) \in Nat
BY CellsFinite, FS_CardinalityType DEF SizeOf

\* Sizes add up over disjoint sets.
LEMMA SizeUnion ==
    ASSUME NEW S \in SUBSET Digests, NEW T \in SUBSET Digests, S \cap T = {}
    PROVE  SizeOf(S \cup T) = SizeOf(S) + SizeOf(T)
<1>1. Cells(S \cup T) = Cells(S) \cup Cells(T)
  BY DEF Cells
<1>2. Cells(S) \cap Cells(T) = {}
  <2> SUFFICES ASSUME NEW x \in Cells(S), x \in Cells(T)
               PROVE  FALSE
    OBVIOUS
  <2>1. PICK d \in S : x \in {d} \X (1 .. DeepSize[d])
    BY DEF Cells
  <2>2. PICK e \in T : x \in {e} \X (1 .. DeepSize[e])
    BY DEF Cells
  <2>3. x[1] = d /\ x[1] = e
    BY <2>1, <2>2
  <2> QED
    BY <2>3
<1>3. IsFiniteSet(Cells(S)) /\ IsFiniteSet(Cells(T))
  BY CellsFinite
<1> DEFINE CS == Cells(S)
           CT == Cells(T)
           inter == Cardinality(CS \cap CT)
           union == Cardinality(CS \cup CT)
<1>4. union = Cardinality(CS) + Cardinality(CT) - inter
  BY <1>3, FS_Union
<1>5. Cardinality(CS) \in Nat /\ Cardinality(CT) \in Nat
  BY <1>3, FS_CardinalityType
<1>6. inter = 0
  BY <1>2, FS_EmptySet, Zenon
<1>7. /\ SizeOf(S \cup T) = union
      /\ SizeOf(S) = Cardinality(CS)
      /\ SizeOf(T) = Cardinality(CT)
  BY <1>1, Zenon DEF SizeOf
<1> HIDE DEF CS, CT, inter, union
<1> DEFINE size == SizeOf(S \cup T)
<1>8. size = union
  BY <1>7
<1> HIDE DEF size
<1>9. size = SizeOf(S) + SizeOf(T)
  BY <1>4, <1>5, <1>6, <1>7, <1>8
<1> QED
  BY <1>9, Zenon DEF size

\* One CAS record has the size of its value.
LEMMA SizeSingleton ==
    ASSUME NEW d \in Digests
    PROVE  SizeOf({d}) = DeepSize[d]
<1>1. DeepSize[d] \in Nat
  BY SizeAssumption
<1>2. Cells({d}) = {d} \X (1 .. DeepSize[d])
  BY DEF Cells
<1>3. IsFiniteSet({d}) /\ Cardinality({d}) = 1
  BY FS_Singleton
<1>4. /\ IsFiniteSet(1 .. DeepSize[d])
      /\ Cardinality(1 .. DeepSize[d]) = DeepSize[d]
  BY <1>1, FS_Interval
<1> DEFINE A == {d}
           B == 1 .. DeepSize[d]
           n == Cardinality(A \X B)
<1>5. n = Cardinality(A) * Cardinality(B)
  BY <1>3, <1>4, FS_Product
<1>6. Cardinality(A) = 1 /\ Cardinality(B) = DeepSize[d]
  BY <1>3, <1>4
<1>7. SizeOf({d}) = n
  BY <1>2, Zenon DEF SizeOf
<1> HIDE DEF A, B, n
<1>8. n = DeepSize[d]
  BY <1>1, <1>5, <1>6
<1> QED
  BY <1>7, <1>8, Zenon

\* Removing CAS records subtracts their size, and a subset is not larger.
LEMMA SizeDifference ==
    ASSUME NEW S \in SUBSET Digests, NEW T \in SUBSET S
    PROVE  /\ SizeOf(S \ T) = SizeOf(S) - SizeOf(T)
           /\ SizeOf(T) <= SizeOf(S)
<1> DEFINE D == S \ T
<1>1. S = D \cup T /\ D \cap T = {} /\ D \in SUBSET Digests
  OBVIOUS
<1> HIDE DEF D
<1>2. SizeOf(D \cup T) = SizeOf(D) + SizeOf(T)
  BY <1>1, SizeUnion
<1>3. SizeOf(S) = SizeOf(D) + SizeOf(T)
  BY <1>1, <1>2, Zenon
<1>4. SizeOf(S) \in Nat /\ SizeOf(T) \in Nat /\ SizeOf(D) \in Nat
  BY <1>1, SizeType
<1>5. SizeOf(D) = SizeOf(S) - SizeOf(T) /\ SizeOf(T) <= SizeOf(S)
  BY <1>3, <1>4
<1> QED
  BY <1>5, Zenon DEF D

-----------------------------------------------------------------------------
(* Counting.                                                               *)

\* A non-empty set of natural numbers has a smallest element.
LEMMA MinProperties ==
    ASSUME NEW S \in SUBSET Nat, S # {}
    PROVE  Min(S) \in S /\ \A y \in S : Min(S) <= y
<1> DEFINE R == {p \in Nat \X Nat : p[1] < p[2]}
<1>1. IsWellFoundedOn(R, Nat)
  BY NatLessThanWellFounded, Zenon DEF OpToRel
<1> HIDE DEF R
<1>2. \E x \in S : \A y \in S : ~ (<<y, x>> \in R)
  BY <1>1, WFMin
<1>3. PICK x \in S : \A y \in S : ~ (<<y, x>> \in R)
  BY <1>2
<1>4. ASSUME NEW y \in S
      PROVE  x <= y
  <2>1. <<y, x>> \in R <=> y < x
    BY DEF R
  <2> QED
    BY <1>3, <2>1
<1> QED
  BY <1>4 DEF Min

\* A set that gains an element gains one in size.
LEMMA CountGain ==
    ASSUME NEW S, IsFiniteSet(S), NEW x, x \notin S, NEW T, T = S \cup {x}
    PROVE  Cardinality(T) = Cardinality(S) + 1
BY FS_AddElement

\* A set that loses an element loses one in size.
LEMMA CountLoss ==
    ASSUME NEW S, IsFiniteSet(S), NEW x, x \in S, NEW T, T = S \ {x}
    PROVE  Cardinality(T) = Cardinality(S) - 1
BY FS_RemoveElement

-----------------------------------------------------------------------------
(* The eviction list.                                                      *)

\* Appending a record that is not in the list.
LEMMA ListAppend ==
    ASSUME NEW s \in Seq(Keys), IsInjective(s), NEW k \in Keys, k \notin ToSet(s)
    PROVE  /\ Append(s, k) \in Seq(Keys)
           /\ IsInjective(Append(s, k))
           /\ ToSet(Append(s, k)) = ToSet(s) \cup {k}
<1> DEFINE t == Append(s, k)
<1>1. /\ t \in Seq(Keys)
      /\ Len(t) = Len(s) + 1
      /\ \A i \in 1 .. Len(s) : t[i] = s[i]
      /\ t[Len(s) + 1] = k
  BY AppendProperties
<1>2. Len(s) \in Nat /\ DOMAIN s = 1 .. Len(s) /\ DOMAIN t = 1 .. Len(t)
  BY <1>1
<1> HIDE DEF t
<1>3. ToSet(t) = ToSet(s) \cup {k}
  BY <1>1, <1>2 DEF ToSet
<1>4. IsInjective(t)
  <2> SUFFICES ASSUME NEW a \in 1 .. Len(t), NEW b \in 1 .. Len(t),
                      t[a] = t[b], a # b
               PROVE  FALSE
    BY <1>2 DEF IsInjective
  <2>1. CASE a <= Len(s) /\ b <= Len(s)
    BY <2>1, <1>1, <1>2 DEF IsInjective
  <2>2. CASE a = Len(s) + 1 /\ b <= Len(s)
    BY <2>2, <1>1, <1>2 DEF ToSet
  <2>3. CASE b = Len(s) + 1 /\ a <= Len(s)
    BY <2>3, <1>1, <1>2 DEF ToSet
  <2> QED
    BY <2>1, <2>2, <2>3, <1>1, <1>2
<1> QED
  BY <1>1, <1>3, <1>4 DEF t

\* Dropping the first n records.
LEMMA ListDrop ==
    ASSUME NEW s \in Seq(Keys), IsInjective(s), NEW n \in 0 .. Len(s)
    PROVE  /\ SubSeq(s, n + 1, Len(s)) \in Seq(Keys)
           /\ IsInjective(SubSeq(s, n + 1, Len(s)))
           /\ ToSet(SubSeq(s, n + 1, Len(s))) =
                  ToSet(s) \ {s[i] : i \in 1 .. n}
<1> DEFINE t == SubSeq(s, n + 1, Len(s))
<1>0. Len(s) \in Nat /\ DOMAIN s = 1 .. Len(s) /\ n \in Nat /\ n <= Len(s)
  OBVIOUS
<1>1. /\ t \in Seq(Keys)
      /\ Len(t) = IF n + 1 <= Len(s) THEN Len(s) - (n + 1) + 1 ELSE 0
      /\ \A i \in 1 .. Len(s) - (n + 1) + 1 : t[i] = s[(n + 1) + i - 1]
  BY <1>0, SubSeqProperties
<1> HIDE DEF t
<1>c. /\ t \in Seq(Keys)
      /\ Len(t) = IF n + 1 <= Len(s) THEN Len(s) - (n + 1) + 1 ELSE 0
  BY <1>1
<1>d. Len(s) \in Nat /\ n \in Nat /\ n <= Len(s)
  BY <1>0
<1>a. Len(t) = Len(s) - n
  BY <1>c, <1>d
<1>b. \A i \in 1 .. Len(t) : t[i] = s[n + i]
  <2> SUFFICES ASSUME NEW i \in 1 .. Len(t)
               PROVE  t[i] = s[n + i]
    OBVIOUS
  <2>1. i \in 1 .. Len(s) - (n + 1) + 1 /\ (n + 1) + i - 1 = n + i
    BY <1>0, <1>a
  <2> QED
    BY <2>1, <1>1
<1>2. /\ Len(t) = Len(s) - n
      /\ \A i \in 1 .. Len(t) : t[i] = s[n + i]
      /\ DOMAIN t = 1 .. Len(t)
  BY <1>1, <1>a, <1>b
<1>3. IsInjective(t)
  <2> SUFFICES ASSUME NEW a \in 1 .. Len(t), NEW b \in 1 .. Len(t),
                      t[a] = t[b]
               PROVE  a = b
    BY <1>2 DEF IsInjective
  <2>1. /\ n + a \in DOMAIN s /\ n + b \in DOMAIN s
        /\ s[n + a] = s[n + b]
    BY <1>0, <1>2
  <2>2. n + a = n + b
    BY <2>1 DEF IsInjective
  <2> QED
    BY <2>2, <1>0, <1>2
<1>4. ASSUME NEW x \in ToSet(t)
      PROVE  x \in ToSet(s) \ {s[i] : i \in 1 .. n}
  <2>1. PICK j \in 1 .. Len(t) : x = s[n + j]
    BY <1>2 DEF ToSet
  <2>2. \A i \in 1 .. n : s[i] # s[n + j]
    BY <1>0, <1>2 DEF IsInjective
  <2> QED
    BY <2>1, <2>2, <1>0, <1>2 DEF ToSet
<1>5. ASSUME NEW x \in ToSet(s) \ {s[i] : i \in 1 .. n}
      PROVE  x \in ToSet(t)
  <2>1. PICK i \in 1 .. Len(s) : x = s[i]
    BY <1>0 DEF ToSet
  <2>2. i > n
    BY <2>1, <1>0
  <2>3. i - n \in 1 .. Len(t) /\ t[i - n] = s[i]
    BY <2>1, <2>2, <1>0, <1>2
  <2> QED
    BY <2>1, <2>3, <1>2 DEF ToSet
<1> QED
  BY <1>1, <1>3, <1>4, <1>5 DEF t

\* Removing a record from wherever it is in the list.
LEMMA ListRemove ==
    ASSUME NEW s \in Seq(Keys), IsInjective(s), NEW k \in Keys
    PROVE  /\ RemoveFirst(s, k) \in Seq(Keys)
           /\ IsInjective(RemoveFirst(s, k))
           /\ ToSet(RemoveFirst(s, k)) = ToSet(s) \ {k}
<1>0. Len(s) \in Nat /\ DOMAIN s = 1 .. Len(s)
  OBVIOUS
<1>1. CASE ~ \E i \in 1 .. Len(s) : s[i] = k
  BY <1>0, <1>1 DEF RemoveFirst, ToSet
<1>2. CASE \E i \in 1 .. Len(s) : s[i] = k
  <2> DEFINE I == {i \in 1 .. Len(s) : s[i] = k}
             m == Min(I)
  <2>1. I \in SUBSET Nat /\ I # {}
    BY <1>0, <1>2
  <2>2. m \in I
    BY <2>1, MinProperties
  <2>3. RemoveFirst(s, k) = SubSeq(s, 1, m - 1) \o SubSeq(s, m + 1, Len(s))
    BY <1>2, <2>1 DEF RemoveFirst, SelectInSeq, RemoveAt
  <2>4. m \in 1 .. Len(s) /\ s[m] = k
    BY <2>2
  <2> HIDE DEF m, I
  <2> DEFINE u == SubSeq(s, 1, m - 1)
             v == SubSeq(s, m + 1, Len(s))
             t == u \o v
  <2>5. /\ u \in Seq(Keys)
        /\ Len(u) = IF 1 <= m - 1 THEN (m - 1) - 1 + 1 ELSE 0
        /\ \A i \in 1 .. (m - 1) - 1 + 1 : u[i] = s[1 + i - 1]
    BY <1>0, <2>4, SubSeqProperties
  <2>6. /\ v \in Seq(Keys)
        /\ Len(v) = IF m + 1 <= Len(s) THEN Len(s) - (m + 1) + 1 ELSE 0
        /\ \A i \in 1 .. Len(s) - (m + 1) + 1 : v[i] = s[(m + 1) + i - 1]
    BY <1>0, <2>4, SubSeqProperties
  <2> HIDE DEF u, v
  <2>7. /\ t \in Seq(Keys)
        /\ Len(t) = Len(u) + Len(v)
        /\ \A i \in 1 .. Len(u) + Len(v) :
              t[i] = IF i <= Len(u) THEN u[i] ELSE v[i - Len(u)]
    BY <2>5, <2>6, ConcatProperties
  <2> HIDE DEF t
  <2>a. /\ u \in Seq(Keys)
        /\ Len(u) = IF 1 <= m - 1 THEN (m - 1) - 1 + 1 ELSE 0
        /\ v \in Seq(Keys)
        /\ Len(v) = IF m + 1 <= Len(s) THEN Len(s) - (m + 1) + 1 ELSE 0
    BY <2>5, <2>6
  <2>d. Len(s) \in Nat /\ m \in Nat /\ 1 <= m /\ m <= Len(s)
    BY <2>4, <1>0
  <2>8. Len(u) = m - 1 /\ Len(v) = Len(s) - m
    BY <2>a, <2>d
  <2>b. Len(t) = Len(s) - 1
    BY <2>4, <2>7, <2>8, <1>0
  <2>c. ASSUME NEW i \in 1 .. Len(t)
        PROVE  t[i] = IF i < m THEN s[i] ELSE s[i + 1]
    <3>1. CASE i < m
      <4>1. i \in 1 .. (m - 1) - 1 + 1 /\ 1 + i - 1 = i /\ i <= Len(u)
        BY <3>1, <2>4, <2>8, <1>0
      <4>2. t[i] = u[i]
        BY <4>1, <2>b, <2>4, <2>7, <2>8, <1>0
      <4> QED
        BY <4>1, <4>2, <3>1, <2>5
    <3>2. CASE ~ (i < m)
      <4> DEFINE j == i - Len(u)
      <4>1. /\ j \in 1 .. Len(s) - (m + 1) + 1 /\ ~ (i <= Len(u))
            /\ (m + 1) + j - 1 = i + 1
        BY <3>2, <2>b, <2>4, <2>8, <1>0
      <4>2. t[i] = v[j]
        BY <4>1, <2>b, <2>4, <2>7, <2>8, <1>0
      <4> HIDE DEF j
      <4> QED
        BY <4>1, <4>2, <3>2, <2>6
    <3> QED
      BY <3>1, <3>2
  <2>9. /\ Len(t) = Len(s) - 1
        /\ DOMAIN t = 1 .. Len(t)
        /\ \A i \in 1 .. Len(t) : t[i] = IF i < m THEN s[i] ELSE s[i + 1]
    BY <2>7, <2>b, <2>c
  <2>10. IsInjective(t)
    <3> SUFFICES ASSUME NEW a \in 1 .. Len(t), NEW b \in 1 .. Len(t),
                        t[a] = t[b]
                 PROVE  a = b
      BY <2>9 DEF IsInjective
    <3> DEFINE ia == IF a < m THEN a ELSE a + 1
               ib == IF b < m THEN b ELSE b + 1
    <3>1. /\ ia \in DOMAIN s /\ ib \in DOMAIN s
          /\ t[a] = s[ia] /\ t[b] = s[ib]
      BY <2>4, <2>9, <1>0
    <3>2. ia = ib
      BY <3>1 DEF IsInjective
    <3> QED
      BY <3>2, <2>4, <1>0
  <2>11. ASSUME NEW x \in ToSet(t)
         PROVE  x \in ToSet(s) \ {k}
    <3>1. PICK j \in 1 .. Len(t) : x = t[j]
      BY <2>9 DEF ToSet
    <3> DEFINE i == IF j < m THEN j ELSE j + 1
    <3>2. i \in 1 .. Len(s) /\ i # m /\ x = s[i]
      BY <3>1, <2>9, <2>4, <1>0
    <3>3. s[i] # s[m]
      BY <3>2, <2>4, <1>0 DEF IsInjective
    <3> HIDE DEF i
    <3> QED
      BY <3>2, <3>3, <2>4, <1>0 DEF ToSet
  <2>12. ASSUME NEW x \in ToSet(s) \ {k}
         PROVE  x \in ToSet(t)
    <3>1. PICK i \in 1 .. Len(s) : x = s[i] /\ i # m
      BY <2>4, <1>0 DEF ToSet
    <3> DEFINE j == IF i < m THEN i ELSE i - 1
    <3>2. j \in 1 .. Len(t) /\ t[j] = s[i]
      BY <3>1, <2>9, <2>4, <1>0
    <3> HIDE DEF j
    <3> QED
      BY <3>1, <3>2, <2>9 DEF ToSet
  <2>13. ToSet(t) = ToSet(s) \ {k}
    BY <2>11, <2>12
  <2>14. RemoveFirst(s, k) = t
    BY <2>3 DEF t, u, v
  <2> QED
    BY <2>7, <2>10, <2>13, <2>14
<1> QED
  BY <1>1, <1>2

-----------------------------------------------------------------------------
(* The eviction loop.                                                      *)

\* The loop drops some records E of the list, keeps the CAS exact, and ends
\* with an empty list or with little enough unlocked data.
LEMMA ReduceStep ==
    ASSUME TypeOK, CasRefsExact,
           NEW list \in Seq(Keys), IsInjective(list),
           NEW locked_size, NEW desired_size,
           reduce_memory_cache_size_impl(list, locked_size, desired_size)
    PROVE  \E E \in SUBSET ToSet(list) :
              /\ records' = records \ E
              /\ eviction_list' \in Seq(Keys)
              /\ IsInjective(eviction_list')
              /\ ToSet(eviction_list') = ToSet(list) \ E
              /\ state' = [k \in Keys |->
                             IF k \in E THEN "LOADING" ELSE state[k]]
              /\ cas_record' = [k \in Keys |->
                             IF k \in E THEN NoDigest ELSE cas_record[k]]
              /\ cas_ref_count' \in [Digests -> Nat]
              /\ cas_map' \subseteq cas_map
              /\ total_size' \in Nat
              /\ CasRefsExact'
              /\ \/ ToSet(eviction_list') = {}
                 \/ total_size' - locked_size <= desired_size
<1> DEFINE N == {n \in 0 .. Len(list) :
                   \/ n = Len(list)
                   \/ total_size - SizeOf(Freed(list, n)) - locked_size
                        <= desired_size}
           n == NumEvicted(list, locked_size, desired_size)
           E == {list[i] : i \in 1 .. n}
           freed == Freed(list, n)
           C(d) == {i \in 1 .. n : cas_record[list[i]] = d}
           D(d) == {k \in E : cas_record[k] = d}
<1>0. Len(list) \in Nat /\ DOMAIN list = 1 .. Len(list)
  OBVIOUS
<1>1. n \in N
  <2>1. N \in SUBSET Nat /\ Len(list) \in N
    BY <1>0
  <2> QED
    BY <2>1, MinProperties DEF NumEvicted
<1>2. /\ n \in 0 .. Len(list)
      /\ \/ n = Len(list)
         \/ total_size - SizeOf(freed) - locked_size <= desired_size
  BY <1>1
<1>3. /\ records' = records \ E
      /\ eviction_list' = SubSeq(list, n + 1, Len(list))
      /\ state' = [k \in Keys |-> IF k \in E THEN "LOADING" ELSE state[k]]
      /\ cas_record' =
            [k \in Keys |-> IF k \in E THEN NoDigest ELSE cas_record[k]]
      /\ cas_ref_count' =
            [d \in Digests |-> cas_ref_count[d] - Cardinality(C(d))]
      /\ cas_map' = cas_map \ freed
      /\ total_size' = total_size - SizeOf(freed)
  BY DEF reduce_memory_cache_size_impl
<1>4. freed = {d \in cas_map : cas_ref_count[d] = Cardinality(C(d))}
  BY DEF Freed
<1> HIDE DEF n, N, freed
<1>c. n \in 0 .. Len(list)
  BY <1>2
<1>a. n \in Nat /\ n <= Len(list)
  BY <1>0, <1>c
<1>b. 1 .. n \subseteq DOMAIN list
  BY <1>0, <1>a
<1>5. E \in SUBSET ToSet(list) /\ ToSet(list) \subseteq Keys
  BY <1>b DEF ToSet
<1>6. ASSUME NEW d \in Digests
      PROVE  /\ Referrers(d)' = Referrers(d) \ D(d)
             /\ cas_ref_count'[d] = Cardinality(Referrers(d)')
             /\ cas_ref_count'[d] \in Nat
             /\ cas_ref_count[d] = Cardinality(C(d)) <=> Referrers(d)' = {}
  <2> DEFINE f == [i \in C(d) |-> list[i]]
             R == Referrers(d)
             Q == Referrers(d)'
             c == Cardinality(C(d))
             r == Cardinality(R)
  <2>1. f \in Bijection(C(d), D(d))
    <3>1. f \in [C(d) -> D(d)]
      OBVIOUS
    <3>2. \A a, b \in C(d) : f[a] = f[b] => a = b
      BY <1>b DEF IsInjective
    <3>3. \A t \in D(d) : \E a \in C(d) : f[a] = t
      OBVIOUS
    <3> QED
      BY <3>1, <3>2, <3>3 DEF Bijection, Injection, Surjection, IsInjective
  <2>2. IsFiniteSet(C(d))
    <3>1. IsFiniteSet(1 .. n)
      BY <1>a, FS_Interval
    <3> QED
      BY <3>1, FS_Subset
  <2>3. Cardinality(D(d)) = c /\ IsFiniteSet(D(d)) /\ c \in Nat
    BY <2>1, <2>2, FS_Bijection, FS_CardinalityType DEF ExistsBijection
  <2>4. D(d) \subseteq R /\ IsFiniteSet(R)
    BY <1>5, FiniteAssumption, FS_Subset DEF Referrers
  <2>5. Q = R \ D(d)
    BY <1>3, <1>5, NullAssumption DEF Referrers
  <2> DEFINE X == D(d)
  <2>6. X \subseteq R /\ R \cap X = X /\ Q = R \ X
    BY <2>4, <2>5
  <2>7. Cardinality(X) = c
    BY <2>3
  <2>10. cas_ref_count[d] = r
    BY DEF CasRefsExact
  <2>11. cas_ref_count'[d] = cas_ref_count[d] - c
    BY <1>3
  <2> HIDE DEF X, R, Q, c, r
  <2>8. Cardinality(Q) = Cardinality(R) - Cardinality(R \cap X)
    BY <2>4, <2>6, FS_Difference DEF R
  <2>9. Cardinality(R \cap X) = c
    BY <2>6, <2>7, Zenon
  <2>12. IsFiniteSet(Q) /\ IsFiniteSet(R)
    BY <2>4, <2>6, FS_Difference DEF R
  <2>13. Cardinality(Q) \in Nat /\ Cardinality(R) \in Nat /\ c \in Nat
    BY <2>12, <2>3, FS_CardinalityType DEF c
  <2>14. r = Cardinality(R)
    BY DEF r, R
  <2>15. cas_ref_count'[d] = Cardinality(Q) /\ cas_ref_count'[d] \in Nat
    BY <2>8, <2>9, <2>10, <2>11, <2>13, <2>14
  <2>16. cas_ref_count[d] = c <=> Cardinality(Q) = 0
    BY <2>8, <2>9, <2>10, <2>13, <2>14
  <2>17. Cardinality(Q) = 0 <=> Q = {}
    BY <2>12, FS_EmptySet
  <2> QED
    BY <2>5, <2>15, <2>16, <2>17 DEF Q, R, c
<1> HIDE DEF C, D
<1>7. freed \subseteq cas_map /\ cas_map \subseteq Digests
  BY <1>4 DEF TypeOK
<1>8. /\ total_size' = SizeOf(cas_map')
      /\ total_size' \in Nat
  <2> DEFINE rest == cas_map \ freed
  <2>1. SizeOf(rest) = SizeOf(cas_map) - SizeOf(freed)
    BY <1>7, SizeDifference
  <2>2. rest \in SUBSET Digests
    BY <1>7
  <2>3. rest = cas_map'
    BY <1>3
  <2> HIDE DEF rest
  <2>4. SizeOf(rest) \in Nat
    BY <2>2, SizeType
  <2>5. total_size' = SizeOf(rest)
    BY <2>1, <1>3 DEF CasRefsExact
  <2> QED
    BY <2>3, <2>4, <2>5
<1>9. ASSUME NEW d \in Digests
      PROVE  d \in cas_map' <=> Referrers(d)' # {}
  <2>1. d \notin cas_map => Referrers(d) = {}
    BY DEF CasRefsExact
  <2>2. d \in cas_map' <=> d \in cas_map /\ Referrers(d)' # {}
    BY <1>3, <1>4, <1>6
  <2> QED
    BY <2>1, <2>2, <1>6
<1>10. CasRefsExact'
  BY <1>6, <1>8, <1>9 DEF CasRefsExact
<1>11. cas_ref_count' \in [Digests -> Nat]
  BY <1>3, <1>6
<1>12. /\ eviction_list' \in Seq(Keys)
       /\ IsInjective(eviction_list')
       /\ ToSet(eviction_list') = ToSet(list) \ E
  BY <1>2, <1>3, ListDrop
<1>13. \/ ToSet(eviction_list') = {}
       \/ total_size' - locked_size <= desired_size
  <2>1. CASE n = Len(list)
    <3>1. E = ToSet(list)
      BY <2>1, <1>0 DEF ToSet
    <3> QED
      BY <3>1, <1>12
  <2>2. CASE n # Len(list)
    BY <2>2, <1>2, <1>3
  <2> QED
    BY <2>1, <2>2
<1>14. cas_map' \subseteq cas_map
  BY <1>3
<1> HIDE DEF E
<1> QED
  BY <1>3, <1>5, <1>8, <1>10, <1>11, <1>12, <1>13, <1>14

-----------------------------------------------------------------------------
(* The inductive invariant.                                                *)

IInv ==
    /\ TypeOK
    /\ RefCountsExact
    /\ EvictionListExact
    /\ NoDanglingRecord
    /\ ReadyHasValue
    /\ CasRefsExact
    /\ CasLocksExact
    /\ UnusedWithinLimit

\* The locked CAS records hold a part of the total size, and none of it is
\* unused: the size the eviction loop compares cannot be negative.
UnlockedBound ==
    /\ SizeOf(UnusedDigests) <= total_size - total_locked_size
    /\ total_locked_size <= total_size

\* A value that nobody uses is not locked, so that the unlocked size bounds what is unused.
LEMMA UnusedIsUnlocked ==
    TypeOK /\ RefCountsExact /\ CasRefsExact /\ CasLocksExact => UnlockedBound
<1> SUFFICES ASSUME TypeOK, RefCountsExact, CasRefsExact, CasLocksExact
             PROVE  UnlockedBound
  OBVIOUS
<1> DEFINE L == LockedDigests
           U == UnusedDigests
<1>1. ASSUME NEW d \in L
      PROVE  \E k \in Keys : cas_record[k] = d /\ lock_count[k] > 0
  <2>1. d \in Digests /\ cas_lock_count[d] > 0
    BY DEF LockedDigests
  <2> DEFINE R == LockedReferrers(d)
  <2>2. cas_lock_count[d] = Cardinality(R)
    BY <2>1 DEF CasLocksExact
  <2>3. R # {}
    <3> SUFFICES ASSUME R = {} PROVE FALSE
      OBVIOUS
    <3>1. Cardinality(R) = 0
      BY FS_EmptySet, Zenon
    <3> QED
      BY <3>1, <2>1, <2>2
  <2> QED
    BY <2>3 DEF LockedReferrers
<1>2. L \subseteq cas_map
  BY <1>1 DEF LockedDigests, CasRefsExact, Referrers
<1>3. \A k \in Keys : ref_count[k] >= lock_count[k]
  <2> SUFFICES ASSUME NEW k \in Keys PROVE ref_count[k] >= lock_count[k]
    OBVIOUS
  <2> DEFINE P == Holders(ptr, k)
  <2>1. IsFiniteSet(P)
    BY FiniteAssumption, FS_Subset DEF Holders
  <2>2. Cardinality(P) \in Nat
    BY <2>1, FS_CardinalityType
  <2>3. ref_count[k] = Cardinality(P) + lock_count[k]
    BY DEF RefCountsExact
  <2> HIDE DEF P
  <2> QED
    BY <2>2, <2>3 DEF TypeOK
<1>4. U \subseteq cas_map \ L
  BY <1>1, <1>3 DEF UnusedDigests, Referrers, TypeOK
<1>5. cas_map \in SUBSET Digests
  BY DEF TypeOK
<1>6. total_size = SizeOf(cas_map) /\ total_locked_size = SizeOf(L)
  BY DEF CasRefsExact, CasLocksExact
<1> DEFINE D == cas_map \ L
<1>7. SizeOf(D) = SizeOf(cas_map) - SizeOf(L) /\ SizeOf(L) <= SizeOf(cas_map)
  BY <1>2, <1>5, SizeDifference
<1>8. D \in SUBSET Digests /\ U \in SUBSET D
  BY <1>4, <1>5
<1> HIDE DEF D, L, U
<1>9. SizeOf(U) <= SizeOf(D)
  BY <1>8, SizeDifference
<1>10. /\ SizeOf(U) <= total_size - total_locked_size
       /\ total_locked_size <= total_size
  BY <1>6, <1>7, <1>9
<1> QED
  BY <1>10 DEF U, UnlockedBound

\* The eviction loop establishes everything that concerns the records it may
\* drop, from counts that are exact for the clients' new references.
LEMMA ReduceInv ==
    ASSUME TypeOK, NoDanglingRecord, ReadyHasValue, CasRefsExact,
           ref_count' \in [Keys -> Nat], lock_count' \in [Keys -> Nat],
           cas_lock_count' \in [Digests -> Nat], total_locked_size' \in Nat,
           task' \in [Keys -> Clients \cup {NoClient}],
           ptr' \in [Clients -> Keys \cup {NoKey}],
           lock' \in [Clients -> Keys \cup {NoKey}],
           RefCountsExact',
           NEW list \in Seq(Keys), IsInjective(list),
           ToSet(list) = {k \in records : ref_count'[k] = 0},
           \A k \in Keys \ records : ref_count'[k] = 0,
           \A d \in Digests : cas_lock_count'[d] =
              Cardinality({k \in Keys : cas_record[k] = d /\ lock_count'[k] > 0}),
           total_locked_size' = SizeOf(LockedDigests'),
           NEW desired_size, desired_size <= UnusedSizeLimit,
           desired_size \in Nat,
           reduce_memory_cache_size_impl(list, total_locked_size', desired_size)
    PROVE  IInv'
<1>0. PICK locked_size : locked_size = total_locked_size'
  OBVIOUS
<1>a. reduce_memory_cache_size_impl(list, locked_size, desired_size)
  BY <1>0, Zenon
<1>1. PICK E \in SUBSET ToSet(list) :
              /\ records' = records \ E
              /\ eviction_list' \in Seq(Keys)
              /\ IsInjective(eviction_list')
              /\ ToSet(eviction_list') = ToSet(list) \ E
              /\ state' = [k \in Keys |->
                             IF k \in E THEN "LOADING" ELSE state[k]]
              /\ cas_record' = [k \in Keys |->
                             IF k \in E THEN NoDigest ELSE cas_record[k]]
              /\ cas_ref_count' \in [Digests -> Nat]
              /\ cas_map' \subseteq cas_map
              /\ total_size' \in Nat
              /\ CasRefsExact'
              /\ \/ ToSet(eviction_list') = {}
                 \/ total_size' - locked_size <= desired_size
  BY <1>a, ReduceStep, Zenon
<1>2. TypeOK'
  BY <1>1 DEF TypeOK, EntryStates
<1>3. EvictionListExact'
  BY <1>1 DEF EvictionListExact
<1>4. ASSUME NEW k \in Keys, ref_count'[k] = 0
      PROVE  Holders(ptr', k) = {} /\ Holders(lock', k) = {} /\ lock_count'[k] = 0
  <2> DEFINE P == Holders(ptr', k)
             L == Holders(lock', k)
  <2>1. IsFiniteSet(P) /\ IsFiniteSet(L)
    BY FiniteAssumption, FS_Subset DEF Holders
  <2>2. ref_count'[k] = Cardinality(P) + Cardinality(L)
        /\ lock_count'[k] = Cardinality(L)
    BY DEF RefCountsExact, Holders
  <2> HIDE DEF P, L
  <2>3. Cardinality(P) \in Nat /\ Cardinality(L) \in Nat
    BY <2>1, FS_CardinalityType
  <2>4. Cardinality(P) = 0 /\ Cardinality(L) = 0
    BY <2>2, <2>3, <1>4
  <2>5. P = {} /\ L = {}
    BY <2>1, <2>4, FS_EmptySet
  <2> QED
    BY <2>2, <2>4, <2>5 DEF P, L
<1>5. \A k \in E : ref_count'[k] = 0 /\ k \in Keys
  BY <1>1 DEF TypeOK
<1>6. NoDanglingRecord'
  BY <1>1, <1>4, <1>5 DEF NoDanglingRecord, Holders
<1>7. ReadyHasValue'
  <2> SUFFICES ASSUME NEW k \in Keys
               PROVE  /\ state'[k] = "READY" <=> cas_record'[k] # NoDigest
                      /\ cas_record'[k] # NoDigest => cas_record'[k] \in cas_map'
    BY DEF ReadyHasValue
  <2>1. state'[k] = "READY" <=> cas_record'[k] # NoDigest
    BY <1>1 DEF ReadyHasValue, TypeOK
  <2>2. cas_record'[k] # NoDigest => cas_record'[k] \in cas_map'
    BY <1>1, <1>2 DEF TypeOK, CasRefsExact, Referrers
  <2> QED
    BY <2>1, <2>2
<1>8. CasLocksExact'
  <2>1. ASSUME NEW d \in Digests
        PROVE  LockedReferrers(d)' =
                 {k \in Keys : cas_record[k] = d /\ lock_count'[k] > 0}
    BY <1>1, <1>4, <1>5, NullAssumption DEF LockedReferrers
  <2>2. ASSUME NEW d \in Digests
        PROVE  cas_lock_count'[d] = Cardinality(LockedReferrers(d)')
    BY <2>1, Zenon
  <2> QED
    BY <2>2 DEF CasLocksExact
<1>9. UnusedWithinLimit'
  <2>1. /\ SizeOf(UnusedDigests') <= total_size' - total_locked_size'
        /\ total_locked_size' <= total_size'
    <3>1. CasRefsExact'
      BY <1>1
    <3>2. UnlockedBound'
      BY <3>1, <1>2, <1>8, UnusedIsUnlocked, PTL
    <3> QED
      BY <3>2 DEF UnlockedBound
  <2>2. CASE total_size' - total_locked_size' <= desired_size
    <3>1. UnusedDigests' \in SUBSET Digests
      BY <1>2 DEF UnusedDigests, TypeOK
    <3>2. SizeOf(UnusedDigests') \in Nat
      BY <3>1, SizeType
    <3> QED
      BY <3>2, <2>1, <2>2, <1>2, SizeAssumption DEF UnusedWithinLimit, TypeOK
  <2>3. CASE ToSet(eviction_list') = {}
    <3>1. UnusedDigests' = {}
      <4> SUFFICES ASSUME NEW d \in UnusedDigests'
                   PROVE  FALSE
        OBVIOUS
      <4>1. d \in cas_map' /\ d \in Digests
        BY <1>2 DEF UnusedDigests, TypeOK
      <4>a. CasRefsExact'
        BY <1>1
      <4>b. Referrers(d)' # {}
        BY <4>1, <4>a DEF CasRefsExact
      <4>2. PICK k \in Keys : cas_record'[k] = d
        BY <4>b DEF Referrers
      <4>3. ref_count'[k] = 0
        BY <4>2 DEF UnusedDigests, Referrers
      <4>4. k \in records'
        BY <4>1, <4>2, <1>6, <1>7, NullAssumption DEF NoDanglingRecord, ReadyHasValue
      <4> QED
        BY <4>3, <4>4, <2>3, <1>3 DEF EvictionListExact
    <3>2. SizeOf({}) = 0
      BY FS_EmptySet DEF SizeOf, Cells
    <3> QED
      BY <3>1, <3>2, SizeAssumption DEF UnusedWithinLimit
  <2> QED
    BY <1>0, <1>1, <2>2, <2>3
<1> QED
  BY <1>1, <1>2, <1>3, <1>6, <1>7, <1>8, <1>9 DEF IInv

-----------------------------------------------------------------------------
(* Every action preserves the invariant.                                   *)

\* Client c's ptr or lock moves from one record (or none) to another.
Moves(f, g, c, v) ==
    /\ f \in [Clients -> Keys \cup {NoKey}]
    /\ c \in Clients
    /\ v # f[c]
    /\ g = [f EXCEPT ![c] = v]

\* The record it moves to gains a reference and the one it leaves loses one.
LEMMA HoldersChange ==
    ASSUME NEW f, NEW g, NEW c, NEW v, Moves(f, g, c, v), NEW x \in Keys
    PROVE  /\ x = v =>
                Cardinality(Holders(g, x)) = Cardinality(Holders(f, x)) + 1
           /\ x = f[c] =>
                Cardinality(Holders(g, x)) = Cardinality(Holders(f, x)) - 1
           /\ x # v /\ x # f[c] =>
                Cardinality(Holders(g, x)) = Cardinality(Holders(f, x))
<1> DEFINE F == Holders(f, x)
           G == Holders(g, x)
<1>1. IsFiniteSet(F)
  BY FiniteAssumption, FS_Subset DEF Holders
<1>2. x = v => c \notin F /\ G = F \cup {c}
  BY DEF Holders, Moves
<1>3. x = f[c] => c \in F /\ G = F \ {c}
  BY DEF Holders, Moves
<1>4. x # v /\ x # f[c] => G = F
  BY DEF Holders, Moves
<1> HIDE DEF F, G
<1>5. x = v => Cardinality(G) = Cardinality(F) + 1
  BY <1>1, <1>2, CountGain
<1>6. x = f[c] => Cardinality(G) = Cardinality(F) - 1
  BY <1>1, <1>3, CountLoss
<1> QED
  BY <1>4, <1>5, <1>6 DEF F, G

\* The number of clients that refer to a record is a natural number.
LEMMA HoldersFinite ==
    ASSUME NEW f, NEW x
    PROVE  Cardinality(Holders(f, x)) \in Nat
<1>1. IsFiniteSet(Holders(f, x))
  BY FiniteAssumption, FS_Subset DEF Holders
<1> QED
  BY <1>1, FS_CardinalityType

\* When fewer values are unused, the limit still holds.
LEMMA UnusedShrinks ==
    ASSUME TypeOK, UnusedWithinLimit, UnusedDigests' \subseteq UnusedDigests
    PROVE  UnusedWithinLimit'
<1> DEFINE U == UnusedDigests
           V == UnusedDigests'
<1>1. U \in SUBSET Digests /\ V \in SUBSET U /\ V \in SUBSET Digests
  BY DEF TypeOK, UnusedDigests
<1> HIDE DEF U, V
<1>2. SizeOf(V) <= SizeOf(U) /\ SizeOf(V) \in Nat /\ SizeOf(U) \in Nat
  BY <1>1, SizeDifference, SizeType
<1>3. SizeOf(U) <= UnusedSizeLimit
  BY DEF UnusedWithinLimit, U
<1>4. SizeOf(V) <= UnusedSizeLimit
  BY <1>2, <1>3, SizeAssumption
<1> QED
  BY <1>4 DEF UnusedWithinLimit, V

\* The initial state.
LEMMA InitInv ==
    ASSUME Init
    PROVE  IInv
<1>1. SizeOf({}) = 0
  BY FS_EmptySet DEF SizeOf, Cells
<1>2. TypeOK
  BY DEF Init, TypeOK, EntryStates
<1>3. \A f, x : f = [c \in Clients |-> NoKey] /\ x \in Keys => Holders(f, x) = {}
  BY NullAssumption DEF Holders
<1>4. \A k \in Keys : Holders(ptr, k) = {} /\ Holders(lock, k) = {}
  BY <1>3 DEF Init
<1>5. RefCountsExact
  <2>1. \A k \in Keys : /\ Cardinality(Holders(ptr, k)) = 0
                        /\ Cardinality(Holders(lock, k)) = 0
    BY <1>4, FS_EmptySet
  <2> QED
    BY <2>1 DEF Init, RefCountsExact
<1>6. EvictionListExact
  BY DEF Init, EvictionListExact, ToSet, IsInjective
<1>7. NoDanglingRecord /\ ReadyHasValue
  BY <1>4 DEF Init, NoDanglingRecord, ReadyHasValue
<1>8. \A d \in Digests : Referrers(d) = {} /\ LockedReferrers(d) = {}
  BY NullAssumption DEF Init, Referrers, LockedReferrers
<1>9. LockedDigests = {} /\ UnusedDigests = {}
  BY DEF Init, LockedDigests, UnusedDigests
<1>10. CasRefsExact
  <2>1. \A d \in Digests : cas_ref_count[d] = Cardinality(Referrers(d))
    BY <1>8, FS_EmptySet DEF Init
  <2> QED
    BY <2>1, <1>8, <1>1 DEF Init, CasRefsExact
<1>11. CasLocksExact
  <2>1. \A d \in Digests : cas_lock_count[d] = Cardinality(LockedReferrers(d))
    BY <1>8, FS_EmptySet DEF Init
  <2> QED
    BY <2>1, <1>9, <1>1 DEF Init, CasLocksExact
<1>12. UnusedWithinLimit
  BY <1>9, <1>1, SizeAssumption DEF UnusedWithinLimit
<1> QED
  BY <1>2, <1>5, <1>6, <1>7, <1>10, <1>11, <1>12 DEF IInv

\* Acquiring a ptr.
LEMMA AcquireInv ==
    ASSUME IInv, NEW c \in Clients, NEW k \in Keys, acquire_cache_record(c, k)
    PROVE  IInv'
<1> USE DEF IInv
<1>1. ptr \in [Clients -> Keys \cup {NoKey}] /\ ptr[c] = NoKey /\ k # NoKey
      /\ ptr' = [ptr EXCEPT ![c] = k]
  BY NullAssumption DEF acquire_cache_record, TypeOK
<1>2. ref_count' = [ref_count EXCEPT ![k] = @ + 1]
      /\ eviction_list' = RemoveFirst(eviction_list, k)
  BY DEF acquire_cache_record, add_ref_to_cache_record
<1>3. /\ eviction_list' \in Seq(Keys)
      /\ IsInjective(eviction_list')
      /\ ToSet(eviction_list') = ToSet(eviction_list) \ {k}
  BY <1>2, ListRemove DEF TypeOK, EvictionListExact
<1>4. TypeOK'
  <2>1. /\ task' \in [Keys -> Clients \cup {NoClient}]
        /\ state' \in [Keys -> EntryStates]
    BY DEF TypeOK, EntryStates, acquire_cache_record
  <2>2. /\ records' \subseteq Keys
        /\ ref_count' \in [Keys -> Nat]
        /\ ptr' \in [Clients -> Keys \cup {NoKey}]
    BY <1>1, <1>2 DEF TypeOK, acquire_cache_record
  <2> QED
    BY <2>1, <2>2, <1>3 DEF TypeOK, acquire_cache_record, cas_vars
<1>5. RefCountsExact'
  <2> SUFFICES ASSUME NEW x \in Keys
               PROVE  /\ ref_count'[x] = Cardinality(Holders(ptr', x))
                                         + Cardinality(Holders(lock', x))
                      /\ lock_count'[x] = Cardinality(Holders(lock', x))
    BY DEF RefCountsExact, Holders
  <2>1. Cardinality(Holders(ptr', x)) =
                 IF x = k THEN Cardinality(Holders(ptr, x)) + 1
                 ELSE Cardinality(Holders(ptr, x))
    <3>1. Moves(ptr, ptr', c, k) /\ x # ptr[c]
      BY <1>1, NullAssumption DEF Moves
    <3> QED
      BY <3>1, HoldersChange
  <2>2. /\ Cardinality(Holders(ptr, x)) \in Nat
        /\ Cardinality(Holders(lock, x)) \in Nat
    BY HoldersFinite
  <2>3. lock' = lock /\ lock_count' = lock_count
    BY DEF acquire_cache_record
  <2> QED
    BY <2>1, <2>2, <2>3, <1>2 DEF RefCountsExact, TypeOK
<1>6. records' = records \cup {k}
  BY DEF acquire_cache_record
<1>7. ref_count'[k] # 0 /\ \A x \in Keys : x # k => ref_count'[x] = ref_count[x]
  BY <1>2 DEF TypeOK
<1>8. EvictionListExact'
  BY <1>3, <1>6, <1>7 DEF EvictionListExact, TypeOK
<1>9. \A x \in Keys : x # k => state'[x] = state[x]
  BY DEF acquire_cache_record, TypeOK
<1>10. NoDanglingRecord'
  BY <1>1, <1>6, <1>9 DEF NoDanglingRecord, Holders, acquire_cache_record
<1>11. cas_record' = cas_record /\ cas_map' = cas_map
  BY DEF acquire_cache_record, cas_vars
<1>12. state'[k] = "READY" <=> state[k] = "READY"
  BY DEF acquire_cache_record, NeedsTask, TypeOK, NoDanglingRecord
<1>13. ReadyHasValue'
  BY <1>9, <1>11, <1>12 DEF ReadyHasValue
<1>14. CasRefsExact'
  BY DEF acquire_cache_record, cas_vars, CasRefsExact, Referrers
<1>15. CasLocksExact'
  BY DEF acquire_cache_record, cas_vars, CasLocksExact, LockedReferrers,
         LockedDigests
<1>16. UnusedDigests' \subseteq UnusedDigests
  BY <1>7, <1>11 DEF UnusedDigests, Referrers
<1>17. UnusedWithinLimit'
  BY <1>16, UnusedShrinks
<1> QED
  BY <1>4, <1>5, <1>8, <1>10, <1>13, <1>14, <1>15, <1>17

\* Releasing a ptr.
LEMMA ReleaseInv ==
    ASSUME IInv, NEW c \in Clients, release_ptr(c)
    PROVE  IInv'
<1> DEFINE k == ptr[c]
<1> USE DEF IInv
<1>1. /\ k \in Keys
      /\ ptr' = [ptr EXCEPT ![c] = NoKey]
      /\ ref_count' = [ref_count EXCEPT ![k] = @ - 1]
      /\ UNCHANGED <<lock_count, cas_lock_count, total_locked_size, lock>>
  BY DEF release_ptr, del_ref_from_cache_record, TypeOK
<1>2. Moves(ptr, ptr', c, NoKey)
  BY <1>1, NullAssumption DEF Moves, TypeOK
<1> HIDE DEF k
<1>3. ASSUME NEW x \in Keys
      PROVE  /\ Cardinality(Holders(ptr', x)) =
                   IF x = k THEN Cardinality(Holders(ptr, x)) - 1
                            ELSE Cardinality(Holders(ptr, x))
             /\ Cardinality(Holders(ptr, x)) \in Nat
             /\ Cardinality(Holders(ptr', x)) \in Nat
             /\ Cardinality(Holders(lock, x)) \in Nat
  <2>1. x # NoKey
    BY NullAssumption
  <2> QED
    BY <2>1, <1>2, HoldersChange, HoldersFinite DEF k
<1>4. RefCountsExact'
  <2> SUFFICES ASSUME NEW x \in Keys
               PROVE  /\ ref_count'[x] = Cardinality(Holders(ptr', x))
                                         + Cardinality(Holders(lock', x))
                      /\ lock_count'[x] = Cardinality(Holders(lock', x))
    BY DEF RefCountsExact, Holders
  <2>1. lock' = lock /\ lock_count' = lock_count
    BY <1>1
  <2>2. /\ ref_count[x] = Cardinality(Holders(ptr, x))
                           + Cardinality(Holders(lock, x))
        /\ lock_count[x] = Cardinality(Holders(lock, x))
    BY DEF RefCountsExact
  <2>3. ref_count'[x] = IF x = k THEN ref_count[x] - 1 ELSE ref_count[x]
    BY <1>1 DEF TypeOK
  <2> QED
    BY <2>1, <2>2, <2>3, <1>3
<1>5. ref_count[k] >= 1
  BY <1>1, <1>3 DEF RefCountsExact
<1>6. /\ ref_count' \in [Keys -> Nat]
      /\ ptr' \in [Clients -> Keys \cup {NoKey}]
      /\ task' \in [Keys -> Clients \cup {NoClient}]
  <2>1. ref_count' \in [Keys -> Nat]
    BY <1>1, <1>5 DEF TypeOK
  <2>2. task' \in [Keys -> Clients \cup {NoClient}]
    BY DEF release_ptr, TypeOK
  <2> QED
    BY <1>1, <2>1, <2>2 DEF TypeOK
<1>7. \A x \in Keys \ records : ref_count'[x] = 0 /\ ref_count[x] = 0 /\ x # k
  <2> SUFFICES ASSUME NEW x \in Keys \ records
               PROVE  ref_count'[x] = 0 /\ ref_count[x] = 0 /\ x # k
    OBVIOUS
  <2>1. Cardinality(Holders(ptr, x)) = 0 /\ Cardinality(Holders(lock, x)) = 0
    <3>1. Holders(ptr, x) = {} /\ Holders(lock, x) = {}
      BY DEF NoDanglingRecord
    <3> QED
      BY <3>1, FS_EmptySet
  <2>2. ref_count[x] = 0
    BY <2>1 DEF RefCountsExact
  <2> QED
    BY <2>2, <1>1, <1>5
<1>8. CASE ref_count[k] = 1
  <2> DEFINE list == Append(eviction_list, k)
  <2>1. reduce_memory_cache_size_impl(list, total_locked_size, UnusedSizeLimit)
    BY <1>8 DEF release_ptr, del_ref_from_cache_record, k
  <2>2. k \notin ToSet(eviction_list) /\ k \in records
    BY <1>1, <1>7, <1>8 DEF EvictionListExact
  <2>3. /\ list \in Seq(Keys)
        /\ IsInjective(list)
        /\ ToSet(list) = ToSet(eviction_list) \cup {k}
    BY <1>1, <2>2, ListAppend DEF TypeOK, EvictionListExact
  <2>4. ToSet(list) = {x \in records : ref_count'[x] = 0}
    BY <1>1, <1>8, <2>2, <2>3 DEF EvictionListExact, TypeOK
  <2>5. \A d \in Digests : cas_lock_count'[d] =
              Cardinality({x \in Keys : cas_record[x] = d /\ lock_count'[x] > 0})
    BY <1>1 DEF CasLocksExact, LockedReferrers
  <2>6. total_locked_size' = SizeOf(LockedDigests')
    BY <1>1 DEF CasLocksExact, LockedDigests
  <2>7. /\ UnusedSizeLimit <= UnusedSizeLimit
        /\ UnusedSizeLimit \in Nat
        /\ \A x \in Keys \ records : ref_count'[x] = 0
    BY SizeAssumption, <1>7
  <2>8. /\ lock_count' \in [Keys -> Nat]
        /\ cas_lock_count' \in [Digests -> Nat]
        /\ total_locked_size' \in Nat
        /\ lock' \in [Clients -> Keys \cup {NoKey}]
    BY <1>1 DEF TypeOK
  <2>9. reduce_memory_cache_size_impl(list, total_locked_size', UnusedSizeLimit)
    BY <2>1, <1>1
  <2> HIDE DEF list, IInv
  <2>10. TypeOK /\ NoDanglingRecord /\ ReadyHasValue /\ CasRefsExact
    BY DEF IInv
  <2> QED
    BY <1>4, <1>6, <2>3, <2>4, <2>5, <2>6, <2>7, <2>8, <2>9, <2>10,
       ReduceInv, Zenon
<1>9. CASE ref_count[k] # 1
  <2>1. UNCHANGED <<records, eviction_list, state, cas_record, cas_ref_count,
                    cas_map, total_size>>
    BY <1>9 DEF release_ptr, del_ref_from_cache_record, k
  <2>2. TypeOK'
    BY <2>1, <1>1, <1>6 DEF TypeOK
  <2>3. \A x \in Keys : ref_count'[x] = 0 <=> ref_count[x] = 0
    BY <1>1, <1>5, <1>9 DEF TypeOK
  <2>4. EvictionListExact'
    BY <2>1, <2>3 DEF EvictionListExact, TypeOK
  <2>5. NoDanglingRecord'
    <3> SUFFICES ASSUME NEW x \in Keys \ records
                 PROVE  /\ Holders(ptr', x) = {} /\ Holders(lock', x) = {}
                        /\ state'[x] = "LOADING"
      BY <2>1 DEF NoDanglingRecord, Holders
    <3>1. Holders(ptr, x) = {} /\ Holders(lock, x) = {} /\ state[x] = "LOADING"
      BY DEF NoDanglingRecord
    <3>2. Holders(ptr', x) = {}
      BY <3>1, <1>1, NullAssumption DEF Holders, TypeOK
    <3> QED
      BY <3>1, <3>2, <2>1, <1>1
  <2>6. ReadyHasValue' /\ CasRefsExact'
    BY <2>1 DEF ReadyHasValue, CasRefsExact, Referrers
  <2>7. CasLocksExact'
    BY <2>1, <1>1 DEF CasLocksExact, LockedReferrers, LockedDigests
  <2>8. UnusedDigests' \subseteq UnusedDigests
    BY <2>1, <2>3 DEF UnusedDigests, Referrers
  <2>9. UnusedWithinLimit'
    BY <2>8, UnusedShrinks
  <2> QED
    BY <1>4, <2>2, <2>4, <2>5, <2>6, <2>7, <2>9
<1> QED
  BY <1>8, <1>9

\* Dropping unused records on request.
LEMMA ClearInv ==
    ASSUME IInv, clear_unused_entries
    PROVE  IInv'
<1> USE DEF IInv
<1>1. /\ reduce_memory_cache_size_impl(eviction_list, total_locked_size, 0)
      /\ UNCHANGED <<ref_count, lock_count, cas_lock_count, total_locked_size,
                     ptr, lock>>
  BY DEF clear_unused_entries, client_vars
<1>2. /\ ref_count' \in [Keys -> Nat]
      /\ lock_count' \in [Keys -> Nat]
      /\ cas_lock_count' \in [Digests -> Nat]
      /\ total_locked_size' \in Nat
      /\ ptr' \in [Clients -> Keys \cup {NoKey}]
      /\ lock' \in [Clients -> Keys \cup {NoKey}]
  BY <1>1 DEF TypeOK
<1>3. task' \in [Keys -> Clients \cup {NoClient}]
  BY DEF clear_unused_entries, TypeOK
<1>4. RefCountsExact'
  BY <1>1 DEF RefCountsExact, Holders
<1>5. \A x \in Keys \ records : ref_count'[x] = 0
  <2> SUFFICES ASSUME NEW x \in Keys \ records
               PROVE  ref_count[x] = 0
    BY <1>1
  <2>1. Holders(ptr, x) = {} /\ Holders(lock, x) = {}
    BY DEF NoDanglingRecord
  <2>2. Cardinality(Holders(ptr, x)) = 0 /\ Cardinality(Holders(lock, x)) = 0
    BY <2>1, FS_EmptySet
  <2> QED
    BY <2>2 DEF RefCountsExact
<1>6. /\ eviction_list \in Seq(Keys)
      /\ IsInjective(eviction_list)
      /\ ToSet(eviction_list) = {x \in records : ref_count'[x] = 0}
  BY <1>1 DEF EvictionListExact, TypeOK
<1>7. \A d \in Digests : cas_lock_count'[d] =
            Cardinality({x \in Keys : cas_record[x] = d /\ lock_count'[x] > 0})
  BY <1>1 DEF CasLocksExact, LockedReferrers
<1>8. total_locked_size' = SizeOf(LockedDigests')
  BY <1>1 DEF CasLocksExact, LockedDigests
<1>9. 0 <= UnusedSizeLimit /\ 0 \in Nat
  BY SizeAssumption
<1>10. reduce_memory_cache_size_impl(eviction_list, total_locked_size', 0)
  BY <1>1
<1>11. TypeOK /\ NoDanglingRecord /\ ReadyHasValue /\ CasRefsExact
  OBVIOUS
<1> QED
  BY <1>2, <1>3, <1>4, <1>5, <1>6, <1>7, <1>8, <1>9, <1>10, <1>11,
     ReduceInv, Zenon

\* A CAS record gains the locked referrer k.
LEMMA CasLockGain ==
    ASSUME TypeOK, CasLocksExact, NEW d \in Digests, NEW k,
           k \notin LockedReferrers(d),
           LockedReferrers(d)' = LockedReferrers(d) \cup {k},
           \A x \in Digests \ {d} : LockedReferrers(x)' = LockedReferrers(x),
           cas_add_lock(d)
    PROVE  /\ cas_lock_count' \in [Digests -> Nat]
           /\ total_locked_size' \in Nat
           /\ CasLocksExact'
<1>1. cas_lock_count' = [cas_lock_count EXCEPT ![d] = @ + 1]
  BY DEF cas_add_lock
<1>2. ASSUME NEW x \in Digests
      PROVE  cas_lock_count'[x] = Cardinality(LockedReferrers(x)')
  <2> DEFINE A == LockedReferrers(x)
             B == LockedReferrers(x)'
  <2>1. cas_lock_count[x] = Cardinality(A)
    BY DEF CasLocksExact
  <2>2. CASE x = d
    <3>1. IsFiniteSet(A) /\ k \notin A /\ B = A \cup {k}
      BY <2>2, FiniteAssumption, FS_Subset DEF LockedReferrers
    <3> HIDE DEF A, B
    <3>2. Cardinality(B) = Cardinality(A) + 1
      BY <3>1, CountGain
    <3>3. cas_lock_count'[x] = Cardinality(B)
      BY <3>2, <2>1, <2>2, <1>1 DEF TypeOK
    <3> QED
      BY <3>3 DEF B
  <2>3. CASE x # d
    <3>1. B = A
      BY <2>3
    <3>2. cas_lock_count'[x] = cas_lock_count[x]
      BY <2>3, <1>1 DEF TypeOK
    <3> QED
      BY <3>1, <3>2, <2>1, Zenon
  <2> QED
    BY <2>2, <2>3
<1> DEFINE L == LockedDigests
           M == LockedDigests'
<1>3. L \in SUBSET Digests
  BY DEF LockedDigests
<1>4. total_locked_size = SizeOf(L)
  BY DEF CasLocksExact
<1>5. DeepSize[d] \in Nat
  BY SizeAssumption
<1>6. M = L \cup {d}
  BY <1>1 DEF LockedDigests, TypeOK
<1>7. d \in L <=> cas_lock_count[d] # 0
  BY DEF LockedDigests, TypeOK
<1> HIDE DEF L, M
<1>8. total_locked_size' = SizeOf(M)
  <2>1. CASE cas_lock_count[d] = 0
    <3>1. {d} \in SUBSET Digests /\ L \cap {d} = {}
      BY <2>1, <1>7
    <3>2. SizeOf(L \cup {d}) = SizeOf(L) + SizeOf({d})
      BY <3>1, <1>3, SizeUnion
    <3>3. SizeOf({d}) = DeepSize[d]
      BY SizeSingleton
    <3>4. total_locked_size' = total_locked_size + DeepSize[d]
      BY <2>1 DEF cas_add_lock
    <3>5. SizeOf(M) = SizeOf(L) + SizeOf({d})
      BY <3>2, <1>6, Zenon
    <3> QED
      BY <3>3, <3>4, <3>5, <1>4
  <2>2. CASE cas_lock_count[d] # 0
    <3>1. M = L
      BY <2>2, <1>6, <1>7
    <3> QED
      BY <3>1, <2>2, <1>4 DEF cas_add_lock
  <2> QED
    BY <2>1, <2>2
<1>9. cas_lock_count' \in [Digests -> Nat]
  BY <1>1 DEF TypeOK
<1>10. total_locked_size' \in Nat
  BY <1>5 DEF cas_add_lock, TypeOK
<1> QED
  BY <1>2, <1>8, <1>9, <1>10 DEF CasLocksExact, M

\* Locking a record.
LEMMA LockInv ==
    ASSUME IInv, NEW c \in Clients, lock_record(c)
    PROVE  IInv'
<1>0. PICK k : k = ptr[c]
  OBVIOUS
<1> USE DEF IInv
<1>1. /\ k \in Keys
      /\ lock[c] = NoKey
      /\ lock' = [lock EXCEPT ![c] = k]
      /\ ref_count' = [ref_count EXCEPT ![k] = @ + 1]
      /\ lock_count' = [lock_count EXCEPT ![k] = @ + 1]
      /\ eviction_list' = RemoveFirst(eviction_list, k)
      /\ UNCHANGED <<records, state, cas_record, task, cas_map, cas_ref_count,
                     total_size, ptr>>
  BY <1>0 DEF lock_record, add_ref_to_cache_record, add_lock_to_cache_record,
              TypeOK
<1>2. Moves(lock, lock', c, k)
  BY <1>1, NullAssumption DEF Moves, TypeOK
<1>a. c \in Holders(ptr, k)
  BY <1>0 DEF Holders
<1>3. ASSUME NEW x \in Keys
      PROVE  /\ Cardinality(Holders(lock', x)) =
                   IF x = k THEN Cardinality(Holders(lock, x)) + 1
                            ELSE Cardinality(Holders(lock, x))
             /\ Cardinality(Holders(ptr, x)) \in Nat
             /\ Cardinality(Holders(lock, x)) \in Nat
  <2>1. x # lock[c]
    BY <1>1, NullAssumption
  <2> QED
    BY <2>1, <1>2, HoldersChange, HoldersFinite
<1>4. RefCountsExact'
  <2> SUFFICES ASSUME NEW x \in Keys
               PROVE  /\ ref_count'[x] = Cardinality(Holders(ptr', x))
                                         + Cardinality(Holders(lock', x))
                      /\ lock_count'[x] = Cardinality(Holders(lock', x))
    BY DEF RefCountsExact, Holders
  <2>1. ptr' = ptr
    BY <1>1
  <2>2. /\ ref_count[x] = Cardinality(Holders(ptr, x))
                           + Cardinality(Holders(lock, x))
        /\ lock_count[x] = Cardinality(Holders(lock, x))
    BY DEF RefCountsExact
  <2>3. /\ ref_count'[x] = IF x = k THEN ref_count[x] + 1 ELSE ref_count[x]
        /\ lock_count'[x] = IF x = k THEN lock_count[x] + 1 ELSE lock_count[x]
    BY <1>1 DEF TypeOK
  <2> QED
    BY <2>1, <2>2, <2>3, <1>3
<1>5. /\ eviction_list' \in Seq(Keys)
      /\ IsInjective(eviction_list')
      /\ ToSet(eviction_list') = ToSet(eviction_list) \ {k}
  BY <1>1, ListRemove DEF TypeOK, EvictionListExact
<1>6. k \in records
  BY <1>1, <1>a DEF NoDanglingRecord
<1>7. ref_count'[k] # 0 /\ \A x \in Keys : x # k => ref_count'[x] = ref_count[x]
  BY <1>1 DEF TypeOK
<1>8. EvictionListExact'
  BY <1>1, <1>5, <1>7 DEF EvictionListExact, TypeOK
<1>9. NoDanglingRecord'
  BY <1>1, <1>6 DEF NoDanglingRecord, Holders, TypeOK
<1>10. ReadyHasValue' /\ CasRefsExact'
  BY <1>1 DEF ReadyHasValue, CasRefsExact, Referrers
<1>11. /\ cas_lock_count' \in [Digests -> Nat]
       /\ total_locked_size' \in Nat
       /\ CasLocksExact'
  <2>1. CASE lock_count[k] = 0 /\ cas_record[k] # NoDigest
    <3>0. PICK d : d = cas_record[k]
      OBVIOUS
    <3>1. d \in Digests /\ cas_add_lock(d)
      BY <3>0, <2>1, <1>0, <1>1 DEF lock_record, add_lock_to_cache_record, TypeOK
    <3>2. k \notin LockedReferrers(d)
      BY <2>1 DEF LockedReferrers
    <3>3. LockedReferrers(d)' = LockedReferrers(d) \cup {k}
      BY <3>0, <1>1, <2>1 DEF LockedReferrers, TypeOK
    <3>4. \A x \in Digests \ {d} : LockedReferrers(x)' = LockedReferrers(x)
      BY <3>0, <1>1 DEF LockedReferrers, TypeOK
    <3>5. TypeOK /\ CasLocksExact
      OBVIOUS
    <3> HIDE DEF IInv
    <3> QED
      BY <3>1, <3>2, <3>3, <3>4, <3>5, CasLockGain, Zenon
  <2>2. CASE ~ (lock_count[k] = 0 /\ cas_record[k] # NoDigest)
    <3>1. UNCHANGED <<cas_lock_count, total_locked_size>>
      BY <2>2, <1>0 DEF lock_record, add_lock_to_cache_record
    <3>2. \A x \in Digests : LockedReferrers(x)' = LockedReferrers(x)
      BY <1>1, <2>2, NullAssumption DEF LockedReferrers, TypeOK
    <3> QED
      BY <3>1, <3>2 DEF CasLocksExact, LockedDigests, TypeOK
  <2> QED
    BY <2>1, <2>2
<1>12. TypeOK'
  BY <1>1, <1>5, <1>11 DEF TypeOK
<1>13. UnusedDigests' \subseteq UnusedDigests
  BY <1>1, <1>7 DEF UnusedDigests, Referrers
<1>14. UnusedWithinLimit'
  BY <1>13, UnusedShrinks
<1> QED
  BY <1>4, <1>8, <1>9, <1>10, <1>11, <1>12, <1>14

\* Recording a failure.
LEMMA FailureInv ==
    ASSUME IInv, NEW c \in Clients, record_failure(c)
    PROVE  IInv'
<1> DEFINE k == ptr[c]
<1> USE DEF IInv
<1>1. /\ k \in Keys
      /\ state[k] = "LOADING"
      /\ state' = [state EXCEPT ![k] = "FAILED"]
      /\ UNCHANGED <<records, ref_count, lock_count, cas_record, task,
                     eviction_list, cas_map, cas_ref_count, cas_lock_count,
                     total_size, total_locked_size, ptr, lock>>
  BY DEF record_failure, TypeOK, cas_vars, client_vars
<1>a. \A x \in {k} : c \in Holders(ptr, x)
  BY DEF Holders
<1> HIDE DEF k
<1>2. TypeOK'
  BY <1>1 DEF TypeOK, EntryStates
<1>3. RefCountsExact' /\ EvictionListExact'
  BY <1>1 DEF RefCountsExact, Holders, EvictionListExact
<1>4. k \in records
  BY <1>1, <1>a DEF NoDanglingRecord
<1>5. NoDanglingRecord'
  BY <1>1, <1>4 DEF NoDanglingRecord, Holders, TypeOK
<1>6. ReadyHasValue'
  BY <1>1 DEF ReadyHasValue, TypeOK
<1>7. CasRefsExact' /\ CasLocksExact' /\ UnusedWithinLimit'
  BY <1>1 DEF CasRefsExact, CasLocksExact, UnusedWithinLimit, Referrers,
              LockedReferrers, LockedDigests, UnusedDigests
<1> QED
  BY <1>2, <1>3, <1>5, <1>6, <1>7

\* Recording a value.
LEMMA ValueInv ==
    ASSUME IInv, NEW c \in Clients, NEW d \in Digests, record_value_untyped(c, d)
    PROVE  IInv'
<1>0. PICK k : k = ptr[c]
  OBVIOUS
<1> USE DEF IInv
<1>1. /\ k \in Keys
      /\ state[k] = "LOADING"
      /\ state' = [state EXCEPT ![k] = "READY"]
      /\ cas_record' = [cas_record EXCEPT ![k] = d]
      /\ cas_ref_count' = [cas_ref_count EXCEPT ![d] = @ + 1]
      /\ cas_map' = cas_map \cup {d}
      /\ total_size' = IF d \in cas_map THEN total_size
                                        ELSE total_size + DeepSize[d]
  BY <1>0 DEF record_value_untyped, TypeOK
<1>2. UNCHANGED <<records, ref_count, lock_count, task, eviction_list, ptr, lock>>
  BY DEF record_value_untyped, client_vars
<1>3. cas_record[k] = NoDigest
  BY <1>1 DEF ReadyHasValue
<1>4. DeepSize[d] \in Nat
  BY SizeAssumption
<1>5. c \in Holders(ptr, k)
  BY <1>0 DEF Holders
<1>6. k \in records
  BY <1>1, <1>5 DEF NoDanglingRecord
<1>7. RefCountsExact' /\ EvictionListExact'
  BY <1>2 DEF RefCountsExact, Holders, EvictionListExact
<1>8. NoDanglingRecord'
  BY <1>1, <1>2, <1>6 DEF NoDanglingRecord, Holders, TypeOK
<1>9. ReadyHasValue'
  BY <1>1, NullAssumption DEF ReadyHasValue, TypeOK
<1>10. /\ Referrers(d)' = Referrers(d) \cup {k}
       /\ k \notin Referrers(d)
       /\ \A x \in Digests \ {d} : Referrers(x)' = Referrers(x)
  BY <1>1, <1>3, NullAssumption DEF Referrers, TypeOK
<1>11. ASSUME NEW x \in Digests
       PROVE  /\ cas_ref_count'[x] = Cardinality(Referrers(x)')
              /\ x \in cas_map' <=> Referrers(x)' # {}
  <2> DEFINE A == Referrers(x)
             B == Referrers(x)'
  <2>1. cas_ref_count[x] = Cardinality(A) /\ (x \in cas_map <=> A # {})
    BY DEF CasRefsExact
  <2>2. CASE x = d
    <3>1. IsFiniteSet(A)
      BY FiniteAssumption, FS_Subset DEF Referrers
    <3>2. k \notin A /\ B = A \cup {k}
      BY <2>2, <1>10
    <3>3. x \in cas_map' /\ B # {}
      BY <3>2, <2>2, <1>1
    <3> HIDE DEF A, B
    <3>4. Cardinality(B) = Cardinality(A) + 1
      BY <3>1, <3>2, CountGain
    <3>5. cas_ref_count'[x] = Cardinality(B)
      BY <3>4, <2>1, <2>2, <1>1 DEF TypeOK
    <3> QED
      BY <3>3, <3>5 DEF B
  <2>3. CASE x # d
    <3>1. B = A
      BY <2>3, <1>10
    <3>2. cas_ref_count'[x] = cas_ref_count[x] /\ (x \in cas_map' <=> x \in cas_map)
      BY <2>3, <1>1 DEF TypeOK
    <3> QED
      BY <3>1, <3>2, <2>1, Zenon
  <2> QED
    BY <2>2, <2>3
<1>12. total_size' = SizeOf(cas_map')
  <2>1. total_size = SizeOf(cas_map)
    BY DEF CasRefsExact
  <2>2. CASE d \in cas_map
    <3>1. cas_map' = cas_map
      BY <2>2, <1>1
    <3> QED
      BY <3>1, <2>1, <2>2, <1>1
  <2>3. CASE d \notin cas_map
    <3>1. {d} \in SUBSET Digests /\ cas_map \cap {d} = {} /\ cas_map \in SUBSET Digests
      BY <2>3 DEF TypeOK
    <3>2. SizeOf(cas_map \cup {d}) = SizeOf(cas_map) + SizeOf({d})
      BY <3>1, SizeUnion
    <3>3. SizeOf({d}) = DeepSize[d]
      BY SizeSingleton
    <3>4. SizeOf(cas_map') = SizeOf(cas_map) + SizeOf({d})
      BY <3>2, <1>1, Zenon
    <3> QED
      BY <3>3, <3>4, <2>1, <2>3, <1>1
  <2> QED
    BY <2>2, <2>3
<1>13. CasRefsExact'
  BY <1>11, <1>12 DEF CasRefsExact
<1>14. /\ cas_lock_count' \in [Digests -> Nat]
       /\ total_locked_size' \in Nat
       /\ CasLocksExact'
  <2>1. CASE lock_count[k] > 0
    <3>1. cas_add_lock(d)
      BY <2>1, <1>0 DEF record_value_untyped
    <3>2. k \notin LockedReferrers(d)
      BY <1>3, NullAssumption DEF LockedReferrers
    <3>3. LockedReferrers(d)' = LockedReferrers(d) \cup {k}
      BY <1>1, <1>2, <2>1 DEF LockedReferrers, TypeOK
    <3>4. \A x \in Digests \ {d} : LockedReferrers(x)' = LockedReferrers(x)
      BY <1>1, <1>2, <1>3, NullAssumption DEF LockedReferrers, TypeOK
    <3>5. TypeOK /\ CasLocksExact
      OBVIOUS
    <3> HIDE DEF IInv
    <3> QED
      BY <3>1, <3>2, <3>3, <3>4, <3>5, CasLockGain, Zenon
  <2>2. CASE ~ (lock_count[k] > 0)
    <3>1. UNCHANGED <<cas_lock_count, total_locked_size>>
      BY <2>2, <1>0 DEF record_value_untyped
    <3>2. \A x \in Digests : LockedReferrers(x)' = LockedReferrers(x)
      BY <1>1, <1>2, <1>3, <2>2, NullAssumption DEF LockedReferrers, TypeOK
    <3> QED
      BY <3>1, <3>2 DEF CasLocksExact, LockedDigests, TypeOK
  <2> QED
    BY <2>1, <2>2
<1>15. TypeOK'
  <2>1. /\ state' \in [Keys -> EntryStates]
        /\ cas_record' \in [Keys -> Digests \cup {NoDigest}]
        /\ cas_ref_count' \in [Digests -> Nat]
        /\ cas_map' \subseteq Digests
        /\ total_size' \in Nat
    BY <1>1, <1>4 DEF TypeOK, EntryStates
  <2> QED
    BY <2>1, <1>2, <1>14 DEF TypeOK
<1>16. ref_count[k] # 0
  <2>1. ref_count[k] = Cardinality(Holders(ptr, k)) + Cardinality(Holders(lock, k))
    BY <1>1 DEF RefCountsExact
  <2>2. IsFiniteSet(Holders(ptr, k))
    BY FiniteAssumption, FS_Subset DEF Holders
  <2>3. Cardinality(Holders(ptr, k)) # 0
    BY <2>2, <1>5, FS_EmptySet
  <2>4. /\ Cardinality(Holders(ptr, k)) \in Nat
        /\ Cardinality(Holders(lock, k)) \in Nat
    BY HoldersFinite
  <2> QED
    BY <2>1, <2>3, <2>4
<1>17. UnusedDigests' \subseteq UnusedDigests
  <2> SUFFICES ASSUME NEW x \in UnusedDigests'
               PROVE  x \in UnusedDigests
    OBVIOUS
  <2>1. x \in cas_map' /\ \A y \in Referrers(x)' : ref_count[y] = 0
    BY <1>2 DEF UnusedDigests
  <2>2. x # d
    BY <2>1, <1>10, <1>16
  <2>3. x \in cas_map /\ x \in Digests
    BY <2>1, <2>2, <1>1 DEF TypeOK
  <2>4. Referrers(x)' = Referrers(x)
    BY <2>2, <2>3, <1>10
  <2> QED
    BY <2>1, <2>3, <2>4 DEF UnusedDigests
<1>18. UnusedWithinLimit'
  BY <1>17, UnusedShrinks
<1> QED
  BY <1>7, <1>8, <1>9, <1>13, <1>14, <1>15, <1>18

\* The locked referrers of a CAS record once the locks, but not yet the
\* records, have changed.
RelockedReferrers(d) == {x \in Keys : cas_record[x] = d /\ lock_count'[x] > 0}

\* A CAS record loses the locked referrer k.
LEMMA CasLockLoss ==
    ASSUME TypeOK, CasLocksExact, NEW d \in Digests, NEW k,
           k \in LockedReferrers(d),
           RelockedReferrers(d) = LockedReferrers(d) \ {k},
           \A x \in Digests \ {d} : RelockedReferrers(x) = LockedReferrers(x),
           cas_del_lock(d)
    PROVE  /\ cas_lock_count' \in [Digests -> Nat]
           /\ total_locked_size' \in Nat
           /\ total_locked_size' = SizeOf(LockedDigests')
           /\ \A x \in Digests :
                 cas_lock_count'[x] = Cardinality(RelockedReferrers(x))
<1>1. cas_lock_count' = [cas_lock_count EXCEPT ![d] = @ - 1]
  BY DEF cas_del_lock
<1> DEFINE R == LockedReferrers(d)
<1>2. IsFiniteSet(R) /\ R # {}
  BY FiniteAssumption, FS_Subset DEF LockedReferrers
<1>3. cas_lock_count[d] = Cardinality(R)
  BY DEF CasLocksExact
<1> HIDE DEF R
<1>4. cas_lock_count[d] # 0
  BY <1>2, <1>3, FS_EmptySet
<1>5. cas_lock_count' \in [Digests -> Nat]
  BY <1>1, <1>4 DEF TypeOK
<1>6. ASSUME NEW x \in Digests
      PROVE  cas_lock_count'[x] = Cardinality(RelockedReferrers(x))
  <2> DEFINE A == LockedReferrers(x)
             B == RelockedReferrers(x)
  <2>1. cas_lock_count[x] = Cardinality(A)
    BY DEF CasLocksExact
  <2>2. CASE x = d
    <3>1. IsFiniteSet(A) /\ k \in A /\ B = A \ {k}
      BY <2>2, <1>2 DEF R
    <3> HIDE DEF A, B
    <3>2. Cardinality(B) = Cardinality(A) - 1
      BY <3>1, CountLoss
    <3>3. cas_lock_count'[x] = Cardinality(B)
      BY <3>2, <2>1, <2>2, <1>1 DEF TypeOK
    <3> QED
      BY <3>3 DEF B
  <2>3. CASE x # d
    <3>1. B = A
      BY <2>3
    <3>2. cas_lock_count'[x] = cas_lock_count[x]
      BY <2>3, <1>1 DEF TypeOK
    <3> QED
      BY <3>1, <3>2, <2>1, Zenon
  <2> QED
    BY <2>2, <2>3
<1> DEFINE L == LockedDigests
           M == LockedDigests'
<1>7. L \in SUBSET Digests /\ M \in SUBSET Digests
  BY DEF LockedDigests
<1>8. total_locked_size = SizeOf(L)
  BY DEF CasLocksExact
<1>9. /\ d \in L
      /\ cas_lock_count[d] = 1 => M = L \ {d}
      /\ cas_lock_count[d] # 1 => M = L
  BY <1>1, <1>4 DEF LockedDigests, TypeOK
<1> HIDE DEF L, M
<1>10. total_locked_size' = SizeOf(M)
  <2>1. CASE cas_lock_count[d] = 1
    <3>1. {d} \in SUBSET L
      BY <1>9
    <3>2. SizeOf(L \ {d}) = SizeOf(L) - SizeOf({d})
      BY <3>1, <1>7, SizeDifference
    <3>3. SizeOf({d}) = DeepSize[d]
      BY SizeSingleton
    <3>4. total_locked_size' = total_locked_size - DeepSize[d]
      BY <2>1 DEF cas_del_lock
    <3>5. SizeOf(M) = SizeOf(L) - SizeOf({d})
      BY <3>2, <1>9, <2>1, Zenon
    <3> QED
      BY <3>3, <3>4, <3>5, <1>8
  <2>2. CASE cas_lock_count[d] # 1
    BY <2>2, <1>8, <1>9 DEF cas_del_lock
  <2> QED
    BY <2>1, <2>2
<1>11. total_locked_size' \in Nat
  BY <1>7, <1>10, SizeType
<1> QED
  BY <1>5, <1>6, <1>10, <1>11 DEF M

\* Destroying a lock.
LEMMA UnlockInv ==
    ASSUME IInv, NEW c \in Clients, unlock_record(c)
    PROVE  IInv'
<1>0. PICK k : k = lock[c]
  OBVIOUS
<1> USE DEF IInv
<1>1. /\ k \in Keys
      /\ lock' = [lock EXCEPT ![c] = NoKey]
      /\ ref_count' = [ref_count EXCEPT ![k] = @ - 1]
      /\ lock_count' = [lock_count EXCEPT ![k] = @ - 1]
      /\ ptr' = ptr
  BY <1>0 DEF unlock_record, del_ref_from_cache_record,
              del_lock_from_cache_record, TypeOK
<1>2. Moves(lock, lock', c, NoKey)
  BY <1>0, <1>1, NullAssumption DEF Moves, TypeOK
<1>3. ASSUME NEW x \in Keys
      PROVE  /\ Cardinality(Holders(lock', x)) =
                   IF x = k THEN Cardinality(Holders(lock, x)) - 1
                            ELSE Cardinality(Holders(lock, x))
             /\ Cardinality(Holders(ptr, x)) \in Nat
             /\ Cardinality(Holders(lock, x)) \in Nat
             /\ Cardinality(Holders(lock', x)) \in Nat
  <2>1. x # NoKey
    BY NullAssumption
  <2> QED
    BY <2>1, <1>0, <1>2, HoldersChange, HoldersFinite
<1>4. ASSUME NEW x \in Keys
      PROVE  /\ ref_count[x] = Cardinality(Holders(ptr, x))
                               + Cardinality(Holders(lock, x))
             /\ lock_count[x] = Cardinality(Holders(lock, x))
             /\ ref_count'[x] = IF x = k THEN ref_count[x] - 1 ELSE ref_count[x]
             /\ lock_count'[x] = IF x = k THEN lock_count[x] - 1
                                          ELSE lock_count[x]
  BY <1>1 DEF RefCountsExact, TypeOK
<1>5. RefCountsExact'
  <2> SUFFICES ASSUME NEW x \in Keys
               PROVE  /\ ref_count'[x] = Cardinality(Holders(ptr', x))
                                         + Cardinality(Holders(lock', x))
                      /\ lock_count'[x] = Cardinality(Holders(lock', x))
    BY DEF RefCountsExact, Holders
  <2>1. ptr' = ptr
    BY <1>1
  <2> QED
    BY <2>1, <1>3, <1>4
<1>6. ref_count[k] >= 1 /\ lock_count[k] >= 1
  BY <1>1, <1>3, <1>4
<1>7. /\ ref_count' \in [Keys -> Nat]
      /\ lock_count' \in [Keys -> Nat]
      /\ ptr' \in [Clients -> Keys \cup {NoKey}]
      /\ lock' \in [Clients -> Keys \cup {NoKey}]
  BY <1>1, <1>6 DEF TypeOK
<1>a. task' \in [Keys -> Clients \cup {NoClient}]
  BY DEF unlock_record, TypeOK
<1>8. \A x \in Keys \ records : ref_count'[x] = 0 /\ x # k
  <2> SUFFICES ASSUME NEW x \in Keys \ records
               PROVE  ref_count'[x] = 0 /\ x # k
    OBVIOUS
  <2>1. Holders(ptr, x) = {} /\ Holders(lock, x) = {}
    BY DEF NoDanglingRecord
  <2>2. Cardinality(Holders(ptr, x)) = 0 /\ Cardinality(Holders(lock, x)) = 0
    BY <2>1, FS_EmptySet
  <2> QED
    BY <2>2, <1>4, <1>6
<1>9. /\ cas_lock_count' \in [Digests -> Nat]
      /\ total_locked_size' \in Nat
      /\ total_locked_size' = SizeOf(LockedDigests')
      /\ \A x \in Digests : cas_lock_count'[x] = Cardinality(RelockedReferrers(x))
  <2>1. CASE lock_count[k] = 1 /\ cas_record[k] # NoDigest
    <3>0. PICK d : d = cas_record[k]
      OBVIOUS
    <3>1. d \in Digests /\ cas_del_lock(d)
      BY <3>0, <2>1, <1>0, <1>1
         DEF unlock_record, del_lock_from_cache_record, TypeOK
    <3>2. k \in LockedReferrers(d)
      BY <3>0, <2>1, <1>1 DEF LockedReferrers
    <3>3. RelockedReferrers(d) = LockedReferrers(d) \ {k}
      BY <3>0, <2>1, <1>4 DEF LockedReferrers, RelockedReferrers
    <3>4. \A x \in Digests \ {d} : RelockedReferrers(x) = LockedReferrers(x)
      BY <3>0, <1>4 DEF LockedReferrers, RelockedReferrers
    <3>5. TypeOK /\ CasLocksExact
      OBVIOUS
    <3> HIDE DEF IInv
    <3> QED
      BY <3>1, <3>2, <3>3, <3>4, <3>5, CasLockLoss, Zenon
  <2>2. CASE ~ (lock_count[k] = 1 /\ cas_record[k] # NoDigest)
    <3>1. UNCHANGED <<cas_lock_count, total_locked_size>>
      BY <2>2, <1>0 DEF unlock_record, del_lock_from_cache_record
    <3>2. \A x \in Digests : RelockedReferrers(x) = LockedReferrers(x)
      BY <1>4, <1>6, <2>2, NullAssumption
         DEF LockedReferrers, RelockedReferrers, TypeOK
    <3> QED
      BY <3>1, <3>2 DEF CasLocksExact, LockedDigests, TypeOK
  <2> QED
    BY <2>1, <2>2
<1>10. CASE ref_count[k] = 1
  <2> DEFINE list == Append(eviction_list, k)
  <2>1. reduce_memory_cache_size_impl(list, total_locked_size', UnusedSizeLimit)
    BY <1>0, <1>10 DEF unlock_record, del_ref_from_cache_record
  <2>2. k \notin ToSet(eviction_list) /\ k \in records
    BY <1>1, <1>8, <1>10 DEF EvictionListExact
  <2>3. /\ list \in Seq(Keys)
        /\ IsInjective(list)
        /\ ToSet(list) = ToSet(eviction_list) \cup {k}
    BY <1>1, <2>2, ListAppend DEF TypeOK, EvictionListExact
  <2>4. ToSet(list) = {x \in records : ref_count'[x] = 0}
    BY <1>4, <1>10, <2>2, <2>3 DEF EvictionListExact, TypeOK
  <2>5. \A d \in Digests : cas_lock_count'[d] =
              Cardinality({x \in Keys : cas_record[x] = d /\ lock_count'[x] > 0})
    BY <1>9 DEF RelockedReferrers
  <2>6. total_locked_size' = SizeOf(LockedDigests')
        /\ total_locked_size' \in Nat
        /\ cas_lock_count' \in [Digests -> Nat]
    BY <1>9
  <2>7. /\ UnusedSizeLimit <= UnusedSizeLimit
        /\ UnusedSizeLimit \in Nat
        /\ \A x \in Keys \ records : ref_count'[x] = 0
    BY SizeAssumption, <1>8
  <2> HIDE DEF list, IInv
  <2>8. TypeOK /\ NoDanglingRecord /\ ReadyHasValue /\ CasRefsExact
    BY DEF IInv
  <2> QED
    BY <1>5, <1>7, <1>a, <2>1, <2>3, <2>4, <2>5, <2>6, <2>7, <2>8,
       ReduceInv, Zenon
<1>11. CASE ref_count[k] # 1
  <2>1. UNCHANGED <<records, eviction_list, state, cas_record, cas_ref_count,
                    cas_map, total_size>>
    BY <1>0, <1>11 DEF unlock_record, del_ref_from_cache_record
  <2>2. TypeOK'
    BY <2>1, <1>7, <1>a, <1>9 DEF TypeOK
  <2>3. \A x \in Keys : ref_count'[x] = 0 <=> ref_count[x] = 0
    BY <1>4, <1>6, <1>11 DEF TypeOK
  <2>4. EvictionListExact'
    BY <2>1, <2>3 DEF EvictionListExact, TypeOK
  <2>5. NoDanglingRecord'
    <3> SUFFICES ASSUME NEW x \in Keys \ records
                 PROVE  /\ Holders(ptr', x) = {} /\ Holders(lock', x) = {}
                        /\ state'[x] = "LOADING"
      BY <2>1 DEF NoDanglingRecord, Holders
    <3>1. Holders(ptr, x) = {} /\ Holders(lock, x) = {} /\ state[x] = "LOADING"
      BY DEF NoDanglingRecord
    <3>2. Holders(lock', x) = {}
      BY <3>1, <1>1, NullAssumption DEF Holders, TypeOK
    <3> QED
      BY <3>1, <3>2, <2>1, <1>1
  <2>6. ReadyHasValue' /\ CasRefsExact'
    BY <2>1 DEF ReadyHasValue, CasRefsExact, Referrers
  <2>7. CasLocksExact'
    <3>1. \A x \in Digests : LockedReferrers(x)' = RelockedReferrers(x)
      BY <2>1 DEF LockedReferrers, RelockedReferrers
    <3> QED
      BY <3>1, <1>9 DEF CasLocksExact
  <2>8. UnusedDigests' \subseteq UnusedDigests
    BY <2>1, <2>3 DEF UnusedDigests, Referrers
  <2>9. UnusedWithinLimit'
    BY <2>8, UnusedShrinks
  <2> QED
    BY <1>5, <2>2, <2>4, <2>5, <2>6, <2>7, <2>9
<1> QED
  BY <1>10, <1>11

-----------------------------------------------------------------------------
(* The theorems.                                                           *)

\* The invariant is inductive, so it holds in every reachable state.
THEOREM Invariance == Spec => []IInv
<1>1. Init => IInv
  BY InitInv
<1>2. IInv /\ [Next]_vars => IInv'
  <2> SUFFICES ASSUME IInv, [Next]_vars
               PROVE  IInv'
    OBVIOUS
  <2>1. CASE UNCHANGED vars
    <3> USE <2>1 DEF IInv, vars, ac_vars, cas_vars, client_vars
    <3>0. TypeOK' /\ EvictionListExact'
      BY DEF TypeOK, EvictionListExact
    <3>1. RefCountsExact' /\ NoDanglingRecord'
      BY DEF RefCountsExact, NoDanglingRecord, Holders
    <3>2. ReadyHasValue' /\ CasRefsExact'
      BY DEF ReadyHasValue, CasRefsExact, Referrers
    <3>3. CasLocksExact'
      BY DEF CasLocksExact, LockedReferrers, LockedDigests
    <3>4. UnusedWithinLimit'
      BY DEF UnusedWithinLimit, UnusedDigests, Referrers
    <3> QED
      BY <3>0, <3>1, <3>2, <3>3, <3>4
  <2>2. ASSUME NEW c \in Clients, NEW k \in Keys, acquire_cache_record(c, k)
        PROVE  IInv'
    BY <2>2, AcquireInv
  <2>3. ASSUME NEW c \in Clients, release_ptr(c)
        PROVE  IInv'
    BY <2>3, ReleaseInv
  <2>4. ASSUME NEW c \in Clients, lock_record(c)
        PROVE  IInv'
    BY <2>4, LockInv
  <2>5. ASSUME NEW c \in Clients, unlock_record(c)
        PROVE  IInv'
    BY <2>5, UnlockInv
  <2>6. ASSUME NEW c \in Clients, NEW d \in Digests, record_value_untyped(c, d)
        PROVE  IInv'
    BY <2>6, ValueInv
  <2>7. ASSUME NEW c \in Clients, record_failure(c)
        PROVE  IInv'
    BY <2>7, FailureInv
  <2>8. CASE clear_unused_entries
    BY <2>8, ClearInv
  <2> QED
    BY <2>1, <2>2, <2>3, <2>4, <2>5, <2>6, <2>7, <2>8 DEF Next
<1> QED
  BY <1>1, <1>2, PTL DEF Spec

\* Every variable keeps its type; in particular no count or total that the
\* code keeps in an int or a size_t becomes negative.
THEOREM TypeCorrect == Spec => []TypeOK
<1>1. IInv => TypeOK
  BY DEF IInv
<1> QED
  BY <1>1, Invariance, PTL

\* Reference counts are exact and the eviction list has exactly the unused
\* records, so no ptr or lock ever refers to an evicted record.
THEOREM NoUseAfterEviction ==
    Spec => [](RefCountsExact /\ EvictionListExact /\ NoDanglingRecord)
<1>1. IInv => RefCountsExact /\ EvictionListExact /\ NoDanglingRecord
  BY DEF IInv
<1> QED
  BY <1>1, Invariance, PTL

\* A READY record's value is in the CAS, and the CAS counts and sizes are
\* those of the AC records.
THEOREM CasExact == Spec => [](ReadyHasValue /\ CasRefsExact /\ CasLocksExact)
<1>1. IInv => ReadyHasValue /\ CasRefsExact /\ CasLocksExact
  BY DEF IInv
<1> QED
  BY <1>1, Invariance, PTL

\* Values that nobody uses take no more memory than the configured limit.
THEOREM LimitRespected == Spec => []UnusedWithinLimit
<1>1. IInv => UnusedWithinLimit
  BY DEF IInv
<1> QED
  BY <1>1, Invariance, PTL

\* Records that an eviction leaves in the cache are left as they are.
LEMMA ReduceKeeps ==
    ASSUME NEW list, NEW locked_size, NEW desired_size,
           reduce_memory_cache_size_impl(list, locked_size, desired_size),
           NEW k \in Keys, k \in records'
    PROVE  state'[k] = state[k] /\ cas_record'[k] = cas_record[k]
BY DEF reduce_memory_cache_size_impl

\* A client that keeps its ptr or lock on a READY record keeps the value,
\* whatever step is taken.
THEOREM HeldValueStable == Spec => HeldValueIsStable
<1>1. IInv /\ IInv' /\ [Next]_vars => [HeldValueUnchanged]_vars
  <2> SUFFICES ASSUME IInv, IInv', Next,
                      NEW c \in Clients, NEW k \in Keys, state[k] = "READY",
                      \/ ptr[c] = k /\ ptr'[c] = k
                      \/ lock[c] = k /\ lock'[c] = k
               PROVE  /\ k \in records'
                      /\ state'[k] = "READY"
                      /\ cas_record'[k] = cas_record[k]
    BY DEF HeldValueUnchanged
  <2>1. k \in records'
    BY DEF IInv, NoDanglingRecord, Holders
  <2>a. k \in records
    BY DEF IInv, NoDanglingRecord, Holders
  <2> SUFFICES state'[k] = state[k] /\ cas_record'[k] = cas_record[k]
    BY <2>1
  <2>2. ASSUME NEW e \in Clients, NEW x \in Keys, acquire_cache_record(e, x)
        PROVE  state'[k] = state[k] /\ cas_record'[k] = cas_record[k]
    <3>1. cas_record' = cas_record
      BY <2>2 DEF acquire_cache_record
    <3>2. k = x => ~ NeedsTask(x)
      BY <2>a DEF NeedsTask
    <3>3. state'[k] = state[k]
      BY <2>2, <3>2 DEF acquire_cache_record, IInv, TypeOK
    <3> QED
      BY <3>1, <3>3
  <2>3. ASSUME NEW e \in Clients, release_ptr(e)
        PROVE  state'[k] = state[k] /\ cas_record'[k] = cas_record[k]
    BY <2>3, <2>1, ReduceKeeps DEF release_ptr, del_ref_from_cache_record
  <2>4. ASSUME NEW e \in Clients, lock_record(e)
        PROVE  state'[k] = state[k] /\ cas_record'[k] = cas_record[k]
    BY <2>4 DEF lock_record
  <2>5. ASSUME NEW e \in Clients, unlock_record(e)
        PROVE  state'[k] = state[k] /\ cas_record'[k] = cas_record[k]
    BY <2>5, <2>1, ReduceKeeps DEF unlock_record, del_ref_from_cache_record
  <2>6. ASSUME NEW e \in Clients, NEW d \in Digests, record_value_untyped(e, d)
        PROVE  state'[k] = state[k] /\ cas_record'[k] = cas_record[k]
    BY <2>6 DEF record_value_untyped, IInv, TypeOK
  <2>7. ASSUME NEW e \in Clients, record_failure(e)
        PROVE  state'[k] = state[k] /\ cas_record'[k] = cas_record[k]
    BY <2>7 DEF record_failure, IInv, TypeOK
  <2>8. CASE clear_unused_entries
    BY <2>8, <2>1, ReduceKeeps DEF clear_unused_entries
  <2> QED
    BY <2>2, <2>3, <2>4, <2>5, <2>6, <2>7, <2>8 DEF Next
<1> QED
  BY <1>1, Invariance, PTL DEF Spec, HeldValueIsStable

=============================================================================
