-------------------------- MODULE DiskCacheProofs --------------------------
(***************************************************************************)
(* Proofs about the disk cache: its tables stay consistent, its size near  *)
(* the limit, and reads return the right value or none, for any number of  *)
(* keys, values, threads and restarts.                                     *)
(***************************************************************************)
EXTENDS DiskCache, FiniteSetTheorems, NaturalsInduction, WellFoundedInduction, TLAPS

-----------------------------------------------------------------------------
(* Numbers.                                                                *)

\* Some natural number is the least of a nonempty set of them.
LEMMA LeastElement ==
    ASSUME NEW S \in SUBSET Nat, S # {}
    PROVE  \E n \in S : \A m \in S : n <= m
<1> DEFINE Less == {p \in Nat \X Nat : p[1] < p[2]}
<1>1. IsWellFoundedOn(Less, Nat)
  BY NatLessThanWellFounded, Zenon DEF OpToRel
<1> HIDE DEF Less
<1>2. PICK n \in S : \A m \in S : <<m, n>> \notin Less
  BY <1>1, WFMin
<1>3. ASSUME NEW m \in S PROVE n <= m
  <2>1. <<m, n>> \in Less <=> m < n
    BY DEF Less
  <2> QED
    BY <1>2, <2>1
<1> QED
  BY <1>3

\* A set of numbers up to a bound that is closed under successors has them all.
LEMMA UpTo ==
    ASSUME NEW N \in Nat, NEW G \in SUBSET (0 .. N), 0 \in G,
           \A i \in G : i < N => i + 1 \in G
    PROVE  G = 0 .. N
<1> SUFFICES ASSUME (0 .. N) \ G # {} PROVE FALSE
  OBVIOUS
<1>1. PICK B : B = (0 .. N) \ G
  OBVIOUS
<1>2. PICK n \in B : \A m \in B : n <= m
  BY <1>1, LeastElement
<1>3. n - 1 \in G
  BY <1>1, <1>2
<1> QED
  BY <1>1, <1>2, <1>3

\* A new row gets an id that is not in use.
LEMMA NewIdFacts ==
    ASSUME NEW used \in SUBSET Ids
    PROVE  /\ NewId(used) \in Nat /\ NewId(used) >= 1 /\ NewId(used) \notin used
           /\ NewId(used) <= MaxIds => NewId(used) \in Ids
<1>1. MaxIds \in Nat /\ Ids = 1 .. MaxIds
  BY DiskAssumption DEF Ids
<1>2. PICK S : S = used \cup {0}
  OBVIOUS
<1>3. S \in SUBSET Nat /\ S # {} /\ \A n \in S : n <= MaxIds
  BY <1>1, <1>2
<1>4. PICK D : D = {MaxIds - n : n \in S}
  OBVIOUS
<1>5. D \in SUBSET Nat /\ D # {}
  <2>1. \A n \in S : MaxIds - n \in Nat
    BY <1>1, <1>3
  <2> QED
    BY <1>3, <1>4, <2>1
<1>6. PICK d \in D : \A e \in D : d <= e
  BY <1>5, LeastElement
<1>7. PICK x \in S : d = MaxIds - x
  BY <1>4
<1>8. ASSUME NEW y \in S PROVE x >= y
  <2>1. MaxIds - y \in D
    BY <1>4
  <2> QED
    BY <1>1, <1>3, <1>6, <1>7, <2>1
<1>9. Max(S) \in S /\ \A y \in S : Max(S) >= y
  BY <1>8 DEF Max
<1>10. NewId(used) = Max(S) + 1
  BY <1>2 DEF NewId
<1>11. Max(S) \in Nat
  BY <1>3, <1>9
<1>12. NewId(used) \in Nat /\ NewId(used) >= 1
  BY <1>10, <1>11
<1>13. \A y \in S : y \in Nat /\ NewId(used) > y
  BY <1>3, <1>9, <1>10, <1>11
<1>14. NewId(used) \notin used
  BY <1>2, <1>12, <1>13
<1>15. NewId(used) <= MaxIds => NewId(used) \in Ids
  BY <1>1, <1>12
<1> QED
  BY <1>12, <1>14, <1>15

-----------------------------------------------------------------------------
(* Sequences of rows.                                                      *)

\* The rows of a sequence, and that no two of them have the same key.
RowsOf(s) == {s[i] : i \in 1 .. Len(s)}
Distinct(s) == \A i, j \in 1 .. Len(s) : s[i].key = s[j].key => i = j

\* A row is added at the end.
LEMMA AppendRow ==
    ASSUME NEW s \in Seq(ActionRows), NEW a \in ActionRows
    PROVE  /\ Append(s, a) \in Seq(ActionRows) /\ RowsOf(Append(s, a)) = RowsOf(s) \cup {a}
           /\ Distinct(s) /\ (\A b \in RowsOf(s) : b.key # a.key) => Distinct(Append(s, a))
<1>1. /\ Append(s, a) \in Seq(ActionRows) /\ Len(Append(s, a)) = Len(s) + 1 /\ Len(s) \in Nat
      /\ Append(s, a)[Len(s) + 1] = a /\ \A i \in 1 .. Len(s) : Append(s, a)[i] = s[i]
  OBVIOUS
<1>2. \A i \in 1 .. Len(s) + 1 : i = Len(s) + 1 \/ i \in 1 .. Len(s)
  BY <1>1
<1>3. \A i \in 1 .. Len(s) : i \in 1 .. Len(s) + 1
  BY <1>1
<1>4. Len(s) + 1 \in 1 .. Len(s) + 1
  BY <1>1
<1>5. ASSUME NEW b \in RowsOf(Append(s, a)) PROVE b \in RowsOf(s) \cup {a}
  BY <1>1, <1>2 DEF RowsOf
<1>6. ASSUME NEW b \in RowsOf(s) \cup {a} PROVE b \in RowsOf(Append(s, a))
  BY <1>1, <1>3, <1>4 DEF RowsOf
<1>7. ASSUME Distinct(s), \A b \in RowsOf(s) : b.key # a.key PROVE Distinct(Append(s, a))
  <2>1. \A i \in 1 .. Len(s) : s[i].key # a.key
    BY <1>7 DEF RowsOf
  <2> QED
    BY <1>1, <1>2, <1>7, <2>1 DEF Distinct
<1> QED
  BY <1>1, <1>5, <1>6, <1>7

\* Two sequences of rows are put together.
LEMMA JoinRows ==
    ASSUME NEW s \in Seq(ActionRows), NEW t \in Seq(ActionRows)
    PROVE  /\ s \o t \in Seq(ActionRows) /\ RowsOf(s \o t) = RowsOf(s) \cup RowsOf(t)
           /\ (Distinct(s) /\ Distinct(t) /\ \A a \in RowsOf(s), b \in RowsOf(t) : a.key # b.key)
                 => Distinct(s \o t)
<1>1. /\ s \o t \in Seq(ActionRows) /\ Len(s \o t) = Len(s) + Len(t) /\ Len(s) \in Nat /\ Len(t) \in Nat
      /\ \A i \in 1 .. Len(s) : (s \o t)[i] = s[i]
  OBVIOUS
<1>2. ASSUME NEW i \in 1 .. Len(t) PROVE (s \o t)[Len(s) + i] = t[i] /\ Len(s) + i \in 1 .. Len(s \o t)
  BY <1>1
<1>3. ASSUME NEW i \in 1 .. Len(s \o t), i \notin 1 .. Len(s)
      PROVE  i - Len(s) \in 1 .. Len(t) /\ (s \o t)[i] = t[i - Len(s)] /\ i = Len(s) + (i - Len(s))
  BY <1>1, <1>3
<1>4. ASSUME NEW b \in RowsOf(s \o t) PROVE b \in RowsOf(s) \cup RowsOf(t)
  <2>1. PICK i \in 1 .. Len(s \o t) : b = (s \o t)[i]
    BY DEF RowsOf
  <2>2. CASE i \in 1 .. Len(s)
    BY <1>1, <2>1, <2>2 DEF RowsOf
  <2>3. CASE i \notin 1 .. Len(s)
    BY <1>3, <2>1, <2>3 DEF RowsOf
  <2> QED
    BY <2>2, <2>3
<1>5. ASSUME NEW b \in RowsOf(s) \cup RowsOf(t) PROVE b \in RowsOf(s \o t)
  <2>1. CASE b \in RowsOf(s)
    <3>1. PICK i \in 1 .. Len(s) : b = s[i]
      BY <2>1 DEF RowsOf
    <3>2. i \in 1 .. Len(s \o t)
      BY <1>1
    <3> QED
      BY <1>1, <3>1, <3>2 DEF RowsOf
  <2>2. CASE b \in RowsOf(t)
    BY <1>2, <2>2 DEF RowsOf
  <2> QED
    BY <2>1, <2>2
<1>6. ASSUME Distinct(s), Distinct(t), \A a \in RowsOf(s), b \in RowsOf(t) : a.key # b.key,
             NEW i \in 1 .. Len(s \o t), NEW j \in 1 .. Len(s \o t),
             (s \o t)[i].key = (s \o t)[j].key
      PROVE  i = j
  <2>1. CASE i \in 1 .. Len(s) /\ j \in 1 .. Len(s)
    BY <1>1, <1>6, <2>1 DEF Distinct
  <2>2. CASE i \in 1 .. Len(s) /\ j \notin 1 .. Len(s)
    BY <1>1, <1>3, <1>6, <2>2 DEF RowsOf
  <2>3. CASE i \notin 1 .. Len(s) /\ j \in 1 .. Len(s)
    BY <1>1, <1>3, <1>6, <2>3 DEF RowsOf
  <2>4. CASE i \notin 1 .. Len(s) /\ j \notin 1 .. Len(s)
    <3>1. i - Len(s) = j - Len(s)
      BY <1>3, <1>6, <2>4 DEF Distinct
    <3> QED
      BY <1>1, <3>1
  <2> QED
    BY <2>1, <2>2, <2>3, <2>4
<1>7. (Distinct(s) /\ Distinct(t) /\ \A a \in RowsOf(s), b \in RowsOf(t) : a.key # b.key)
         => Distinct(s \o t)
  BY <1>6 DEF Distinct
<1> QED
  BY <1>1, <1>4, <1>5, <1>7

\* The rows from some row on.
LEMMA LastRows ==
    ASSUME NEW s \in Seq(ActionRows), NEW n \in 0 .. Len(s)
    PROVE  /\ SubSeq(s, n + 1, Len(s)) \in Seq(ActionRows)
           /\ RowsOf(SubSeq(s, n + 1, Len(s))) \subseteq RowsOf(s)
           /\ Distinct(s) => Distinct(SubSeq(s, n + 1, Len(s)))
           /\ n = 0 => SubSeq(s, n + 1, Len(s)) = s
           /\ n = Len(s) => SubSeq(s, n + 1, Len(s)) = <<>>
<1>1. Len(s) \in Nat /\ n \in Nat /\ n <= Len(s)
  OBVIOUS
<1>2. PICK t : t = SubSeq(s, n + 1, Len(s))
  OBVIOUS
<1>3. t \in Seq(ActionRows) /\ Len(t) = Len(s) - n /\ \A i \in 1 .. Len(t) : t[i] = s[n + i]
  BY <1>1, <1>2
<1>4. \A i \in 1 .. Len(t) : n + i \in 1 .. Len(s)
  BY <1>1, <1>3
<1>5. RowsOf(t) \subseteq RowsOf(s)
  BY <1>3, <1>4 DEF RowsOf
<1>6. ASSUME Distinct(s), NEW i \in 1 .. Len(t), NEW j \in 1 .. Len(t), t[i].key = t[j].key PROVE i = j
  <2>1. n + i = n + j
    BY <1>3, <1>4, <1>6 DEF Distinct
  <2> QED
    BY <1>1, <1>3, <2>1
<1>7. n = 0 => t = s
  BY <1>1, <1>2
<1>8. n = Len(s) => t = <<>>
  BY <1>1, <1>2
<1> QED
  BY <1>2, <1>3, <1>5, <1>6, <1>7, <1>8 DEF Distinct

\* What follows the prefix of length i of s, when f says what is kept of the shorter ones.
KeptStep(s, R, f, i) == IF i = 0 THEN <<>>
                        ELSE IF s[i] \in R THEN Append(f[i - 1], s[i])
                        ELSE f[i - 1]

\* The recursive function of Filtered exists, up to every prefix.
LEMMA KeptExists ==
    ASSUME NEW s \in Seq(ActionRows), NEW R
    PROVE  \E f : f = [i \in 0 .. Len(s) |-> KeptStep(s, R, f, i)]
<1> DEFINE N == Len(s)
           P(n) == \E f : f = [i \in 0 .. n |-> KeptStep(s, R, f, i)]
           G == {n \in 0 .. N : P(n)}
<1>1. N \in Nat
  OBVIOUS
<1>2. 0 \in G
  <2>1. PICK f : f = [i \in 0 .. 0 |-> <<>>]
    OBVIOUS
  <2>2. f = [i \in 0 .. 0 |-> KeptStep(s, R, f, i)]
    BY <2>1 DEF KeptStep
  <2> QED
    BY <1>1, <2>2
<1>3. ASSUME NEW n \in G, n < N
      PROVE  n + 1 \in G
  <2>1. PICK f : f = [i \in 0 .. n |-> KeptStep(s, R, f, i)]
    OBVIOUS
  <2>2. PICK g : g = [i \in 0 .. (n + 1) |-> KeptStep(s, R, f, i)]
    OBVIOUS
  <2>3. \A i \in 0 .. n : g[i] = f[i]
    <3> TAKE i \in 0 .. n
    <3>1. f[i] = KeptStep(s, R, f, i)
      BY ONLY <2>1
    <3>2. i \in 0 .. (n + 1)
      BY <1>1, <1>3
    <3>3. g[i] = KeptStep(s, R, f, i)
      BY ONLY <2>2, <3>2
    <3> QED
      BY <3>1, <3>3
  <2>4. \A i \in 0 .. (n + 1) : KeptStep(s, R, f, i) = KeptStep(s, R, g, i)
    BY <2>3, <1>1, <1>3 DEF KeptStep
  <2>5. g = [i \in 0 .. (n + 1) |-> KeptStep(s, R, g, i)]
    BY <2>2, <2>4
  <2> QED
    BY <1>1, <1>3, <2>5
<1> HIDE DEF P
<1>4. G = 0 .. N
  BY <1>1, <1>2, <1>3, UpTo
<1>5. P(N)
  BY <1>1, <1>4
<1> QED
  BY <1>5 DEF P

\* Filtered keeps the rows that are in a set.
LEMMA FilteredFacts ==
    ASSUME NEW s \in Seq(ActionRows), NEW R, Distinct(s)
    PROVE  /\ Filtered(s, R) \in Seq(ActionRows) /\ Distinct(Filtered(s, R))
           /\ RowsOf(Filtered(s, R)) = RowsOf(s) \cap R
<1> DEFINE N == Len(s)
           Eq(f) == f = [i \in 0 .. N |-> KeptStep(s, R, f, i)]
<1>1. \E f : Eq(f)
  BY KeptExists
<1>2. PICK kept : Eq(kept) /\ Filtered(s, R) = kept[N]
  <2>1. Eq(CHOOSE f : Eq(f))
    BY ONLY <1>1
  <2>2. Filtered(s, R) = (CHOOSE f : Eq(f))[N]
    BY DEF Filtered, KeptStep
  <2> QED
    BY ONLY <2>1, <2>2
<1> DEFINE Right(n) == /\ kept[n] \in Seq(ActionRows) /\ Distinct(kept[n])
                       /\ RowsOf(kept[n]) = {s[i] : i \in 1 .. n} \cap R
           G == {n \in 0 .. N : Right(n)}
<1>3. N \in Nat /\ DOMAIN s = 1 .. N /\ \A i \in 1 .. N : s[i] \in ActionRows
  OBVIOUS
<1>4. \A n \in 0 .. N : kept[n] = KeptStep(s, R, kept, n)
  BY ONLY <1>2
<1> HIDE DEF Eq
<1>5. 0 \in G
  <2>1. kept[0] = <<>>
    BY <1>3, <1>4 DEF KeptStep
  <2>2. <<>> \in Seq(ActionRows) /\ Distinct(<<>>) /\ RowsOf(<<>>) = {}
    BY DEF Distinct, RowsOf
  <2>3. {s[i] : i \in 1 .. 0} = {}
    OBVIOUS
  <2>4. Right(0)
    BY <2>1, <2>2, <2>3
  <2> QED
    BY <1>3, <2>4
<1>6. ASSUME NEW n \in G, n < N
      PROVE  n + 1 \in G
  <2>1. n \in Nat /\ n + 1 \in 0 .. N /\ n + 1 \in 1 .. N /\ s[n + 1] \in ActionRows
    BY <1>3, <1>6
  <2>2. Right(n)
    BY <1>6
  <2>3. kept[n + 1] = IF s[n + 1] \in R THEN Append(kept[n], s[n + 1]) ELSE kept[n]
    BY <1>4, <2>1 DEF KeptStep
  <2>4. {s[i] : i \in 1 .. n + 1} = {s[i] : i \in 1 .. n} \cup {s[n + 1]}
    <3>1. \A i : i \in 1 .. n + 1 <=> i \in 1 .. n \/ i = n + 1
      BY <2>1
    <3> QED
      BY <3>1
  <2>5. CASE s[n + 1] \notin R
    <3>1. Right(n + 1)
      BY <2>2, <2>3, <2>4, <2>5
    <3> QED
      BY <2>1, <3>1
  <2>6. CASE s[n + 1] \in R
    <3>1. ASSUME NEW b \in RowsOf(kept[n]) PROVE b.key # s[n + 1].key
      <4>1. PICK i \in 1 .. n : b = s[i]
        BY <2>2
      <4>2. i \in 1 .. N /\ i # n + 1
        BY <1>3, <2>1
      <4> QED
        BY <2>1, <4>1, <4>2 DEF Distinct
    <3>2. /\ kept[n + 1] \in Seq(ActionRows) /\ Distinct(kept[n + 1])
          /\ RowsOf(kept[n + 1]) = RowsOf(kept[n]) \cup {s[n + 1]}
      BY <2>1, <2>2, <2>3, <2>6, <3>1, AppendRow
    <3>3. Right(n + 1)
      BY <2>2, <2>4, <2>6, <3>2
    <3> QED
      BY <2>1, <3>3
  <2> QED
    BY <2>5, <2>6
<1> HIDE DEF Right
<1>7. G = 0 .. N
  BY <1>3, <1>5, <1>6, UpTo
<1>8. Right(N)
  BY <1>3, <1>7
<1> QED
  BY <1>2, <1>3, <1>8 DEF Right, RowsOf

\* A use of a row changes the order of the rows only.
LEMMA UsedLastFacts ==
    ASSUME NEW s \in Seq(ActionRows), NEW id, Distinct(s)
    PROVE  /\ UsedLast(s, id) \in Seq(ActionRows) /\ Distinct(UsedLast(s, id))
           /\ RowsOf(UsedLast(s, id)) = RowsOf(s)
<1>1. PICK t, u : /\ t = Filtered(s, {a \in ActionRows : a.ac_id # id})
                  /\ u = Filtered(s, {a \in ActionRows : a.ac_id = id})
  OBVIOUS
<1>2. /\ t \in Seq(ActionRows) /\ Distinct(t)
      /\ RowsOf(t) = RowsOf(s) \cap {a \in ActionRows : a.ac_id # id}
  BY <1>1, FilteredFacts
<1>3. /\ u \in Seq(ActionRows) /\ Distinct(u)
      /\ RowsOf(u) = RowsOf(s) \cap {a \in ActionRows : a.ac_id = id}
  BY <1>1, FilteredFacts
<1>4. RowsOf(s) \subseteq ActionRows
  BY DEF RowsOf
<1>5. ASSUME NEW a \in RowsOf(t), NEW b \in RowsOf(u) PROVE a.key # b.key
  <2>1. a \in RowsOf(s) /\ b \in RowsOf(s) /\ a # b
    BY <1>2, <1>3
  <2> QED
    BY <2>1 DEF Distinct, RowsOf
<1>6. UsedLast(s, id) = t \o u
  BY <1>1 DEF UsedLast
<1>7. RowsOf(t) \cup RowsOf(u) = RowsOf(s)
  BY <1>2, <1>3, <1>4
<1> QED
  BY <1>2, <1>3, <1>5, <1>6, <1>7, JoinRows

\* What is used after the first i rows, when f says it for fewer.
UseStep(s, q, f, i) == IF i = 0 THEN s ELSE UsedLast(f[i - 1], q[i])

\* Flushing the uses changes the order of the rows only.
LEMMA FlushedFacts ==
    ASSUME actions \in Seq(ActionRows), to_flush \in Seq(Ids), Distinct(actions)
    PROVE  /\ Flushed \in Seq(ActionRows) /\ Distinct(Flushed)
           /\ RowsOf(Flushed) = RowsOf(actions)
<1>1. PICK s, q : s = actions /\ q = to_flush
  OBVIOUS
<1> DEFINE N == Len(q)
           Eq(f) == f = [i \in 0 .. N |-> UseStep(s, q, f, i)]
           P(n) == \E f : f = [i \in 0 .. n |-> UseStep(s, q, f, i)]
           E == {n \in 0 .. N : P(n)}
<1>2. N \in Nat
  BY <1>1
<1>3. 0 \in E
  <2>1. PICK f : f = [i \in 0 .. 0 |-> s]
    OBVIOUS
  <2>2. f = [i \in 0 .. 0 |-> UseStep(s, q, f, i)]
    BY <2>1 DEF UseStep
  <2> QED
    BY <1>2, <2>2
<1>4. ASSUME NEW n \in E, n < N
      PROVE  n + 1 \in E
  <2>1. PICK f : f = [i \in 0 .. n |-> UseStep(s, q, f, i)]
    OBVIOUS
  <2>2. PICK g : g = [i \in 0 .. (n + 1) |-> UseStep(s, q, f, i)]
    OBVIOUS
  <2>3. \A i \in 0 .. n : g[i] = f[i]
    <3> TAKE i \in 0 .. n
    <3>1. f[i] = UseStep(s, q, f, i)
      BY ONLY <2>1
    <3>2. i \in 0 .. (n + 1)
      BY <1>2, <1>4
    <3>3. g[i] = UseStep(s, q, f, i)
      BY ONLY <2>2, <3>2
    <3> QED
      BY <3>1, <3>3
  <2>4. \A i \in 0 .. (n + 1) : UseStep(s, q, f, i) = UseStep(s, q, g, i)
    BY <2>3, <1>2, <1>4 DEF UseStep
  <2>5. g = [i \in 0 .. (n + 1) |-> UseStep(s, q, g, i)]
    BY <2>2, <2>4
  <2> QED
    BY <1>2, <1>4, <2>5
<1> HIDE DEF P
<1>5. E = 0 .. N
  BY <1>2, <1>3, <1>4, UpTo
<1>6. \E f : Eq(f)
  BY <1>2, <1>5 DEF P
<1>7. PICK used : Eq(used) /\ Flushed = used[N]
  <2>1. Eq(CHOOSE f : Eq(f))
    BY ONLY <1>6
  <2>2. Flushed = (CHOOSE f : Eq(f))[N]
    BY <1>1 DEF Flushed, UseStep
  <2> QED
    BY ONLY <2>1, <2>2
<1> DEFINE Right(n) == /\ used[n] \in Seq(ActionRows) /\ Distinct(used[n])
                       /\ RowsOf(used[n]) = RowsOf(s)
           G == {n \in 0 .. N : Right(n)}
<1>8. \A n \in 0 .. N : used[n] = UseStep(s, q, used, n)
  BY ONLY <1>7
<1> HIDE DEF Eq
<1>9. 0 \in G
  <2>1. used[0] = s
    BY <1>2, <1>8 DEF UseStep
  <2> QED
    BY <1>1, <1>2, <2>1
<1>10. ASSUME NEW n \in G, n < N
       PROVE  n + 1 \in G
  <2>1. n \in Nat /\ n + 1 \in 0 .. N /\ n + 1 # 0 /\ (n + 1) - 1 = n
    BY <1>2, <1>10
  <2>2. used[n + 1] = UsedLast(used[n], q[n + 1])
    BY <1>8, <2>1 DEF UseStep
  <2>3. Right(n)
    BY <1>10
  <2>4. Right(n + 1)
    BY <2>2, <2>3, UsedLastFacts
  <2> QED
    BY <2>1, <2>4
<1> HIDE DEF Right
<1>11. G = 0 .. N
  BY <1>2, <1>9, <1>10, UpTo
<1>12. Right(N)
  BY <1>2, <1>11
<1> QED
  BY <1>1, <1>7, <1>12 DEF Right

-----------------------------------------------------------------------------
(* Sizes.                                                                  *)

\* The size of a set of rows is a number; rows that go away do not add to it.
LEMMA SizeFacts ==
    ASSUME NEW c, NEW S, IsFiniteSet(S), \A i \in S : RowSize(c[i]) \in Nat,
           NEW T \in SUBSET S
    PROVE  /\ IsFiniteSet(Cells(c, S)) /\ SizeOfRows(c, S) \in Nat
           /\ SizeOfRows(c, T) \in Nat /\ SizeOfRows(c, T) <= SizeOfRows(c, S)
           /\ T = {} => SizeOfRows(c, T) = 0
<1>1. PICK f : f = [i \in S |-> {i} \X (1 .. RowSize(c[i]))]
  OBVIOUS
<1>2. PICK R : R = {{i} \X (1 .. RowSize(c[i])) : i \in S}
  OBVIOUS
<1>3. f \in Surjection(S, R)
  <2>1. \A i \in S : f[i] \in R
    BY <1>1, <1>2
  <2>2. \A r \in R : \E i \in S : f[i] = r
    BY <1>1, <1>2
  <2> QED
    BY <1>1, <2>1, <2>2 DEF Surjection
<1>4. IsFiniteSet(R)
  BY <1>3, FS_Surjection
<1>5. ASSUME NEW r \in R PROVE IsFiniteSet(r)
  <2>1. PICK i \in S : r = {i} \X (1 .. RowSize(c[i]))
    BY <1>2
  <2>2. IsFiniteSet({i})
    BY FS_Singleton
  <2>3. IsFiniteSet(1 .. RowSize(c[i]))
    BY FS_Interval
  <2> QED
    BY <2>1, <2>2, <2>3, FS_Product
<1>6. IsFiniteSet(UNION R)
  BY <1>4, <1>5, FS_UNION
<1>7. Cells(c, S) = UNION R
  BY <1>2 DEF Cells
<1>8. Cells(c, T) \subseteq Cells(c, S)
  BY DEF Cells
<1>9. /\ IsFiniteSet(Cells(c, T)) /\ Cardinality(Cells(c, T)) <= Cardinality(Cells(c, S))
  BY <1>6, <1>7, <1>8, FS_Subset
<1>10. T = {} => Cells(c, T) = {}
  BY DEF Cells
<1> QED
  BY <1>6, <1>7, <1>9, <1>10, FS_CardinalityType, FS_EmptySet DEF SizeOfRows

\* One row that is new, or has another size, adds at most that size.
LEMMA SizeGrows ==
    ASSUME NEW c, NEW e, NEW S, IsFiniteSet(S), NEW i,
           \A j \in S : RowSize(c[j]) \in Nat,
           RowSize(e[i]) \in Nat,
           \A j \in S : j # i => e[j] = c[j]
    PROVE  /\ SizeOfRows(e, S \cup {i}) \in Nat
           /\ SizeOfRows(e, S \cup {i}) <= SizeOfRows(c, S) + RowSize(e[i])
<1>1. PICK r : r = {i} \X (1 .. RowSize(e[i]))
  OBVIOUS
<1>2. IsFiniteSet(r) /\ Cardinality(r) = RowSize(e[i])
  <2>1. IsFiniteSet({i}) /\ Cardinality({i}) = 1
    BY FS_Singleton
  <2>2. IsFiniteSet(1 .. RowSize(e[i])) /\ Cardinality(1 .. RowSize(e[i])) = RowSize(e[i])
    BY FS_Interval
  <2>3. PICK I, J, n : I = {i} /\ J = 1 .. RowSize(e[i]) /\ n = RowSize(e[i])
    OBVIOUS
  <2>4. IsFiniteSet(I) /\ IsFiniteSet(J) /\ Cardinality(I) = 1 /\ Cardinality(J) = n /\ n \in Nat
    BY <2>1, <2>2, <2>3
  <2>5. IsFiniteSet(I \X J) /\ Cardinality(I \X J) = Cardinality(I) * Cardinality(J)
    BY <2>4, FS_Product
  <2>6. 1 * n = n
    BY <2>4
  <2> QED
    BY <1>1, <2>3, <2>4, <2>5, <2>6
<1>3. /\ IsFiniteSet(Cells(c, S)) /\ Cardinality(Cells(c, S)) = SizeOfRows(c, S)
      /\ SizeOfRows(c, S) \in Nat
  BY SizeFacts DEF SizeOfRows
<1>4. PICK U : U = Cells(c, S) \cup r
  OBVIOUS
<1>5. /\ IsFiniteSet(U)
      /\ Cardinality(U) = SizeOfRows(c, S) + RowSize(e[i]) - Cardinality(Cells(c, S) \cap r)
  BY <1>2, <1>3, <1>4, FS_Union
<1>6. Cardinality(Cells(c, S) \cap r) \in Nat
  BY <1>2, FS_Intersection, FS_CardinalityType
<1>7. Cells(e, S \cup {i}) \subseteq U
  <2> SUFFICES ASSUME NEW x \in Cells(e, S \cup {i}) PROVE x \in U
    OBVIOUS
  <2>1. PICK j \in S \cup {i} : x \in {j} \X (1 .. RowSize(e[j]))
    BY DEF Cells
  <2>2. CASE j = i
    BY <1>1, <1>4, <2>1, <2>2
  <2>3. CASE j # i
    <3>1. j \in S /\ x \in {j} \X (1 .. RowSize(c[j]))
      BY <2>1, <2>3
    <3>2. x \in Cells(c, S)
      BY <3>1 DEF Cells
    <3> QED
      BY <1>4, <3>2
  <2> QED
    BY <2>2, <2>3
<1>8. /\ IsFiniteSet(Cells(e, S \cup {i}))
      /\ Cardinality(Cells(e, S \cup {i})) <= Cardinality(U)
  BY <1>5, <1>7, FS_Subset
<1>9. SizeOfRows(e, S \cup {i}) \in Nat /\ SizeOfRows(e, S \cup {i}) <= Cardinality(U)
  BY <1>8, FS_CardinalityType DEF SizeOfRows
<1> QED
  BY <1>3, <1>5, <1>6, <1>9

-----------------------------------------------------------------------------
(* The two tables.                                                         *)

\* A table of actions and one of values agree.
TablesFit(s, c) ==
    /\ s \in Seq(ActionRows) /\ Distinct(s)
    /\ DOMAIN c \subseteq Ids /\ \A i \in DOMAIN c : c[i] \in CasRows
    /\ \A a \in RowsOf(s) : a.cas_id \in DOMAIN c /\ c[a.cas_id].digest = ValueOf[a.key]
    /\ \A i, j \in DOMAIN c : c[i].digest = c[j].digest => i = j
    /\ \A i \in DOMAIN c : \E a \in RowsOf(s) : a.cas_id = i

\* The ids of the values that actions refer to.
LEMMA CasIdsOf ==
    ASSUME NEW s \in Seq(ActionRows), NEW i
    PROVE  i \in CasIds(s) <=> \E a \in RowsOf(s) : a.cas_id = i
<1>1. DOMAIN s = 1 .. Len(s)
  OBVIOUS
<1> QED
  BY <1>1 DEF CasIds, RowsOf

\* This is what RowsConsistent says of the tables.
LEMMA TablesAre ==
    ASSUME NEW s \in Seq(ActionRows), NEW c
    PROVE  TablesFit(s, c)
             <=> /\ DOMAIN c \subseteq Ids /\ \A i \in DOMAIN c : c[i] \in CasRows
                 /\ \A j \in DOMAIN s : /\ s[j].cas_id \in DOMAIN c
                                        /\ c[s[j].cas_id].digest = ValueOf[s[j].key]
                 /\ \A i, j \in DOMAIN c : c[i].digest = c[j].digest => i = j
                 /\ DOMAIN c \subseteq CasIds(s)
                 /\ \A i, j \in DOMAIN s : s[i].key = s[j].key => i = j
<1>1. DOMAIN s = 1 .. Len(s)
  OBVIOUS
<1>2. Distinct(s) <=> \A i, j \in DOMAIN s : s[i].key = s[j].key => i = j
  BY <1>1 DEF Distinct
<1>3. (\A a \in RowsOf(s) : a.cas_id \in DOMAIN c /\ c[a.cas_id].digest = ValueOf[a.key])
         <=> \A j \in DOMAIN s : /\ s[j].cas_id \in DOMAIN c
                                 /\ c[s[j].cas_id].digest = ValueOf[s[j].key]
  BY <1>1 DEF RowsOf
<1>4. (\A i \in DOMAIN c : \E a \in RowsOf(s) : a.cas_id = i) <=> DOMAIN c \subseteq CasIds(s)
  BY CasIdsOf
<1> QED
  BY <1>2, <1>3, <1>4 DEF TablesFit

\* Rows have sizes, and there are finitely many.
LEMMA TablesHaveSize ==
    ASSUME NEW s, NEW c, TablesFit(s, c)
    PROVE  /\ IsFiniteSet(DOMAIN c) /\ \A i \in DOMAIN c : RowSize(c[i]) \in Nat
           /\ SizeOfRows(c, DOMAIN c) \in Nat
<1>1. IsFiniteSet(Ids)
  BY DiskAssumption, FS_Interval DEF Ids
<1>2. IsFiniteSet(DOMAIN c)
  BY <1>1, FS_Subset DEF TablesFit
<1>3. ASSUME NEW i \in DOMAIN c PROVE RowSize(c[i]) \in Nat
  <2>1. c[i].sized \in Digests \cup {NoDigest}
    BY DEF TablesFit, CasRows
  <2> QED
    BY <2>1, DiskAssumption DEF RowSize
<1> QED
  BY <1>2, <1>3, SizeFacts

\* Removing actions, and the values that only they refer to, keeps the tables in order.
LEMMA RemovedFit ==
    ASSUME NEW s, NEW c, TablesFit(s, c),
           NEW t \in Seq(ActionRows), Distinct(t), RowsOf(t) \subseteq RowsOf(s),
           NEW e, e = [i \in DOMAIN c \ (Unreferenced(s, t) \cap DOMAIN c) |-> c[i]]
    PROVE  /\ TablesFit(t, e) /\ SizeOfRows(e, DOMAIN e) \in Nat
           /\ SizeOfRows(e, DOMAIN e) = SizeOfRows(c, DOMAIN c \ Unreferenced(s, t))
           /\ SizeOfRows(e, DOMAIN e) <= SizeOfRows(c, DOMAIN c)
<1>1. DOMAIN e = DOMAIN c \ Unreferenced(s, t) /\ \A i \in DOMAIN e : e[i] = c[i]
  OBVIOUS
<1>2. s \in Seq(ActionRows)
  BY DEF TablesFit
<1>3. \A i \in DOMAIN c : i \in DOMAIN e <=> \E a \in RowsOf(t) : a.cas_id = i
  <2> TAKE i \in DOMAIN c
  <2>1. i \in CasIds(s)
    BY <1>2, CasIdsOf DEF TablesFit
  <2>2. i \in CasIds(t) <=> \E a \in RowsOf(t) : a.cas_id = i
    BY CasIdsOf
  <2> QED
    BY <1>1, <2>1, <2>2 DEF Unreferenced
<1>4. \A a \in RowsOf(t) : a.cas_id \in DOMAIN e /\ e[a.cas_id].digest = ValueOf[a.key]
  <2> TAKE a \in RowsOf(t)
  <2>1. a.cas_id \in DOMAIN c /\ c[a.cas_id].digest = ValueOf[a.key]
    BY DEF TablesFit
  <2> QED
    BY <1>1, <1>3, <2>1
<1>5. TablesFit(t, e)
  BY <1>1, <1>3, <1>4 DEF TablesFit
<1>6. Cells(e, DOMAIN e) = Cells(c, DOMAIN e)
  BY <1>1 DEF Cells
<1>7. /\ SizeOfRows(e, DOMAIN e) \in Nat
      /\ SizeOfRows(e, DOMAIN e) = SizeOfRows(c, DOMAIN c \ Unreferenced(s, t))
  BY <1>1, <1>5, <1>6, TablesHaveSize DEF SizeOfRows
<1>8. SizeOfRows(c, DOMAIN c \ Unreferenced(s, t)) <= SizeOfRows(c, DOMAIN c)
  BY TablesHaveSize, SizeFacts
<1> QED
  BY <1>5, <1>7, <1>8

\* A sweep brings the size of the tables down to the limit.
LEMMA SweptFacts ==
    ASSUME NEW s, NEW c, TablesFit(s, c)
    PROVE  /\ NumSwept(s, c) \in 0 .. Len(s)
           /\ SizeOfRows(c, DOMAIN c \ Unreferenced(s, SubSeq(s, NumSwept(s, c) + 1, Len(s))))
                 <= SizeLimit
<1>1. s \in Seq(ActionRows) /\ Len(s) \in Nat /\ SizeLimit \in Nat
  BY DiskAssumption DEF TablesFit
<1> DEFINE Rest(n) == SubSeq(s, n + 1, Len(s))
           Left(n) == SizeOfRows(c, DOMAIN c \ Unreferenced(s, Rest(n)))
<1>2. CASE SizeOfRows(c, DOMAIN c) <= SizeLimit
  <2>1. NumSwept(s, c) = 0
    BY <1>2 DEF NumSwept
  <2>2. Rest(0) = s
    BY <1>1, LastRows
  <2>3. Unreferenced(s, s) = {}
    BY DEF Unreferenced
  <2>4. DOMAIN c \ {} = DOMAIN c
    OBVIOUS
  <2> HIDE DEF Rest
  <2>5. Left(0) <= SizeLimit
    BY <1>2, <2>2, <2>3, <2>4
  <2> QED
    BY <1>1, <2>1, <2>5 DEF Rest
<1>3. CASE ~(SizeOfRows(c, DOMAIN c) <= SizeLimit)
  <2>1. PICK S : S = {n \in 0 .. Len(s) : n = Len(s) \/ Left(n) <= SizeLimit}
    OBVIOUS
  <2>2. NumSwept(s, c) = Min(S)
    BY <1>3, <2>1 DEF NumSwept
  <2>3. S \in SUBSET Nat /\ S # {}
    BY <1>1, <2>1
  <2>4. PICK x \in S : \A y \in S : x <= y
    BY <2>3, LeastElement
  <2>5. Min(S) \in S
    BY <2>4 DEF Min
  <2>6. Left(Len(s)) <= SizeLimit
    <3>1. Rest(Len(s)) = <<>>
      BY <1>1, LastRows
    <3>2. CasIds(<<>>) = {}
      BY DEF CasIds
    <3>3. DOMAIN c \ Unreferenced(s, <<>>) = {}
      BY <1>1, <3>2, CasIdsOf DEF Unreferenced, TablesFit
    <3>4. SizeOfRows(c, {}) = 0
      BY TablesHaveSize, SizeFacts
    <3> HIDE DEF Rest
    <3>5. Left(Len(s)) = 0
      BY <3>1, <3>3, <3>4
    <3> HIDE DEF Left
    <3> QED
      BY <1>1, <3>5
  <2> HIDE DEF Left
  <2>7. Min(S) \in 0 .. Len(s) /\ Left(Min(S)) <= SizeLimit
    BY <2>1, <2>5, <2>6
  <2> QED
    BY <2>2, <2>7 DEF Left
<1> QED
  BY <1>2, <1>3

\* Removing actions leaves the tables in order and no larger, and files with a state.
LEMMA RemoveKeeps ==
    ASSUME NEW s, NEW c, TablesFit(s, c),
           NEW t \in Seq(ActionRows), Distinct(t), RowsOf(t) \subseteq RowsOf(s),
           file \in [Digests -> {"absent", "partial", "complete"}],
           remove_ac_entries(s, t, c)
    PROVE  /\ TablesFit(actions', cas')
           /\ SizeOfRows(cas', DOMAIN cas') \in Nat
           /\ SizeOfRows(cas', DOMAIN cas') = SizeOfRows(c, DOMAIN c \ Unreferenced(s, t))
           /\ SizeOfRows(cas', DOMAIN cas') <= SizeOfRows(c, DOMAIN c)
           /\ file' \in [Digests -> {"absent", "partial", "complete"}]
<1>1. actions' = t /\ cas' = [i \in DOMAIN c \ (Unreferenced(s, t) \cap DOMAIN c) |-> c[i]]
  BY DEF remove_ac_entries
<1>2. PICK e : e = cas'
  OBVIOUS
<1>3. e = [i \in DOMAIN c \ (Unreferenced(s, t) \cap DOMAIN c) |-> c[i]]
  BY <1>1, <1>2
<1>4. /\ TablesFit(t, e) /\ SizeOfRows(e, DOMAIN e) \in Nat
      /\ SizeOfRows(e, DOMAIN e) = SizeOfRows(c, DOMAIN c \ Unreferenced(s, t))
      /\ SizeOfRows(e, DOMAIN e) <= SizeOfRows(c, DOMAIN c)
  BY <1>3, RemovedFit
<1>5. file' \in [Digests -> {"absent", "partial", "complete"}]
  BY DEF remove_ac_entries
<1> QED
  BY <1>1, <1>2, <1>4, <1>5

\* So does a sweep, which leaves no more than the limit.
LEMMA SweepKeeps ==
    ASSUME NEW s, NEW c, TablesFit(s, c),
           file \in [Digests -> {"absent", "partial", "complete"}],
           enforce_cache_size_limit(s, c)
    PROVE  /\ TablesFit(actions', cas') /\ grown' = 0
           /\ SizeOfRows(cas', DOMAIN cas') \in Nat
           /\ SizeOfRows(cas', DOMAIN cas') <= SizeLimit
           /\ file' \in [Digests -> {"absent", "partial", "complete"}]
<1>1. s \in Seq(ActionRows) /\ Distinct(s)
  BY DEF TablesFit
<1>2. PICK n : n = NumSwept(s, c)
  OBVIOUS
<1>3. PICK t : t = SubSeq(s, n + 1, Len(s))
  OBVIOUS
<1>4. n \in 0 .. Len(s) /\ SizeOfRows(c, DOMAIN c \ Unreferenced(s, t)) <= SizeLimit
  BY <1>2, <1>3, SweptFacts
<1>5. t \in Seq(ActionRows) /\ RowsOf(t) \subseteq RowsOf(s) /\ Distinct(t)
  BY <1>1, <1>3, <1>4, LastRows
<1>6. remove_ac_entries(s, t, c) /\ grown' = 0
  BY <1>2, <1>3 DEF enforce_cache_size_limit
<1> QED
  BY <1>4, <1>5, <1>6, RemoveKeeps

\* Writing keeps the cache near its limit: what is not swept is counted.
LEMMA GrowthKeeps ==
    ASSUME NEW s, NEW c, TablesFit(s, c), NEW size \in Nat,
           file \in [Digests -> {"absent", "partial", "complete"}],
           grown \in 0 .. SizeLimit \div 128, linked \subseteq Writers,
           SizeOfRows(c, DOMAIN c) <= SizeLimit + grown + size,
           record_cache_growth(s, c, size)
    PROVE  /\ TablesFit(actions', cas') /\ grown' \in 0 .. SizeLimit \div 128
           /\ SizeOfRows(cas', DOMAIN cas') <= SizeLimit + grown'
           /\ file' \in [Digests -> {"absent", "partial", "complete"}]
           /\ linked' \subseteq linked
<1>1. SizeLimit \in Nat /\ SizeLimit \div 128 \in Nat /\ grown \in Nat
  BY DiskAssumption
<1>2. CASE grown + size > SizeLimit \div 128
  <2>1. enforce_cache_size_limit(s, c) /\ still_linked
    BY <1>2 DEF record_cache_growth
  <2>2. /\ TablesFit(actions', cas') /\ grown' = 0
        /\ SizeOfRows(cas', DOMAIN cas') \in Nat
        /\ SizeOfRows(cas', DOMAIN cas') <= SizeLimit
        /\ file' \in [Digests -> {"absent", "partial", "complete"}]
    BY <2>1, SweepKeeps
  <2>3. linked' \subseteq linked
    BY <2>1 DEF still_linked
  <2>4. grown' \in 0 .. SizeLimit \div 128 /\ SizeLimit + grown' = SizeLimit
    BY <1>1, <2>2
  <2> QED
    BY <2>2, <2>3, <2>4
<1>3. CASE ~(grown + size > SizeLimit \div 128)
  <2>1. grown' = grown + size /\ actions' = s /\ cas' = c /\ file' = file /\ linked' = linked
    BY <1>3 DEF record_cache_growth
  <2>2. grown' \in 0 .. SizeLimit \div 128
    BY <1>1, <1>3, <2>1
  <2>3. SizeLimit + grown' = SizeLimit + grown + size
    BY <1>1, <2>1
  <2>4. SizeOfRows(cas', DOMAIN cas') = SizeOfRows(c, DOMAIN c)
    BY <2>1
  <2>5. SizeOfRows(cas', DOMAIN cas') <= SizeLimit + grown'
    BY <2>3, <2>4
  <2> QED
    BY <2>1, <2>2, <2>5
<1> QED
  BY <1>2, <1>3

-----------------------------------------------------------------------------
(* The invariant.                                                          *)

\* The types of what is not in the tables.
PoolTypeOK ==
    /\ to_flush \in Seq(Ids)
    /\ grown \in 0 .. SizeLimit \div 128
    /\ file \in [Digests -> {"absent", "partial", "complete"}]
    /\ wpc \in [Writers -> {"idle", "opening", "writing", "finishing"}]
    /\ wkey \in [Writers -> Keys \cup {NoKey}]
    /\ wid \in [Writers -> Ids \cup {0}]
    /\ linked \subseteq Writers
    /\ reading \in [key : Keys \cup {NoKey}, digest : Digests \cup {NoDigest},
                    sized : Digests \cup {NoDigest}]
    /\ read \in {"right", "wrong"}

\* A thread that writes has a key; what is being read is its key's value.
PoolFits ==
    /\ \A w \in Writers : wpc[w] # "idle" => wkey[w] \in Keys
    /\ reading # NotReading => /\ reading.key \in Keys
                               /\ reading.digest = ValueOf[reading.key]

DiskInv ==
    TablesFit(actions, cas) /\ PoolTypeOK /\ PoolFits /\ SizeNearLimit /\ ReadsRight

\* It has what the runs check of the rows.
LEMMA DiskInvMeans ==
    DiskInv => RowsConsistent
<1> SUFFICES ASSUME DiskInv PROVE RowsConsistent
  OBVIOUS
<1>1. TablesFit(actions, cas) /\ PoolTypeOK /\ actions \in Seq(ActionRows)
  BY DEF DiskInv, TablesFit
<1>2. /\ DOMAIN cas \subseteq Ids /\ \A i \in DOMAIN cas : cas[i] \in CasRows
      /\ \A j \in DOMAIN actions : /\ actions[j].cas_id \in DOMAIN cas
                                   /\ cas[actions[j].cas_id].digest = ValueOf[actions[j].key]
      /\ \A i, j \in DOMAIN cas : cas[i].digest = cas[j].digest => i = j
      /\ DOMAIN cas \subseteq CasIds(actions)
      /\ \A i, j \in DOMAIN actions : actions[i].key = actions[j].key => i = j
  BY <1>1, TablesAre
<1>3. DiskTypeOK
  BY <1>1, <1>2 DEF PoolTypeOK, DiskTypeOK
<1> QED
  BY <1>2, <1>3 DEF RowsConsistent, ActionsReferToValue, ValuesSharedAndEvictable

\* It holds in the initial state, and after a directory was emptied.
LEMMA NoTables ==
    /\ TablesFit(<<>>, <<>>)
    /\ SizeOfRows(<<>>, DOMAIN <<>>) = 0
<1>1. DOMAIN <<>> = {} /\ <<>> \in Seq(ActionRows) /\ RowsOf(<<>>) = {} /\ Distinct(<<>>)
  BY DEF RowsOf, Distinct
<1>2. TablesFit(<<>>, <<>>)
  BY <1>1 DEF TablesFit
<1>3. Cells(<<>>, {}) = {}
  BY DEF Cells
<1> QED
  BY <1>1, <1>2, <1>3, FS_EmptySet DEF SizeOfRows

\* What is found under a key is the row of its value.
LEMMA LookupFacts ==
    ASSUME TablesFit(actions, cas), NEW k \in Keys
    PROVE  /\ HasAction(k) => /\ ActionOf(k) \in ActionRows
                              /\ CasOf(k) \in CasRows /\ CasOf(k).digest = ValueOf[k]
           /\ ~HasAction(k) => \A b \in RowsOf(actions) : b.key # k
<1>1. actions \in Seq(ActionRows) /\ DOMAIN actions = 1 .. Len(actions)
  BY DEF TablesFit
<1>2. ASSUME HasAction(k)
      PROVE  ActionOf(k) \in ActionRows /\ CasOf(k) \in CasRows /\ CasOf(k).digest = ValueOf[k]
  <2>1. PICK j : j = CHOOSE x \in PositionsOf(k) : TRUE
    OBVIOUS
  <2>2. j \in PositionsOf(k)
    BY <1>2, <2>1 DEF HasAction
  <2>3. j \in 1 .. Len(actions) /\ actions[j].key = k
    BY <1>1, <2>2 DEF PositionsOf
  <2>4. ActionOf(k) = actions[j]
    BY <2>1 DEF ActionOf
  <2>5. ActionOf(k) \in RowsOf(actions) /\ ActionOf(k) \in ActionRows /\ ActionOf(k).key = k
    BY <1>1, <2>3, <2>4 DEF RowsOf
  <2>6. /\ ActionOf(k).cas_id \in DOMAIN cas
        /\ cas[ActionOf(k).cas_id].digest = ValueOf[k]
        /\ cas[ActionOf(k).cas_id] \in CasRows
    BY <2>5 DEF TablesFit
  <2> QED
    BY <2>5, <2>6 DEF CasOf
<1>3. ASSUME ~HasAction(k) PROVE \A b \in RowsOf(actions) : b.key # k
  BY <1>1, <1>3 DEF HasAction, PositionsOf, RowsOf
<1> QED
  BY <1>2, <1>3

\* The ids of used rows are remembered.
LEMMA TouchedFacts ==
    ASSUME TablesFit(actions, cas), to_flush \in Seq(Ids), NEW k \in Keys
    PROVE  Touched(k) \in Seq(Ids)
<1>1. CASE HasAction(k)
  <2>1. ActionOf(k).ac_id \in Ids
    BY <1>1, LookupFacts DEF ActionRows
  <2> QED
    BY <2>1 DEF Touched
<1>2. CASE ~HasAction(k)
  BY <1>2 DEF Touched
<1> QED
  BY <1>1, <1>2

\* An action for a value that another key has.
LEMMA SharedRow ==
    ASSUME TablesFit(actions, cas), NEW k \in Keys, ~HasAction(k), NewId(AcIds) <= MaxIds,
           NEW i \in IdsForDigest(ValueOf[k])
    PROVE  TablesFit(WithAction(k, i), cas)
<1>1. actions \in Seq(ActionRows) /\ i \in DOMAIN cas /\ i \in Ids /\ cas[i].digest = ValueOf[k]
  BY DEF TablesFit, IdsForDigest
<1>2. AcIds \subseteq Ids
  <2>1. \A j \in DOMAIN actions : actions[j] \in ActionRows
    BY <1>1
  <2>2. \A b \in ActionRows : b.ac_id \in Ids
    BY DEF ActionRows
  <2> QED
    BY <2>1, <2>2 DEF AcIds
<1>3. NewId(AcIds) \in Ids
  BY <1>2, NewIdFacts
<1>4. PICK a : a = [ac_id |-> NewId(AcIds), key |-> k, cas_id |-> i]
  OBVIOUS
<1>5. a \in ActionRows /\ a.key = k /\ a.cas_id = i
  BY <1>1, <1>3, <1>4 DEF ActionRows
<1>6. PICK t : t = WithAction(k, i)
  OBVIOUS
<1>7. t = Append(actions, a)
  BY <1>4, <1>6 DEF WithAction
<1>8. \A b \in RowsOf(actions) : b.key # a.key
  BY <1>5, LookupFacts
<1>9. t \in Seq(ActionRows) /\ RowsOf(t) = RowsOf(actions) \cup {a} /\ Distinct(t)
  BY <1>1, <1>5, <1>7, <1>8, AppendRow DEF TablesFit
<1>10. TablesFit(t, cas)
  BY <1>1, <1>5, <1>9 DEF TablesFit
<1> QED
  BY <1>6, <1>10

\* An action and a value that is new.
LEMMA NewRow ==
    ASSUME TablesFit(actions, cas), NEW k \in Keys, ~HasAction(k), NewId(AcIds) <= MaxIds,
           IdsForDigest(ValueOf[k]) = {}, NewId(DOMAIN cas) <= MaxIds,
           NEW row \in CasRows, row.digest = ValueOf[k],
           NEW i, i = NewId(DOMAIN cas)
    PROVE  /\ TablesFit(WithAction(k, i), WithCas(i, row))
           /\ RowSize(row) \in Nat
           /\ SizeOfRows(WithCas(i, row), DOMAIN WithCas(i, row)) \in Nat
           /\ SizeOfRows(WithCas(i, row), DOMAIN WithCas(i, row))
                 <= SizeOfRows(cas, DOMAIN cas) + RowSize(row)
<1>1. actions \in Seq(ActionRows) /\ DOMAIN cas \subseteq Ids
  BY DEF TablesFit
<1>2. AcIds \subseteq Ids
  <2>1. \A j \in DOMAIN actions : actions[j] \in ActionRows
    BY <1>1
  <2>2. \A b \in ActionRows : b.ac_id \in Ids
    BY DEF ActionRows
  <2> QED
    BY <2>1, <2>2 DEF AcIds
<1>3. NewId(AcIds) \in Ids /\ i \in Ids /\ i \notin DOMAIN cas
  BY <1>1, <1>2, NewIdFacts
<1>4. PICK a : a = [ac_id |-> NewId(AcIds), key |-> k, cas_id |-> i]
  OBVIOUS
<1>5. a \in ActionRows /\ a.key = k /\ a.cas_id = i
  BY <1>3, <1>4 DEF ActionRows
<1>6. PICK t, e : t = WithAction(k, i) /\ e = WithCas(i, row)
  OBVIOUS
<1>7. t = Append(actions, a)
  BY <1>4, <1>6 DEF WithAction
<1>8. \A b \in RowsOf(actions) : b.key # a.key
  BY <1>5, LookupFacts
<1>9. t \in Seq(ActionRows) /\ RowsOf(t) = RowsOf(actions) \cup {a} /\ Distinct(t)
  BY <1>1, <1>5, <1>7, <1>8, AppendRow DEF TablesFit
<1>10. DOMAIN e = DOMAIN cas \cup {i} /\ e[i] = row /\ \A j \in DOMAIN cas : e[j] = cas[j]
  BY <1>3, <1>6 DEF WithCas
<1>11. \A j \in DOMAIN cas : cas[j].digest # ValueOf[k]
  BY DEF IdsForDigest
<1>12. TablesFit(t, e)
  <2>1. DOMAIN e \subseteq Ids /\ \A j \in DOMAIN e : e[j] \in CasRows
    BY <1>3, <1>10 DEF TablesFit
  <2>2. \A b \in RowsOf(t) : b.cas_id \in DOMAIN e /\ e[b.cas_id].digest = ValueOf[b.key]
    BY <1>5, <1>9, <1>10 DEF TablesFit
  <2>3. \A j, l \in DOMAIN e : e[j].digest = e[l].digest => j = l
    BY <1>10, <1>11 DEF TablesFit
  <2>4. \A j \in DOMAIN e : \E b \in RowsOf(t) : b.cas_id = j
    BY <1>5, <1>9, <1>10 DEF TablesFit
  <2> QED
    BY <1>9, <2>1, <2>2, <2>3, <2>4 DEF TablesFit
<1>13. /\ IsFiniteSet(DOMAIN cas) /\ \A j \in DOMAIN cas : RowSize(cas[j]) \in Nat
  BY TablesHaveSize
<1>14. RowSize(e[i]) \in Nat
  BY <1>10, <1>12, TablesHaveSize
<1>15. /\ SizeOfRows(e, DOMAIN cas \cup {i}) \in Nat
       /\ SizeOfRows(e, DOMAIN cas \cup {i}) <= SizeOfRows(cas, DOMAIN cas) + RowSize(e[i])
  BY <1>10, <1>13, <1>14, SizeGrows
<1> QED
  BY <1>6, <1>10, <1>12, <1>14, <1>15

-----------------------------------------------------------------------------
(* Every step keeps the invariant.                                         *)

\* DiskInv holds in the initial state.
LEMMA InitHas ==
    DiskInit => DiskInv
<1> SUFFICES ASSUME DiskInit PROVE DiskInv
  OBVIOUS
<1>0. SizeLimit \in Nat /\ SizeLimit \div 128 \in Nat
  BY DiskAssumption
<1>1. TablesFit(actions, cas)
  BY NoTables DEF DiskInit
<1>2. PoolTypeOK
  BY <1>0 DEF DiskInit, PoolTypeOK, NotReading
<1>3. PoolFits
  BY DEF DiskInit, PoolFits
<1>4. SizeNearLimit
  BY <1>0, NoTables DEF DiskInit, SizeNearLimit
<1> QED
  BY <1>1, <1>2, <1>3, <1>4 DEF DiskInv, DiskInit, ReadsRight

\* A small value is inserted.
LEMMA InsertKeeps ==
    ASSUME DiskInv, NEW w \in Writers, NEW k \in Keys, insert(w, k)
    PROVE  DiskInv'
<1>1. TablesFit(actions, cas) /\ PoolTypeOK /\ PoolFits /\ SizeNearLimit /\ ReadsRight
  BY DEF DiskInv
<1>2. PICK d, i, row :
          /\ d = ValueOf[k]
          /\ i = IF IdsForDigest(d) # {} THEN CHOOSE j \in IdsForDigest(d) : TRUE
                                         ELSE NewId(DOMAIN cas)
          /\ row = [digest |-> d, storage |-> "D", in_db |-> TRUE, sized |-> d]
  OBVIOUS
<1>3. /\ to_flush' = Touched(k) /\ UNCHANGED <<wpc, wkey, wid, reading, read>>
      /\ IF HasAction(k)
         THEN UNCHANGED <<actions, cas, grown, file, linked>>
         ELSE /\ i <= MaxIds /\ NewId(AcIds) <= MaxIds
              /\ IF IdsForDigest(d) # {}
                 THEN record_cache_growth(WithAction(k, i), cas, 0)
                 ELSE record_cache_growth(WithAction(k, i), WithCas(i, row), Size[d])
  BY <1>2 DEF insert, Keep_reader
<1>4. to_flush' \in Seq(Ids)
  BY <1>1, <1>3, TouchedFacts DEF PoolTypeOK
<1>5. d \in Digests /\ Size[d] \in Nat /\ SizeLimit \in Nat
  BY <1>2, DiskAssumption
<1>6. /\ file \in [Digests -> {"absent", "partial", "complete"}]
      /\ grown \in 0 .. SizeLimit \div 128 /\ linked \subseteq Writers
      /\ grown \in Nat /\ SizeLimit \div 128 \in Nat
  BY <1>1, <1>5 DEF PoolTypeOK
<1>7. SizeOfRows(cas, DOMAIN cas) \in Nat /\ SizeOfRows(cas, DOMAIN cas) <= SizeLimit + grown
  BY <1>1, TablesHaveSize DEF SizeNearLimit
<1>8. /\ TablesFit(actions', cas') /\ grown' \in 0 .. SizeLimit \div 128
      /\ SizeOfRows(cas', DOMAIN cas') <= SizeLimit + grown'
      /\ file' \in [Digests -> {"absent", "partial", "complete"}]
      /\ linked' \subseteq linked
  <2>1. CASE HasAction(k)
    <3>1. UNCHANGED <<actions, cas, grown, file, linked>>
      BY <1>3, <2>1
    <3> QED
      BY <1>1, <1>6, <1>7, <3>1
  <2>2. CASE ~HasAction(k) /\ IdsForDigest(d) # {}
    <3>1. i \in IdsForDigest(ValueOf[k])
      BY <1>2, <2>2
    <3>2. TablesFit(WithAction(k, i), cas)
      BY <1>1, <1>3, <2>2, <3>1, SharedRow
    <3>3. SizeOfRows(cas, DOMAIN cas) <= SizeLimit + grown + 0
      BY <1>5, <1>6, <1>7
    <3>4. record_cache_growth(WithAction(k, i), cas, 0)
      BY <1>3, <2>2
    <3> QED
      BY <1>6, <3>2, <3>3, <3>4, GrowthKeeps
  <2>3. CASE ~HasAction(k) /\ IdsForDigest(d) = {}
    <3>1. i = NewId(DOMAIN cas) /\ i <= MaxIds /\ NewId(AcIds) <= MaxIds
      BY <1>2, <1>3, <2>3
    <3>2. row \in CasRows /\ row.digest = ValueOf[k] /\ row.sized = d
      BY <1>2, <1>5 DEF CasRows
    <3>3. RowSize(row) = Size[d]
      BY <1>5, <3>2, DiskAssumption DEF RowSize
    <3>4. PICK t, e : t = WithAction(k, i) /\ e = WithCas(i, row)
      OBVIOUS
    <3>5. /\ TablesFit(t, e) /\ SizeOfRows(e, DOMAIN e) \in Nat
          /\ SizeOfRows(e, DOMAIN e) <= SizeOfRows(cas, DOMAIN cas) + Size[d]
      BY <1>1, <1>2, <2>3, <3>1, <3>2, <3>3, <3>4, NewRow
    <3>6. SizeOfRows(e, DOMAIN e) <= SizeLimit + grown + Size[d]
      BY <1>5, <1>6, <1>7, <3>5
    <3>7. record_cache_growth(t, e, Size[d])
      BY <1>3, <2>3, <3>4
    <3> QED
      BY <1>5, <1>6, <3>5, <3>6, <3>7, GrowthKeeps
  <2> QED
    BY <2>1, <2>2, <2>3
<1>9. PoolTypeOK'
  BY <1>1, <1>3, <1>4, <1>6, <1>8 DEF PoolTypeOK
<1>10. PoolFits' /\ ReadsRight'
  BY <1>1, <1>3 DEF PoolFits, ReadsRight
<1> QED
  BY <1>8, <1>9, <1>10 DEF DiskInv, SizeNearLimit

\* The insertion of a large value begins.
LEMMA InitiateKeeps ==
    ASSUME DiskInv, NEW w \in Writers, NEW k \in Keys, initiate_insert(w, k)
    PROVE  DiskInv'
<1>1. TablesFit(actions, cas) /\ PoolTypeOK /\ PoolFits /\ SizeNearLimit /\ ReadsRight
  BY DEF DiskInv
<1>2. PICK d, i, row :
          /\ d = ValueOf[k] /\ i = NewId(DOMAIN cas)
          /\ row = [digest |-> d, storage |-> "X", in_db |-> FALSE, sized |-> NoDigest]
  OBVIOUS
<1>3. /\ to_flush' = Touched(k) /\ UNCHANGED <<grown, file, linked, reading, read>>
      /\ \/ /\ HasAction(k)
            /\ UNCHANGED <<actions, cas, wpc, wkey, wid>>
         \/ /\ ~HasAction(k) /\ NewId(AcIds) <= MaxIds
            /\ IdsForDigest(d) # {}
            /\ actions' = WithAction(k, CHOOSE j \in IdsForDigest(d) : TRUE)
            /\ UNCHANGED <<cas, wpc, wkey, wid>>
         \/ /\ ~HasAction(k) /\ NewId(AcIds) <= MaxIds
            /\ IdsForDigest(d) = {} /\ i <= MaxIds
            /\ actions' = WithAction(k, i)
            /\ cas' = WithCas(i, row)
            /\ wpc' = [wpc EXCEPT ![w] = "opening"]
            /\ wkey' = [wkey EXCEPT ![w] = k]
            /\ wid' = [wid EXCEPT ![w] = i]
  BY <1>2 DEF initiate_insert, Keep_reader
<1>4. to_flush' \in Seq(Ids)
  BY <1>1, <1>3, TouchedFacts DEF PoolTypeOK
<1>5. d \in Digests
  BY <1>2, DiskAssumption
<1>6. SizeOfRows(cas, DOMAIN cas) \in Nat /\ SizeOfRows(cas, DOMAIN cas) <= SizeLimit + grown
  BY <1>1, TablesHaveSize DEF SizeNearLimit
<1>7. ReadsRight'
  BY <1>1, <1>3 DEF ReadsRight
<1>8. CASE HasAction(k) /\ UNCHANGED <<actions, cas, wpc, wkey, wid>>
  <2>1. TablesFit(actions', cas') /\ SizeNearLimit'
    BY <1>1, <1>3, <1>6, <1>8 DEF SizeNearLimit
  <2>2. PoolTypeOK' /\ PoolFits'
    BY <1>1, <1>3, <1>4, <1>8 DEF PoolTypeOK, PoolFits
  <2> QED
    BY <1>7, <2>1, <2>2 DEF DiskInv
<1>9. CASE /\ ~HasAction(k) /\ NewId(AcIds) <= MaxIds
           /\ IdsForDigest(d) # {}
           /\ actions' = WithAction(k, CHOOSE j \in IdsForDigest(d) : TRUE)
           /\ UNCHANGED <<cas, wpc, wkey, wid>>
  <2>1. PICK j : j = CHOOSE x \in IdsForDigest(d) : TRUE
    OBVIOUS
  <2>2. j \in IdsForDigest(ValueOf[k]) /\ actions' = WithAction(k, j)
    BY <1>2, <1>9, <2>1
  <2>3. TablesFit(WithAction(k, j), cas)
    BY <1>1, <1>9, <2>2, SharedRow
  <2>4. TablesFit(actions', cas')
    BY <1>9, <2>2, <2>3
  <2>5. SizeNearLimit'
    BY <1>3, <1>6, <1>9 DEF SizeNearLimit
  <2>6. PoolTypeOK' /\ PoolFits'
    BY <1>1, <1>3, <1>4, <1>9 DEF PoolTypeOK, PoolFits
  <2> QED
    BY <1>7, <2>4, <2>5, <2>6 DEF DiskInv
<1>10. CASE /\ ~HasAction(k) /\ NewId(AcIds) <= MaxIds
            /\ IdsForDigest(d) = {} /\ i <= MaxIds
            /\ actions' = WithAction(k, i)
            /\ cas' = WithCas(i, row)
            /\ wpc' = [wpc EXCEPT ![w] = "opening"]
            /\ wkey' = [wkey EXCEPT ![w] = k]
            /\ wid' = [wid EXCEPT ![w] = i]
  <2>1. row \in CasRows /\ row.digest = ValueOf[k] /\ row.sized = NoDigest
    BY <1>2, <1>5 DEF CasRows
  <2>2. RowSize(row) = 0
    BY <2>1 DEF RowSize
  <2>3. PICK t, e : t = WithAction(k, i) /\ e = WithCas(i, row)
    OBVIOUS
  <2>4. /\ TablesFit(t, e) /\ SizeOfRows(e, DOMAIN e) \in Nat
        /\ SizeOfRows(e, DOMAIN e) <= SizeOfRows(cas, DOMAIN cas) + 0
    BY <1>1, <1>2, <1>10, <2>1, <2>2, <2>3, NewRow
  <2>5. actions' = t /\ cas' = e
    BY <1>10, <2>3
  <2>6. SizeLimit \in Nat /\ grown \in Nat
    BY <1>1, DiskAssumption DEF PoolTypeOK
  <2>7. SizeOfRows(e, DOMAIN e) <= SizeLimit + grown
    BY <1>6, <2>4, <2>6
  <2>8. SizeNearLimit'
    BY <1>3, <2>5, <2>7 DEF SizeNearLimit
  <2>9. i \in Ids
    BY <1>1, <1>2, <1>10, NewIdFacts DEF TablesFit
  <2>10. PoolTypeOK'
    BY <1>1, <1>3, <1>4, <1>10, <2>9 DEF PoolTypeOK
  <2>11. PoolFits'
    BY <1>1, <1>3, <1>10 DEF PoolTypeOK, PoolFits
  <2> QED
    BY <1>7, <2>4, <2>5, <2>8, <2>10, <2>11 DEF DiskInv
<1> QED
  BY <1>3, <1>8, <1>9, <1>10

\* The file is opened, written or given up: the tables stay as they are.
LEMMA WriteKeeps ==
    ASSUME DiskInv, NEW w \in Writers, open_file(w) \/ write_file(w) \/ write_fails(w)
    PROVE  DiskInv'
<1>1. TablesFit(actions, cas) /\ PoolTypeOK /\ PoolFits /\ SizeNearLimit /\ ReadsRight
  BY DEF DiskInv
<1>2. UNCHANGED <<actions, cas, to_flush, grown, reading, read>>
  BY DEF open_file, write_file, write_fails, Keep_reader, disk_vars
<1>3. TablesFit(actions', cas') /\ SizeNearLimit' /\ ReadsRight'
  BY <1>1, <1>2 DEF SizeNearLimit, ReadsRight
<1>4. wpc[w] # "idle"
  BY DEF open_file, write_file, write_fails
<1>5. wkey[w] \in Keys /\ ValueOf[wkey[w]] \in Digests
  BY <1>1, <1>4, DiskAssumption DEF PoolFits
<1>6. file' \in [Digests -> {"absent", "partial", "complete"}]
  <2>1. CASE open_file(w)
    BY <1>1, <2>1 DEF open_file, PoolTypeOK
  <2>2. CASE write_file(w)
    <3>1. PICK f \in {"absent", "partial", "complete"} : file' = [file EXCEPT ![ValueOf[wkey[w]]] = f]
      BY <1>1, <1>5, <2>2 DEF write_file, PoolTypeOK
    <3> QED
      BY <1>1, <3>1 DEF PoolTypeOK
  <2>3. CASE write_fails(w)
    BY <1>1, <2>3 DEF write_fails, disk_vars, PoolTypeOK
  <2> QED
    BY <2>1, <2>2, <2>3
<1>7. PICK p \in {"idle", "writing", "finishing"} : wpc' = [wpc EXCEPT ![w] = p]
  BY DEF open_file, write_file, write_fails
<1>8. linked' \subseteq Writers
  BY <1>1 DEF open_file, write_file, write_fails, PoolTypeOK
<1>9. \/ wkey' = wkey /\ wid' = wid
      \/ wkey' = [wkey EXCEPT ![w] = NoKey] /\ wid' = [wid EXCEPT ![w] = 0] /\ p = "idle"
  <2>1. CASE open_file(w) \/ write_file(w)
    BY <2>1 DEF open_file, write_file
  <2>2. CASE write_fails(w)
    BY <1>1, <1>7, <2>2 DEF write_fails, PoolTypeOK
  <2> QED
    BY <2>1, <2>2
<1>10. PoolTypeOK'
  BY <1>1, <1>2, <1>6, <1>7, <1>8, <1>9 DEF PoolTypeOK
<1>11. PoolFits'
  <2>1. ASSUME NEW u \in Writers, wpc'[u] # "idle" PROVE wkey'[u] \in Keys
    BY <1>1, <1>5, <1>7, <1>9, <2>1 DEF PoolTypeOK, PoolFits
  <2>2. reading' = reading
    BY <1>2
  <2> QED
    BY <1>1, <2>1, <2>2 DEF PoolFits
<1> QED
  BY <1>3, <1>10, <1>11 DEF DiskInv

\* The row of a large value becomes valid, also when its id was given to another value's row.
LEMMA FinishKeeps ==
    ASSUME DiskInv, NEW w \in Writers, finish_insert(w)
    PROVE  DiskInv'
<1>1. TablesFit(actions, cas) /\ PoolTypeOK /\ PoolFits /\ SizeNearLimit /\ ReadsRight
  BY DEF DiskInv
<1>2. PICK d, i, c :
          /\ d = ValueOf[wkey[w]] /\ i = wid[w]
          /\ c = IF i \in DOMAIN cas
                 THEN [cas EXCEPT ![i].storage = "F", ![i].sized = d]
                 ELSE cas
  OBVIOUS
<1>3. /\ wpc[w] = "finishing"
      /\ record_cache_growth(actions, c, Size[d])
      /\ wpc' = [wpc EXCEPT ![w] = "idle"]
      /\ wkey' = [wkey EXCEPT ![w] = NoKey]
      /\ wid' = [wid EXCEPT ![w] = 0]
      /\ UNCHANGED <<to_flush, reading, read>>
  BY <1>2 DEF finish_insert, Keep_reader
<1>4. d \in Digests /\ Size[d] \in Nat /\ SizeLimit \in Nat /\ d # NoDigest
  BY <1>1, <1>2, <1>3, DiskAssumption DEF PoolFits
<1>5. /\ file \in [Digests -> {"absent", "partial", "complete"}]
      /\ grown \in 0 .. SizeLimit \div 128 /\ linked \subseteq Writers
      /\ grown \in Nat /\ SizeLimit \div 128 \in Nat
  BY <1>1, <1>4 DEF PoolTypeOK
<1>6. SizeOfRows(cas, DOMAIN cas) \in Nat /\ SizeOfRows(cas, DOMAIN cas) <= SizeLimit + grown
  BY <1>1, TablesHaveSize DEF SizeNearLimit
<1>7. TablesFit(actions, c) /\ SizeOfRows(c, DOMAIN c) <= SizeLimit + grown + Size[d]
  <2>1. CASE i \notin DOMAIN cas
    <3>1. c = cas
      BY <1>2, <2>1
    <3>2. SizeOfRows(cas, DOMAIN cas) <= SizeLimit + grown + Size[d]
      BY <1>4, <1>5, <1>6
    <3> QED
      BY <1>1, <3>1, <3>2
  <2>2. CASE i \in DOMAIN cas
    <3>1. c = [cas EXCEPT ![i] = [[@ EXCEPT !.storage = "F"] EXCEPT !.sized = d]]
      BY <1>2, <2>2
    <3>2. PICK row : row = [[cas[i] EXCEPT !.storage = "F"] EXCEPT !.sized = d]
      OBVIOUS
    <3>3. DOMAIN c = DOMAIN cas /\ c[i] = row /\ \A j \in DOMAIN cas : j # i => c[j] = cas[j]
      BY <2>2, <3>1, <3>2
    <3>4. cas[i] \in CasRows
      BY <1>1, <2>2 DEF TablesFit
    <3>5. row \in CasRows /\ row.digest = cas[i].digest /\ row.sized = d
      BY <1>4, <3>2, <3>4 DEF CasRows
    <3>6. \A j \in DOMAIN cas : c[j] \in CasRows /\ c[j].digest = cas[j].digest
      BY <1>1, <3>3, <3>5 DEF TablesFit
    <3>7. TablesFit(actions, c)
      BY <1>1, <3>3, <3>6 DEF TablesFit
    <3>8. RowSize(c[i]) = Size[d]
      BY <1>4, <3>3, <3>5 DEF RowSize
    <3>9. IsFiniteSet(DOMAIN cas) /\ \A j \in DOMAIN cas : RowSize(cas[j]) \in Nat
      BY <1>1, TablesHaveSize
    <3>10. /\ SizeOfRows(c, DOMAIN cas \cup {i}) \in Nat
           /\ SizeOfRows(c, DOMAIN cas \cup {i}) <= SizeOfRows(cas, DOMAIN cas) + Size[d]
      BY <1>4, <3>3, <3>8, <3>9, SizeGrows
    <3>11. DOMAIN cas \cup {i} = DOMAIN c
      BY <2>2, <3>3
    <3>12. SizeOfRows(c, DOMAIN c) <= SizeLimit + grown + Size[d]
      BY <1>4, <1>5, <1>6, <3>10, <3>11
    <3> QED
      BY <3>7, <3>12
  <2> QED
    BY <2>1, <2>2
<1>8. /\ TablesFit(actions', cas') /\ grown' \in 0 .. SizeLimit \div 128
      /\ SizeOfRows(cas', DOMAIN cas') <= SizeLimit + grown'
      /\ file' \in [Digests -> {"absent", "partial", "complete"}]
      /\ linked' \subseteq linked
  BY <1>3, <1>4, <1>5, <1>7, GrowthKeeps
<1>9. PoolTypeOK'
  BY <1>1, <1>3, <1>5, <1>8 DEF PoolTypeOK
<1>10. PoolFits' /\ ReadsRight'
  BY <1>1, <1>3 DEF PoolTypeOK, PoolFits, ReadsRight
<1> QED
  BY <1>8, <1>9, <1>10 DEF DiskInv, SizeNearLimit

\* An entry is looked up, and what it has is that key's value.
LEMMA FindKeeps ==
    ASSUME DiskInv, NEW k \in Keys, find(k)
    PROVE  DiskInv'
<1>1. TablesFit(actions, cas) /\ PoolTypeOK /\ PoolFits /\ SizeNearLimit /\ ReadsRight
  BY DEF DiskInv
<1>2. to_flush' = Touched(k) /\ UNCHANGED <<actions, cas, grown, file, wpc, wkey, wid, linked>>
  BY DEF find
<1>3. to_flush' \in Seq(Ids)
  BY <1>1, <1>2, TouchedFacts DEF PoolTypeOK
<1>4. TablesFit(actions', cas') /\ SizeNearLimit'
  BY <1>1, <1>2 DEF SizeNearLimit
<1>5. HasAction(k) => CasOf(k) \in CasRows /\ CasOf(k).digest = ValueOf[k]
  BY <1>1, LookupFacts
<1>6. ValueOf[k] \in Digests
  BY DiskAssumption
<1>7. read' = "right"
  BY <1>5 DEF find
<1>8. \/ reading' = reading
      \/ \E x \in Digests \cup {NoDigest} : reading' = [key |-> k, digest |-> ValueOf[k], sized |-> x]
  <2>1. CASE HasAction(k) /\ reading' = [key |-> k, digest |-> CasOf(k).digest, sized |-> CasOf(k).sized]
    <3>1. CasOf(k).sized \in Digests \cup {NoDigest}
      BY <1>5, <2>1 DEF CasRows
    <3> QED
      BY <1>5, <2>1, <3>1
  <2> QED
    BY <2>1 DEF find
<1>9. PoolTypeOK'
  <2>1. reading' \in [key : Keys \cup {NoKey}, digest : Digests \cup {NoDigest},
                      sized : Digests \cup {NoDigest}]
    BY <1>1, <1>6, <1>8 DEF PoolTypeOK
  <2> QED
    BY <1>1, <1>2, <1>3, <1>7, <2>1 DEF PoolTypeOK
<1>10. PoolFits'
  BY <1>1, <1>2, <1>8 DEF PoolFits
<1> QED
  BY <1>4, <1>7, <1>9, <1>10 DEF DiskInv, ReadsRight

\* The file is read.
LEMMA ReadKeeps ==
    ASSUME DiskInv, read_file
    PROVE  DiskInv'
<1>1. TablesFit(actions, cas) /\ PoolTypeOK /\ PoolFits /\ SizeNearLimit /\ ReadsRight
  BY DEF DiskInv
<1>2. UNCHANGED <<actions, cas, to_flush, grown, file, wpc, wkey, wid, linked>> /\ reading' = NotReading
  BY DEF read_file, disk_vars
<1>3. read' = "right"
  BY <1>1 DEF read_file, PoolFits, Decompressed
<1>4. TablesFit(actions', cas') /\ SizeNearLimit'
  BY <1>1, <1>2 DEF SizeNearLimit
<1>5. PoolTypeOK'
  BY <1>1, <1>2, <1>3 DEF PoolTypeOK, NotReading
<1>6. PoolFits'
  BY <1>1, <1>2 DEF PoolFits
<1> QED
  BY <1>3, <1>4, <1>5, <1>6 DEF DiskInv, ReadsRight

\* Entries are removed.
LEMMA RemoveEntriesKeeps ==
    ASSUME DiskInv, NEW t \in Seq(ActionRows), Distinct(t), RowsOf(t) \subseteq RowsOf(actions),
           remove_ac_entries(actions, t, cas), still_linked,
           UNCHANGED <<to_flush, grown, wpc, wkey, wid, reading, read>>
    PROVE  DiskInv'
<1>1. TablesFit(actions, cas) /\ PoolTypeOK /\ PoolFits /\ SizeNearLimit /\ ReadsRight
  BY DEF DiskInv
<1>2. /\ TablesFit(actions', cas') /\ SizeOfRows(cas', DOMAIN cas') \in Nat
      /\ SizeOfRows(cas', DOMAIN cas') <= SizeOfRows(cas, DOMAIN cas)
      /\ file' \in [Digests -> {"absent", "partial", "complete"}]
  BY <1>1, RemoveKeeps DEF PoolTypeOK
<1>3. SizeOfRows(cas, DOMAIN cas) \in Nat /\ grown \in Nat /\ SizeLimit \in Nat
  BY <1>1, TablesHaveSize, DiskAssumption DEF PoolTypeOK
<1>4. SizeOfRows(cas', DOMAIN cas') <= SizeLimit + grown
  BY <1>1, <1>2, <1>3 DEF SizeNearLimit
<1>5. SizeNearLimit'
  BY <1>4 DEF SizeNearLimit
<1>6. linked' \subseteq linked
  BY DEF still_linked
<1>7. PoolTypeOK'
  BY <1>1, <1>2, <1>6 DEF PoolTypeOK
<1>8. PoolFits' /\ ReadsRight'
  BY <1>1 DEF PoolFits, ReadsRight
<1> QED
  BY <1>2, <1>5, <1>7, <1>8 DEF DiskInv

\* The cache is emptied, or loses one entry.
LEMMA ClearKeeps ==
    ASSUME DiskInv, clear \/ \E k \in Keys : remove_entry(k)
    PROVE  DiskInv'
<1>1. actions \in Seq(ActionRows) /\ Distinct(actions)
  BY DEF DiskInv, TablesFit
<1>2. PICK t \in Seq(ActionRows) :
          Distinct(t) /\ RowsOf(t) \subseteq RowsOf(actions) /\ remove_ac_entries(actions, t, cas)
  <2>1. CASE clear
    <3>1. <<>> \in Seq(ActionRows) /\ Distinct(<<>>) /\ RowsOf(<<>>) = {}
      BY DEF Distinct, RowsOf
    <3> QED
      BY <2>1, <3>1 DEF clear
  <2>2. CASE \E k \in Keys : remove_entry(k)
    <3>1. PICK k \in Keys : remove_entry(k)
      BY <2>2
    <3>2. PICK t : t = Filtered(actions, {a \in ActionRows : a.key # k})
      OBVIOUS
    <3>3. t \in Seq(ActionRows) /\ Distinct(t) /\ RowsOf(t) \subseteq RowsOf(actions)
      BY <1>1, <3>2, FilteredFacts
    <3>4. remove_ac_entries(actions, t, cas)
      BY <3>1, <3>2 DEF remove_entry
    <3> QED
      BY <3>3, <3>4
  <2> QED
    BY <2>1, <2>2
<1>3. still_linked /\ UNCHANGED <<to_flush, grown, wpc, wkey, wid, reading, read>>
  BY DEF clear, remove_entry, Keep_reader
<1> QED
  BY <1>2, <1>3, RemoveEntriesKeeps

\* The uses of rows are written to the database.
LEMMA FlushKeeps ==
    ASSUME DiskInv, flush_ac_usage
    PROVE  DiskInv'
<1>1. TablesFit(actions, cas) /\ PoolTypeOK /\ PoolFits /\ SizeNearLimit /\ ReadsRight
  BY DEF DiskInv
<1>2. actions' = Flushed /\ to_flush' = <<>>
      /\ UNCHANGED <<cas, grown, file, wpc, wkey, wid, linked, reading, read>>
  BY DEF flush_ac_usage, pool_vars
<1>3. PICK t : t = Flushed
  OBVIOUS
<1>4. t \in Seq(ActionRows) /\ Distinct(t) /\ RowsOf(t) = RowsOf(actions)
  BY <1>1, <1>3, FlushedFacts DEF TablesFit, PoolTypeOK
<1>5. TablesFit(t, cas)
  BY <1>1, <1>4 DEF TablesFit
<1>6. TablesFit(actions', cas')
  BY <1>2, <1>3, <1>5
<1>7. <<>> \in Seq(Ids)
  OBVIOUS
<1>8. PoolTypeOK'
  BY <1>1, <1>2, <1>7 DEF PoolTypeOK
<1>9. PoolFits' /\ ReadsRight' /\ SizeNearLimit'
  BY <1>1, <1>2 DEF PoolFits, ReadsRight, SizeNearLimit
<1> QED
  BY <1>6, <1>8, <1>9 DEF DiskInv

\* The process is killed and started again.
LEMMA RestartKeeps ==
    ASSUME DiskInv, restart
    PROVE  DiskInv'
<1>1. TablesFit(actions, cas) /\ PoolTypeOK
  BY DEF DiskInv
<1>2. SizeLimit \in Nat /\ SizeLimit \div 128 \in Nat
  BY DiskAssumption
<1>3. /\ to_flush' = <<>> /\ wpc' = [w \in Writers |-> "idle"]
      /\ wkey' = [w \in Writers |-> NoKey] /\ wid' = [w \in Writers |-> 0]
      /\ linked' = {} /\ reading' = NotReading /\ read' = "right"
  BY DEF restart
<1>4. /\ TablesFit(actions', cas') /\ grown' = 0
      /\ SizeOfRows(cas', DOMAIN cas') \in Nat
      /\ SizeOfRows(cas', DOMAIN cas') <= SizeLimit
      /\ file' \in [Digests -> {"absent", "partial", "complete"}]
  <2>1. PICK t, c : /\ t = Filtered(actions, {a \in ActionRows : a.cas_id \in ValidIds})
                    /\ c = [i \in ValidIds |-> cas[i]]
    OBVIOUS
  <2>2. CASE enforce_cache_size_limit(t, c)
    <3>1. actions \in Seq(ActionRows) /\ Distinct(actions)
      BY <1>1 DEF TablesFit
    <3>2. /\ t \in Seq(ActionRows) /\ Distinct(t)
          /\ RowsOf(t) = RowsOf(actions) \cap {a \in ActionRows : a.cas_id \in ValidIds}
      BY <2>1, <3>1, FilteredFacts
    <3>3. RowsOf(actions) \subseteq ActionRows
      BY <3>1 DEF RowsOf
    <3>4. /\ ValidIds \subseteq DOMAIN cas /\ DOMAIN c = ValidIds
          /\ \A i \in ValidIds : c[i] = cas[i]
      BY <2>1 DEF ValidIds
    <3>5. DOMAIN c \subseteq Ids /\ \A i \in DOMAIN c : c[i] \in CasRows
      BY <1>1, <3>4 DEF TablesFit
    <3>6. \A a \in RowsOf(t) : a.cas_id \in DOMAIN c /\ c[a.cas_id].digest = ValueOf[a.key]
      BY <1>1, <3>2, <3>4 DEF TablesFit
    <3>7. \A i, j \in DOMAIN c : c[i].digest = c[j].digest => i = j
      BY <1>1, <3>4 DEF TablesFit
    <3>8. \A i \in DOMAIN c : \E a \in RowsOf(t) : a.cas_id = i
      BY <1>1, <3>2, <3>3, <3>4 DEF TablesFit
    <3>9. TablesFit(t, c)
      BY <3>2, <3>5, <3>6, <3>7, <3>8 DEF TablesFit
    <3> QED
      BY <1>1, <2>2, <3>9, SweepKeeps DEF PoolTypeOK
  <2>3. CASE /\ actions' = <<>> /\ cas' = <<>> /\ grown' = 0
             /\ file' = [d \in Digests |-> "absent"]
    BY <1>2, <2>3, NoTables
  <2> QED
    BY <2>1, <2>2, <2>3 DEF restart
<1>5. SizeNearLimit'
  BY <1>2, <1>4 DEF SizeNearLimit
<1>6. PoolTypeOK'
  BY <1>2, <1>3, <1>4 DEF PoolTypeOK, NotReading
<1>7. PoolFits' /\ ReadsRight'
  BY <1>3 DEF PoolFits, ReadsRight
<1> QED
  BY <1>4, <1>5, <1>6, <1>7 DEF DiskInv

-----------------------------------------------------------------------------
(* The theorems.                                                           *)

\* DiskInv is an invariant of the disk cache.
THEOREM DiskInvariant ==
    DiskSpec => []DiskInv
<1>1. DiskInit => DiskInv
  BY InitHas
<1>2. DiskInv /\ [DiskNext]_vars => DiskInv'
  <2> SUFFICES ASSUME DiskInv, [DiskNext]_vars PROVE DiskInv'
    OBVIOUS
  <2>1. CASE \E w \in Writers, k \in Keys : insert(w, k) \/ initiate_insert(w, k)
    BY <2>1, InsertKeeps, InitiateKeeps
  <2>2. CASE \E w \in Writers :
               open_file(w) \/ write_file(w) \/ finish_insert(w) \/ write_fails(w)
    BY <2>2, WriteKeeps, FinishKeeps
  <2>3. CASE \E k \in Keys : find(k) \/ remove_entry(k)
    BY <2>3, FindKeeps, ClearKeeps
  <2>4. CASE read_file
    BY <2>4, ReadKeeps
  <2>5. CASE clear
    BY <2>5, ClearKeeps
  <2>6. CASE flush_ac_usage
    BY <2>6, FlushKeeps
  <2>7. CASE restart
    BY <2>7, RestartKeeps
  <2>8. CASE UNCHANGED vars
    BY <2>8 DEF vars, disk_vars, pool_vars, DiskInv, PoolTypeOK, PoolFits, SizeNearLimit, ReadsRight
  <2> QED
    BY <2>1, <2>2, <2>3, <2>4, <2>5, <2>6, <2>7, <2>8 DEF DiskNext
<1> QED
  BY <1>1, <1>2, PTL DEF DiskSpec

\* The rows of the two tables agree with each other, through concurrent
\* writes, evictions, reuse of ids and restarts.
THEOREM RowsStayConsistent ==
    DiskSpec => []RowsConsistent
BY DiskInvariant, DiskInvMeans, PTL

\* The cache exceeds its limit by no more than what was written since the
\* last sweep (record_cache_growth() and enforce_cache_size_limit()).
THEOREM SizeStaysNearLimit ==
    DiskSpec => []SizeNearLimit
<1>1. DiskInv => SizeNearLimit
  BY DEF DiskInv
<1> QED
  BY <1>1, DiskInvariant, PTL

\* A read returns the value of its key or nothing, whatever happens to the
\* row and its file between find() and the read.
THEOREM ReadsAreRight ==
    DiskSpec => []ReadsRight
<1>1. DiskInv => ReadsRight
  BY DEF DiskInv
<1> QED
  BY <1>1, DiskInvariant, PTL
=============================================================================
