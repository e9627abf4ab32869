--------------------------- MODULE ServicesProofs ---------------------------
(* Machine-checked proofs about Services, for every set of libraries and   *)
(* uuids, any number of calls, handler threads, blob files and restarts.   *)
EXTENDS Services, FiniteSetTheorems, SequenceTheorems, WellFoundedInduction, TLAPS

-----------------------------------------------------------------------------
(* The inductive invariant.                                                *)

Places == OnThread \cup Ended \cup {"idle", "queued", "relqueued"}

\* What the other parts need to know of the shapes of the variables.
ServicesShape ==
    /\ pc \in [Calls -> Places]
    /\ op \in [Calls -> Ops \cup {NoOp}]
    /\ queue \in Seq(Calls)
    /\ lockTable \in SUBSET Nat /\ nextLock \in Nat \ {0} /\ lockOf \in [Calls -> Nat]
    /\ dllMutex \in SUBSET Calls
    /\ controllers \in [Dlls -> Nat] /\ nextCat \in Nat \ {0}
    /\ entries \in [Uuids -> Seq(Nat)]
    /\ catOf \in [Calls -> Nat] /\ registered \in [Calls -> Nat]
    /\ nextFile \in Nat \ {0} /\ blobOf \in [Calls -> Nat]

\* A call that was made, and is not lost, knows what it asks for.
CallsKnown == \A c \in Calls : pc[c] \notin {"idle", "lost"} => op[c] \in Ops

\* The queue holds calls that wait for a handler thread, each once.
QueueOK ==
    /\ \A i \in DOMAIN queue : pc[queue[i]] \in {"queued", "relqueued"}
    /\ \A i, j \in DOMAIN queue : queue[i] = queue[j] => i = j

\* Places of a call that has not come to its lock yet.
BeforeLock == {"idle", "queued", "refused", "begin", "lock", "locking"}

\* Lock ids are handed out in order and never twice, also where the client has
\* released its lock, and also where undefined behaviour may have ended the process.
LocksOK ==
    /\ \A c \in Calls : lockOf[c] < nextLock
    /\ \A c, d \in Calls : lockOf[c] = lockOf[d] /\ lockOf[c] # 0 => c = d
    /\ \A c \in Calls : pc[c] \in BeforeLock => lockOf[c] = 0
    /\ \A l \in Nat : l \in lockTable <=>
          \E c \in Calls : lockOf[c] = l /\ lockOf[c] # 0 /\ pc[c] # "released"

\* A call at one of these places is inside dll_collection.
LoadSteps == {"open", "register"}

\* The mutex of dll_collection is that of the one call that loads a library, whose
\* controller is not there yet.
LoadingOK ==
    /\ \A c \in Calls : c \in dllMutex <=> pc[c] \in LoadSteps
    /\ \A c, d \in dllMutex : c = d
    /\ \A c \in dllMutex : controllers[op[c].dll] = 0

\* Catalog ids are handed out in order, and a library that is being loaded has the
\* latest one.
CatalogsOK ==
    /\ \A d \in Dlls : controllers[d] < nextCat
    /\ \A d, e \in Dlls : controllers[d] = controllers[e] /\ controllers[d] # 0 => d = e
    /\ \A c \in Calls :
          IF pc[c] = "register"
          THEN /\ catOf[c] = nextCat - 1 /\ catOf[c] # 0
               /\ \A d \in Dlls : controllers[d] < catOf[c]
               /\ registered[c] <= Len(UuidsOf[op[c].dll])
          ELSE registered[c] = 0

\* Catalog k has an entry for u: it is that of a loaded library which offers u, or of
\* the library that is being loaded, which has come that far.
OfLoaded(u, k) ==
    \E d \in Dlls : controllers[d] = k /\ k # 0 /\ Contains(UuidsOf[d], u)
OfLoading(u, k) ==
    \E c \in Calls : /\ pc[c] = "register" /\ catOf[c] = k
                     /\ \E i \in 1..registered[c] : UuidsOf[op[c].dll][i] = u
EntriesOK ==
    \A u \in Uuids :
       /\ \A k \in Nat : (\E i \in DOMAIN entries[u] : entries[u][i] = k)
                            <=> OfLoaded(u, k) \/ OfLoading(u, k)
       /\ \A i, j \in DOMAIN entries[u] : i < j => entries[u][i] > entries[u][j]

\* Blob files have numbers below the next one, no two calls the same one, and the file
\* of a call that has created it is the call's own.
FilesOK ==
    /\ \A f \in DOMAIN files : f \in Nat /\ f < nextFile
    /\ \A c \in Calls : blobOf[c] < nextFile
    /\ \A c, d \in Calls : blobOf[c] = blobOf[d] /\ blobOf[c] # 0 => c = d
    /\ \A c \in Calls : blobOf[c] # 0 /\ pc[c] # "file" =>
          blobOf[c] \in DOMAIN files /\ files[blobOf[c]] = c

ServicesInv ==
    /\ ServicesShape
    /\ CallsKnown
    /\ QueueOK
    /\ LocksOK
    /\ LoadingOK
    /\ CatalogsOK
    /\ EntriesOK
    /\ FilesOK

-----------------------------------------------------------------------------
(* Operators.                                                              *)

\* A nonempty set of natural numbers has a smallest element.
LEMMA SmallestElement ==
    ASSUME NEW S \in SUBSET Nat, S # {}
    PROVE  \E n \in S : \A m \in S : n <= m
<1> DEFINE R == {p \in Nat \X Nat : p[1] < p[2]}
<1>1. IsWellFoundedOn(R, Nat)
  BY NatLessThanWellFounded, Zenon DEF OpToRel
<1> HIDE DEF R
<1>2. PICK n \in S : \A m \in S : <<m, n>> \notin R
  BY <1>1, WFMin
<1>3. ASSUME NEW m \in S
      PROVE  n <= m
  <2>1. <<m, n>> \in R <=> m < n
    BY DEF R
  <2> QED
    BY <1>2, <2>1
<1> QED
  BY <1>3

\* Induction up to a bound, about the set of the numbers that have a property.
LEMMA InductionUpTo ==
    ASSUME NEW N \in Nat, NEW G \in SUBSET (0..N), 0 \in G,
           \A i \in G : i < N => i + 1 \in G
    PROVE  G = 0..N
<1> SUFFICES ASSUME (0..N) \ G # {}
             PROVE  FALSE
  OBVIOUS
<1>1. PICK B : B = (0..N) \ G
  OBVIOUS
<1>2. B \in SUBSET Nat /\ B # {}
  BY <1>1
<1>3. PICK n \in B : \A m \in B : n <= m
  BY <1>2, SmallestElement
<1>4. n - 1 \in G
  BY <1>1, <1>3
<1> QED
  BY <1>1, <1>3, <1>4

\* The largest element of a set of naturals that has a bound.
LEMMA MaxFacts ==
    ASSUME NEW S \in SUBSET Nat, S # {}, NEW b \in Nat, \A n \in S : n <= b
    PROVE  Max(S) \in S /\ \A n \in S : n <= Max(S)
<1> DEFINE D == {b - n : n \in S}
<1>1. D \in SUBSET Nat /\ D # {}
  <2>1. \A n \in S : b - n \in Nat
    OBVIOUS
  <2> QED
    BY <2>1
<1>2. PICK d \in D : \A e \in D : d <= e
  BY <1>1, SmallestElement
<1>3. PICK x \in S : d = b - x
  OBVIOUS
<1>4. \A y \in S : x >= y
  <2> TAKE y \in S
  <2>1. b - y \in D
    OBVIOUS
  <2> QED
    BY <1>2, <1>3, <2>1
<1> QED
  BY <1>4 DEF Max

\* What a sequence holds once an element is appended.
LEMMA AppendFacts ==
    ASSUME NEW S, NEW q \in Seq(S), NEW e \in S
    PROVE  /\ Append(q, e) \in Seq(S) /\ DOMAIN Append(q, e) = DOMAIN q \cup {Len(q) + 1}
           /\ Len(q) + 1 \notin DOMAIN q /\ Append(q, e)[Len(q) + 1] = e
           /\ \A i \in DOMAIN q : Append(q, e)[i] = q[i]
OBVIOUS

Descending(s) == \A i, j \in DOMAIN s : i < j => s[i] > s[j]

\* What follows the prefix of length i of s, when f says what is kept of the shorter ones.
KeptStep(s, cat, f, i) == IF i = 0 THEN <<>>
                          ELSE IF s[i] = cat THEN f[i - 1]
                          ELSE Append(f[i - 1], s[i])

\* The recursive function of Without exists, up to every prefix.
LEMMA KeptExists ==
    ASSUME NEW s \in Seq(Nat), NEW cat \in Nat
    PROVE  \E f : f = [i \in 0..Len(s) |-> KeptStep(s, cat, f, i)]
<1> DEFINE N == Len(s)
           P(n) == \E f : f = [i \in 0..n |-> KeptStep(s, cat, f, i)]
           G == {n \in 0..N : P(n)}
<1>1. N \in Nat
  OBVIOUS
<1>2. 0 \in G
  <2>1. PICK f : f = [i \in 0..0 |-> <<>>]
    OBVIOUS
  <2>2. f = [i \in 0..0 |-> KeptStep(s, cat, f, i)]
    BY <2>1 DEF KeptStep
  <2> QED
    BY <1>1, <2>2
<1>3. ASSUME NEW n \in G, n < N
      PROVE  n + 1 \in G
  <2>1. PICK f : f = [i \in 0..n |-> KeptStep(s, cat, f, i)]
    OBVIOUS
  <2>2. PICK g : g = [i \in 0..(n + 1) |-> KeptStep(s, cat, f, i)]
    OBVIOUS
  <2>3. \A i \in 0..n : g[i] = f[i]
    <3> TAKE i \in 0..n
    <3>1. f[i] = KeptStep(s, cat, f, i)
      BY ONLY <2>1
    <3>2. i \in 0..(n + 1)
      BY <1>1, <1>3
    <3>3. g[i] = KeptStep(s, cat, f, i)
      BY ONLY <2>2, <3>2
    <3> QED
      BY <3>1, <3>3
  <2>4. \A i \in 0..(n + 1) : KeptStep(s, cat, f, i) = KeptStep(s, cat, g, i)
    BY <2>3, <1>1, <1>3 DEF KeptStep
  <2>5. g = [i \in 0..(n + 1) |-> KeptStep(s, cat, g, i)]
    BY <2>2, <2>4
  <2> QED
    BY <1>1, <1>3, <2>5
<1> HIDE DEF P
<1>4. G = 0..N
  BY <1>1, <1>2, <1>3, InductionUpTo
<1>5. P(N)
  BY <1>1, <1>4
<1> QED
  BY <1>5 DEF P

\* Without takes the entries of a catalog out of a list, and keeps the others in order.
LEMMA WithoutFacts ==
    ASSUME NEW s \in Seq(Nat), NEW cat \in Nat, Descending(s)
    PROVE  /\ Without(s, cat) \in Seq(Nat)
           /\ \A k \in Nat : (\E i \in DOMAIN Without(s, cat) : Without(s, cat)[i] = k)
                                <=> k # cat /\ \E i \in DOMAIN s : s[i] = k
           /\ Descending(Without(s, cat))
<1> DEFINE N == Len(s)
           Eq(f) == f = [i \in 0..N |-> KeptStep(s, cat, f, i)]
<1>1. \E f : Eq(f)
  BY KeptExists
<1>2. PICK kept : Eq(kept) /\ Without(s, cat) = kept[N]
  <2>1. Eq(CHOOSE f : Eq(f))
    BY ONLY <1>1
  <2>2. Without(s, cat) = (CHOOSE f : Eq(f))[N]
    BY DEF Without, KeptStep
  <2> QED
    BY ONLY <2>1, <2>2
<1> DEFINE Right(n) == /\ kept[n] \in Seq(Nat)
                       /\ \A k \in Nat : (\E i \in DOMAIN kept[n] : kept[n][i] = k)
                                            <=> k # cat /\ \E i \in 1..n : s[i] = k
                       /\ Descending(kept[n])
           G == {n \in 0..N : Right(n)}
<1>3. N \in Nat /\ DOMAIN s = 1..N
  OBVIOUS
<1>4. \A n \in 0..N : kept[n] = KeptStep(s, cat, kept, n)
  BY ONLY <1>2
<1> HIDE DEF Eq
<1>5. 0 \in G
  <2>1. kept[0] = <<>>
    BY <1>3, <1>4 DEF KeptStep
  <2>2. Right(0)
    BY <2>1 DEF Descending
  <2> QED
    BY <1>3, <2>2
<1>6. ASSUME NEW n \in G, n < N
      PROVE  n + 1 \in G
  <2>1. n \in Nat /\ n + 1 \in 0..N /\ n + 1 \in 1..N /\ s[n + 1] \in Nat
    BY <1>3, <1>6
  <2>2. Right(n)
    BY <1>6
  <2>3. kept[n + 1] = IF s[n + 1] = cat THEN kept[n] ELSE Append(kept[n], s[n + 1])
    BY <1>4, <2>1 DEF KeptStep
  <2>0. \A k \in Nat : (\E i \in 1..(n + 1) : s[i] = k)
                          <=> k = s[n + 1] \/ \E i \in 1..n : s[i] = k
    BY <2>1
  <2>4. CASE s[n + 1] = cat
    <3>1. kept[n + 1] = kept[n]
      BY <2>3, <2>4
    <3>2. \A k \in Nat : (k # cat /\ \E i \in 1..(n + 1) : s[i] = k)
                            <=> (k # cat /\ \E i \in 1..n : s[i] = k)
      BY <2>0, <2>4
    <3>3. Right(n + 1)
      BY <2>2, <3>1, <3>2
    <3> QED
      BY <2>1, <3>3
  <2>5. CASE s[n + 1] # cat
    <3>1. PICK q, e : q = kept[n] /\ e = s[n + 1]
      OBVIOUS
    <3>2. q \in Seq(Nat) /\ e \in Nat /\ e # cat
      BY <2>1, <2>2, <2>5, <3>1
    <3>3. kept[n + 1] = Append(q, e)
      BY <2>3, <2>5, <3>1
    <3>4. /\ Append(q, e) \in Seq(Nat) /\ DOMAIN Append(q, e) = DOMAIN q \cup {Len(q) + 1}
          /\ Len(q) + 1 \notin DOMAIN q /\ Append(q, e)[Len(q) + 1] = e
          /\ \A i \in DOMAIN q : Append(q, e)[i] = q[i]
      BY <3>2, AppendFacts
    <3>5. \A k \in Nat : (\E i \in DOMAIN q : q[i] = k) <=> k # cat /\ \E i \in 1..n : s[i] = k
      BY <2>2, <3>1
    <3>6. \A k \in Nat : (\E i \in 1..(n + 1) : s[i] = k) <=> k = e \/ \E i \in 1..n : s[i] = k
      BY <2>0, <3>1
    <3>7. \A k \in Nat : (\E i \in DOMAIN Append(q, e) : Append(q, e)[i] = k)
                            <=> k # cat /\ \E i \in 1..(n + 1) : s[i] = k
      <4>1. \A k : (\E i \in DOMAIN Append(q, e) : Append(q, e)[i] = k)
                      <=> k = e \/ \E i \in DOMAIN q : q[i] = k
        BY ONLY <3>4
      <4> QED
        BY <3>2, <3>5, <3>6, <4>1
    <3>8. \A i \in DOMAIN q : q[i] > e
      <4> TAKE i \in DOMAIN q
      <4>1. q[i] \in Nat
        BY <3>2
      <4>2. PICK j \in 1..n : s[j] = q[i]
        BY <3>5, <4>1
      <4>3. j \in DOMAIN s /\ n + 1 \in DOMAIN s /\ j < n + 1
        BY <1>3, <2>1
      <4> QED
        BY <3>1, <4>2, <4>3 DEF Descending
    <3>9. Descending(Append(q, e))
      <4>1. Descending(q) /\ DOMAIN q = 1..Len(q) /\ Len(q) \in Nat
        BY <2>2, <3>1, <3>2
      <4> QED
        BY <3>4, <3>8, <4>1 DEF Descending
    <3>10. Right(n + 1)
      BY <3>3, <3>4, <3>7, <3>9
    <3> QED
      BY <2>1, <3>10
  <2> QED
    BY <2>4, <2>5
<1> HIDE DEF Right
<1>7. G = 0..N
  BY <1>3, <1>5, <1>6, InductionUpTo
<1>8. Right(N)
  BY <1>3, <1>7
<1> QED
  BY <1>2, <1>3, <1>8 DEF Right

-----------------------------------------------------------------------------
(* What the steps of a call leave alone.                                   *)

LibraryFrame ==
    /\ UNCHANGED library
    /\ \A d \in Calls : /\ pc'[d] = "open" <=> pc[d] = "open"
                        /\ pc'[d] = "register" <=> pc[d] = "register"
                        /\ pc[d] \in LoadSteps => catOf'[d] = catOf[d] /\ op'[d] = op[d]

\* unregister_catalog() leaves lists of catalog ids.
LEMMA UnregisterShape ==
    ASSUME entries \in [Uuids -> Seq(Nat)], EntriesOK, NEW cat \in Nat, Unregister(cat)
    PROVE  entries' \in [Uuids -> Seq(Nat)]
<1>1. \A u \in Uuids : Without(entries[u], cat) \in Seq(Nat)
  BY WithoutFacts DEF EntriesOK, Descending
<1> QED
  BY <1>1 DEF Unregister

\* A step of a call keeps the shapes of the variables.
LEMMA ShapeStep ==
    ASSUME ServicesShape, CallsKnown, EntriesOK, NEW c \in Calls,
           ThreadStep(c) \/ OtherStep(c)
    PROVE  ServicesShape'
<1>1. CASE ClaimThread(c)
  BY <1>1, ServicesAssumption DEF ClaimThread, locking, library, blobs, tracking,
     Moves, ServicesShape, CallsKnown, Places, OnThread, Ended
<1>2. CASE AllocBegins(c)
  BY <1>2, ServicesAssumption DEF AllocBegins, MayCrash, locking, library, blobs,
     tracking, Moves, ServicesShape, CallsKnown, Places, OnThread, Ended
<1>3. CASE AllocateLock(c)
  BY <1>3, ServicesAssumption DEF AllocateLock, locking, library, blobs, tracking,
     Moves, ServicesShape, CallsKnown, Places, OnThread, Ended
<1>4. CASE EraseBegins(c)
  BY <1>4, ServicesAssumption DEF EraseBegins, MayCrash, locking, library, blobs,
     tracking, Moves, ServicesShape, CallsKnown, Places, OnThread, Ended
<1>5. CASE EraseLock(c)
  BY <1>5, ServicesAssumption DEF EraseLock, locking, library, blobs, tracking, Moves,
     ServicesShape, CallsKnown, Places, OnThread, Ended
<1>6. CASE Prepare(c)
  BY <1>6, ServicesAssumption DEF Prepare, locking, library, blobs, tracking, Moves,
     ServicesShape, CallsKnown, Places, OnThread, Ended
<1>7. CASE Lookup(c)
  <2>1. op[c].uuid \in Uuids
    BY <1>7, ServicesAssumption DEF Lookup, CallsKnown
  <2>2. entries[op[c].uuid] # <<>> => Head(entries[op[c].uuid]) \in Nat
    BY <2>1 DEF ServicesShape
  <2>3. catOf' \in [Calls -> Nat]
    BY <1>7, <2>2 DEF Lookup, FindEntry, ServicesShape
  <2> QED
    BY <1>7, <2>3 DEF Lookup, Fails, ReleaseThread, FinishTasklet, StartTasklet, FindEntry,
       MayCrash, locking, library, blobs, tracking, Moves, ServicesShape, Places, OnThread, Ended
<1>8. CASE UseEntry(c)
  BY <1>8, ServicesAssumption DEF UseEntry, Fails, ReleaseThread, FinishTasklet,
     MayCrash, locking, library, blobs, tracking, Moves, ServicesShape, CallsKnown,
     Places, OnThread, Ended
<1>9. CASE CreateFile(c)
  BY <1>9, ServicesAssumption DEF CreateFile, locking, library, blobs, tracking,
     Moves, ServicesShape, CallsKnown, Places, OnThread, Ended
<1>10. CASE Complete(c)
  BY <1>10, ServicesAssumption DEF Complete, ReleaseThread, locking, library, blobs,
     tracking, Moves, ServicesShape, CallsKnown, Places, OnThread, Ended
<1>11. CASE LoadBegins(c)
  BY <1>11, ServicesAssumption DEF LoadBegins, locking, library, blobs, tracking,
     Moves, ServicesShape, CallsKnown, Places, OnThread, Ended
<1>12. CASE Open(c)
  BY <1>12, ServicesAssumption DEF Open, locking, library, blobs, tracking, Moves,
     ServicesShape, CallsKnown, Places, OnThread, Ended
<1>13. CASE OpenFails(c)
  BY <1>13, ServicesAssumption DEF OpenFails, locking, library, blobs, tracking,
     Moves, ServicesShape, CallsKnown, Places, OnThread, Ended
<1>14. CASE Register(c)
  <2>1. op[c].dll \in Dlls
    BY <1>14, ServicesAssumption DEF Register, CallsKnown
  <2>2. UuidsOf[op[c].dll][registered[c] + 1] \in Uuids
    BY <1>14, <2>1, ServicesAssumption DEF Register, ServicesShape
  <2>3. \A s \in Seq(Nat) : \A n \in Nat : <<n>> \o s \in Seq(Nat)
    OBVIOUS
  <2>4. entries' \in [Uuids -> Seq(Nat)]
    BY <1>14, <2>2, <2>3 DEF Register, Add, ServicesShape
  <2> QED
    BY <1>14, <2>4 DEF Register, locking, blobs, ServicesShape
<1>15. CASE RegisterFails(c)
  <2>1. entries' \in [Uuids -> Seq(Nat)]
    BY <1>15, UnregisterShape DEF RegisterFails, ServicesShape
  <2> QED
    BY <1>15, <2>1 DEF RegisterFails, Forgets, locking, blobs, Moves, ServicesShape, Places,
       OnThread, Ended
<1>16. CASE LoadEnds(c)
  BY <1>16, ServicesAssumption DEF LoadEnds, Forgets, locking, library, blobs,
     tracking, Moves, ServicesShape, CallsKnown, Places, OnThread, Ended
<1>17. CASE Unload(c)
  <2>1. op[c].dll \in Dlls
    BY <1>17, ServicesAssumption DEF Unload, CallsKnown
  <2>2. entries' \in [Uuids -> Seq(Nat)]
    BY <1>17, <2>1, UnregisterShape DEF Unload, ServicesShape
  <2>3. controllers' \in [Dlls -> Nat]
    <3>1. controllers' = controllers \/ controllers' = [controllers EXCEPT ![op[c].dll] = 0]
      BY <1>17 DEF Unload
    <3> QED
      <4>1. PICK d \in Dlls : d = op[c].dll
        BY <2>1
      <4>2. controllers \in [Dlls -> Nat] /\ 0 \in Nat
        BY DEF ServicesShape
      <4> QED
        BY ONLY <3>1, <4>1, <4>2
  <2>4. pc' \in [Calls -> Places]
    BY <1>17 DEF Unload, Moves, ServicesShape, Places, OnThread, Ended
  <2> QED
    BY <1>17, <2>2, <2>3, <2>4 DEF Unload, locking, blobs, ServicesShape
<1>18. CASE GetTaskletInfos(c)
  BY <1>18, ServicesAssumption DEF GetTaskletInfos, MayCrash, locking, library, blobs,
     tracking, Moves, ServicesShape, CallsKnown, Places, OnThread, Ended
<1>19. CASE ClearInfo(c)
  BY <1>19, ServicesAssumption DEF ClearInfo, locking, library, blobs, tracking,
     Moves, ServicesShape, CallsKnown, Places, OnThread, Ended
<1>20. CASE StoreRequest(c)
  BY <1>20, ServicesAssumption DEF StoreRequest, locking, library, blobs, tracking,
     Moves, ServicesShape, CallsKnown, Places, OnThread, Ended
<1>21. CASE Send(c)
  <2>1. Append(queue, c) \in Seq(Calls)
    BY AppendFacts DEF ServicesShape
  <2>2. pc' \in [Calls -> Places]
    BY <1>21 DEF Send, RpcCall, LoopbackCall, Moves, ServicesShape, Places, OnThread, Ended
  <2> QED
    BY <1>21, <2>1, <2>2 DEF Send, RpcCall, LoopbackCall, locking, library, blobs, ServicesShape
<1>22. CASE Retry(c)
  BY <1>22, ServicesAssumption DEF Retry, RpcCall, locking, library, blobs, tracking,
     Moves, ServicesShape, CallsKnown, Places, OnThread, Ended
<1>23. CASE SendRelease(c)
  <2>1. Append(queue, c) \in Seq(Calls)
    BY AppendFacts DEF ServicesShape
  <2>2. pc' \in [Calls -> Places]
    BY <1>23 DEF SendRelease, RpcCall, LoopbackCall, Moves, ServicesShape, Places, OnThread,
       Ended
  <2> QED
    BY <1>23, <2>1, <2>2 DEF SendRelease, RpcCall, LoopbackCall, locking, library, blobs,
       ServicesShape
<1>24. CASE AllocateFile(c)
  BY <1>24, ServicesAssumption DEF AllocateFile, locking, library, blobs, tracking,
     Moves, ServicesShape, CallsKnown, Places, OnThread, Ended
<1>25. CASE Return(c)
  BY <1>25, ServicesAssumption DEF Return, FinishTasklet, locking, library, blobs,
     tracking, Moves, ServicesShape, CallsKnown, Places, OnThread, Ended
<1>26. CASE Throw(c)
  BY <1>26, ServicesAssumption DEF Throw, Fails, ReleaseThread, FinishTasklet,
     locking, library, blobs, tracking, Moves, ServicesShape, CallsKnown, Places,
     OnThread, Ended
<1> QED
  BY <1>1, <1>2, <1>3, <1>4, <1>5, <1>6, <1>7, <1>8, <1>9, <1>10, <1>11, <1>12, <1>13,
     <1>14, <1>15, <1>16, <1>17, <1>18, <1>19, <1>20, <1>21, <1>22, <1>23, <1>24,
     <1>25, <1>26 DEF ThreadStep, OtherStep

\* A call that was made, and is not lost, still knows what it asks for.
LEMMA KnownStep ==
    ASSUME ServicesShape, CallsKnown, NEW c \in Calls,
           ThreadStep(c) \/ OtherStep(c)
    PROVE  CallsKnown'
<1>1. CASE ClaimThread(c)
  BY <1>1 DEF ClaimThread, locking, library, blobs, tracking, Moves, ServicesShape,
     CallsKnown
<1>2. CASE AllocBegins(c)
  BY <1>2 DEF AllocBegins, MayCrash, locking, library, blobs, tracking, Moves,
     ServicesShape, CallsKnown
<1>3. CASE AllocateLock(c)
  BY <1>3 DEF AllocateLock, locking, library, blobs, tracking, Moves, ServicesShape,
     CallsKnown
<1>4. CASE EraseBegins(c)
  BY <1>4 DEF EraseBegins, MayCrash, locking, library, blobs, tracking, Moves,
     ServicesShape, CallsKnown
<1>5. CASE EraseLock(c)
  BY <1>5 DEF EraseLock, locking, library, blobs, tracking, Moves, ServicesShape,
     CallsKnown
<1>6. CASE Prepare(c)
  BY <1>6 DEF Prepare, locking, library, blobs, tracking, Moves, ServicesShape,
     CallsKnown
<1>7. CASE Lookup(c)
  BY <1>7 DEF Lookup, Fails, ReleaseThread, FinishTasklet, StartTasklet, FindEntry,
     MayCrash, locking, library, blobs, tracking, Moves, ServicesShape, CallsKnown
<1>8. CASE UseEntry(c)
  BY <1>8 DEF UseEntry, Fails, ReleaseThread, FinishTasklet, MayCrash, locking,
     library, blobs, tracking, Moves, ServicesShape, CallsKnown
<1>9. CASE CreateFile(c)
  BY <1>9 DEF CreateFile, locking, library, blobs, tracking, Moves, ServicesShape,
     CallsKnown
<1>10. CASE Complete(c)
  BY <1>10 DEF Complete, ReleaseThread, locking, library, blobs, tracking, Moves,
     ServicesShape, CallsKnown
<1>11. CASE LoadBegins(c)
  BY <1>11 DEF LoadBegins, locking, library, blobs, tracking, Moves, ServicesShape,
     CallsKnown
<1>12. CASE Open(c)
  BY <1>12 DEF Open, locking, library, blobs, tracking, Moves, ServicesShape,
     CallsKnown
<1>13. CASE OpenFails(c)
  BY <1>13 DEF OpenFails, locking, library, blobs, tracking, Moves, ServicesShape,
     CallsKnown
<1>14. CASE Register(c)
  BY <1>14 DEF Register, Add, DetectDuplicate, locking, library, blobs, tracking,
     Moves, ServicesShape, CallsKnown
<1>15. CASE RegisterFails(c)
  BY <1>15 DEF RegisterFails, Unregister, Forgets, locking, library, blobs, tracking,
     Moves, ServicesShape, CallsKnown
<1>16. CASE LoadEnds(c)
  BY <1>16 DEF LoadEnds, Forgets, locking, library, blobs, tracking, Moves,
     ServicesShape, CallsKnown
<1>17. CASE Unload(c)
  BY <1>17 DEF Unload, Unregister, locking, library, blobs, tracking, Moves,
     ServicesShape, CallsKnown
<1>18. CASE GetTaskletInfos(c)
  BY <1>18 DEF GetTaskletInfos, MayCrash, locking, library, blobs, tracking, Moves,
     ServicesShape, CallsKnown
<1>19. CASE ClearInfo(c)
  BY <1>19 DEF ClearInfo, locking, library, blobs, tracking, Moves, ServicesShape,
     CallsKnown
<1>20. CASE StoreRequest(c)
  BY <1>20 DEF StoreRequest, locking, library, blobs, tracking, Moves, ServicesShape,
     CallsKnown
<1>21. CASE Send(c)
  BY <1>21 DEF Send, RpcCall, LoopbackCall, locking, library, blobs, tracking, Moves,
     ServicesShape, CallsKnown
<1>22. CASE Retry(c)
  BY <1>22 DEF Retry, RpcCall, locking, library, blobs, tracking, Moves,
     ServicesShape, CallsKnown
<1>23. CASE SendRelease(c)
  BY <1>23 DEF SendRelease, RpcCall, LoopbackCall, locking, library, blobs, tracking,
     Moves, ServicesShape, CallsKnown
<1>24. CASE AllocateFile(c)
  BY <1>24 DEF AllocateFile, locking, library, blobs, tracking, Moves, ServicesShape,
     CallsKnown
<1>25. CASE Return(c)
  BY <1>25 DEF Return, FinishTasklet, locking, library, blobs, tracking, Moves,
     ServicesShape, CallsKnown
<1>26. CASE Throw(c)
  BY <1>26 DEF Throw, Fails, ReleaseThread, FinishTasklet, locking, library, blobs,
     tracking, Moves, ServicesShape, CallsKnown
<1> QED
  BY <1>1, <1>2, <1>3, <1>4, <1>5, <1>6, <1>7, <1>8, <1>9, <1>10, <1>11, <1>12, <1>13,
     <1>14, <1>15, <1>16, <1>17, <1>18, <1>19, <1>20, <1>21, <1>22, <1>23, <1>24,
     <1>25, <1>26 DEF ThreadStep, OtherStep

\* Only AllocateFile and CreateFile touch the blob files.
LEMMA FilesFrameStep ==
    ASSUME ServicesShape, NEW c \in Calls,
           ThreadStep(c) \/ OtherStep(c)
    PROVE  \/ AllocateFile(c) \/ CreateFile(c)
           \/ /\ UNCHANGED <<files, nextFile, blobOf>>
              /\ \A d \in Calls : pc[d] = "file" => pc'[d] = "file"
<1>1. CASE ClaimThread(c)
  BY <1>1 DEF ClaimThread, locking, library, blobs, tracking, Moves, ServicesShape
<1>2. CASE AllocBegins(c)
  BY <1>2 DEF AllocBegins, MayCrash, locking, library, blobs, tracking, Moves,
     ServicesShape
<1>3. CASE AllocateLock(c)
  BY <1>3 DEF AllocateLock, locking, library, blobs, tracking, Moves, ServicesShape
<1>4. CASE EraseBegins(c)
  BY <1>4 DEF EraseBegins, MayCrash, locking, library, blobs, tracking, Moves,
     ServicesShape
<1>5. CASE EraseLock(c)
  BY <1>5 DEF EraseLock, locking, library, blobs, tracking, Moves, ServicesShape
<1>6. CASE Prepare(c)
  BY <1>6 DEF Prepare, locking, library, blobs, tracking, Moves, ServicesShape
<1>7. CASE Lookup(c)
  BY <1>7 DEF Lookup, Fails, ReleaseThread, FinishTasklet, StartTasklet, FindEntry,
     MayCrash, locking, library, blobs, tracking, Moves, ServicesShape
<1>8. CASE UseEntry(c)
  BY <1>8 DEF UseEntry, Fails, ReleaseThread, FinishTasklet, MayCrash, locking,
     library, blobs, tracking, Moves, ServicesShape
<1>9. CASE CreateFile(c)
  BY <1>9 DEF CreateFile, locking, library, blobs, tracking, Moves, ServicesShape
<1>10. CASE Complete(c)
  BY <1>10 DEF Complete, ReleaseThread, locking, library, blobs, tracking, Moves,
     ServicesShape
<1>11. CASE LoadBegins(c)
  BY <1>11 DEF LoadBegins, locking, library, blobs, tracking, Moves, ServicesShape
<1>12. CASE Open(c)
  BY <1>12 DEF Open, locking, library, blobs, tracking, Moves, ServicesShape
<1>13. CASE OpenFails(c)
  BY <1>13 DEF OpenFails, locking, library, blobs, tracking, Moves, ServicesShape
<1>14. CASE Register(c)
  BY <1>14 DEF Register, Add, DetectDuplicate, locking, library, blobs, tracking,
     Moves, ServicesShape
<1>15. CASE RegisterFails(c)
  BY <1>15 DEF RegisterFails, Unregister, Forgets, locking, library, blobs, tracking,
     Moves, ServicesShape
<1>16. CASE LoadEnds(c)
  BY <1>16 DEF LoadEnds, Forgets, locking, library, blobs, tracking, Moves,
     ServicesShape
<1>17. CASE Unload(c)
  BY <1>17 DEF Unload, Unregister, locking, library, blobs, tracking, Moves,
     ServicesShape
<1>18. CASE GetTaskletInfos(c)
  BY <1>18 DEF GetTaskletInfos, MayCrash, locking, library, blobs, tracking, Moves,
     ServicesShape
<1>19. CASE ClearInfo(c)
  BY <1>19 DEF ClearInfo, locking, library, blobs, tracking, Moves, ServicesShape
<1>20. CASE StoreRequest(c)
  BY <1>20 DEF StoreRequest, locking, library, blobs, tracking, Moves, ServicesShape
<1>21. CASE Send(c)
  BY <1>21 DEF Send, RpcCall, LoopbackCall, locking, library, blobs, tracking, Moves,
     ServicesShape
<1>22. CASE Retry(c)
  BY <1>22 DEF Retry, RpcCall, locking, library, blobs, tracking, Moves, ServicesShape
<1>23. CASE SendRelease(c)
  BY <1>23 DEF SendRelease, RpcCall, LoopbackCall, locking, library, blobs, tracking,
     Moves, ServicesShape
<1>24. CASE AllocateFile(c)
  BY <1>24 DEF AllocateFile, locking, library, blobs, tracking, Moves, ServicesShape
<1>25. CASE Return(c)
  BY <1>25 DEF Return, FinishTasklet, locking, library, blobs, tracking, Moves,
     ServicesShape
<1>26. CASE Throw(c)
  BY <1>26 DEF Throw, Fails, ReleaseThread, FinishTasklet, locking, library, blobs,
     tracking, Moves, ServicesShape
<1> QED
  BY <1>1, <1>2, <1>3, <1>4, <1>5, <1>6, <1>7, <1>8, <1>9, <1>10, <1>11, <1>12, <1>13,
     <1>14, <1>15, <1>16, <1>17, <1>18, <1>19, <1>20, <1>21, <1>22, <1>23, <1>24,
     <1>25, <1>26 DEF ThreadStep, OtherStep

\* Only AllocateLock and EraseLock touch the table of locks.
LEMMA LocksFrameStep ==
    ASSUME ServicesShape, NEW c \in Calls,
           ThreadStep(c) \/ OtherStep(c)
    PROVE  \/ AllocateLock(c) \/ EraseLock(c)
           \/ /\ UNCHANGED <<lockTable, nextLock, lockOf>>
              /\ \A d \in Calls : /\ pc'[d] \in BeforeLock => pc[d] \in BeforeLock
                                  /\ pc'[d] = "released" <=> pc[d] = "released"
<1>1. CASE ClaimThread(c)
  BY <1>1 DEF ClaimThread, locking, library, blobs, tracking, Moves, ServicesShape,
     BeforeLock
<1>2. CASE AllocBegins(c)
  BY <1>2 DEF AllocBegins, MayCrash, locking, library, blobs, tracking, Moves,
     ServicesShape, BeforeLock
<1>3. CASE AllocateLock(c)
  BY <1>3 DEF AllocateLock, locking, library, blobs, tracking, Moves, ServicesShape,
     BeforeLock
<1>4. CASE EraseBegins(c)
  BY <1>4 DEF EraseBegins, MayCrash, locking, library, blobs, tracking, Moves,
     ServicesShape, BeforeLock
<1>5. CASE EraseLock(c)
  BY <1>5 DEF EraseLock, locking, library, blobs, tracking, Moves, ServicesShape,
     BeforeLock
<1>6. CASE Prepare(c)
  BY <1>6 DEF Prepare, locking, library, blobs, tracking, Moves, ServicesShape,
     BeforeLock
<1>7. CASE Lookup(c)
  BY <1>7 DEF Lookup, Fails, ReleaseThread, FinishTasklet, StartTasklet, FindEntry,
     MayCrash, locking, library, blobs, tracking, Moves, ServicesShape, BeforeLock
<1>8. CASE UseEntry(c)
  BY <1>8 DEF UseEntry, Fails, ReleaseThread, FinishTasklet, MayCrash, locking,
     library, blobs, tracking, Moves, ServicesShape, BeforeLock
<1>9. CASE CreateFile(c)
  BY <1>9 DEF CreateFile, locking, library, blobs, tracking, Moves, ServicesShape,
     BeforeLock
<1>10. CASE Complete(c)
  BY <1>10 DEF Complete, ReleaseThread, locking, library, blobs, tracking, Moves,
     ServicesShape, BeforeLock
<1>11. CASE LoadBegins(c)
  BY <1>11 DEF LoadBegins, locking, library, blobs, tracking, Moves, ServicesShape,
     BeforeLock
<1>12. CASE Open(c)
  BY <1>12 DEF Open, locking, library, blobs, tracking, Moves, ServicesShape,
     BeforeLock
<1>13. CASE OpenFails(c)
  BY <1>13 DEF OpenFails, locking, library, blobs, tracking, Moves, ServicesShape,
     BeforeLock
<1>14. CASE Register(c)
  BY <1>14 DEF Register, Add, DetectDuplicate, locking, library, blobs, tracking,
     Moves, ServicesShape, BeforeLock
<1>15. CASE RegisterFails(c)
  BY <1>15 DEF RegisterFails, Unregister, Forgets, locking, library, blobs, tracking,
     Moves, ServicesShape, BeforeLock
<1>16. CASE LoadEnds(c)
  BY <1>16 DEF LoadEnds, Forgets, locking, library, blobs, tracking, Moves,
     ServicesShape, BeforeLock
<1>17. CASE Unload(c)
  BY <1>17 DEF Unload, Unregister, locking, library, blobs, tracking, Moves,
     ServicesShape, BeforeLock
<1>18. CASE GetTaskletInfos(c)
  BY <1>18 DEF GetTaskletInfos, MayCrash, locking, library, blobs, tracking, Moves,
     ServicesShape, BeforeLock
<1>19. CASE ClearInfo(c)
  BY <1>19 DEF ClearInfo, locking, library, blobs, tracking, Moves, ServicesShape,
     BeforeLock
<1>20. CASE StoreRequest(c)
  BY <1>20 DEF StoreRequest, locking, library, blobs, tracking, Moves, ServicesShape,
     BeforeLock
<1>21. CASE Send(c)
  BY <1>21 DEF Send, RpcCall, LoopbackCall, locking, library, blobs, tracking, Moves,
     ServicesShape, BeforeLock
<1>22. CASE Retry(c)
  BY <1>22 DEF Retry, RpcCall, locking, library, blobs, tracking, Moves,
     ServicesShape, BeforeLock
<1>23. CASE SendRelease(c)
  BY <1>23 DEF SendRelease, RpcCall, LoopbackCall, locking, library, blobs, tracking,
     Moves, ServicesShape, BeforeLock
<1>24. CASE AllocateFile(c)
  BY <1>24 DEF AllocateFile, locking, library, blobs, tracking, Moves, ServicesShape,
     BeforeLock
<1>25. CASE Return(c)
  BY <1>25 DEF Return, FinishTasklet, locking, library, blobs, tracking, Moves,
     ServicesShape, BeforeLock
<1>26. CASE Throw(c)
  BY <1>26 DEF Throw, Fails, ReleaseThread, FinishTasklet, locking, library, blobs,
     tracking, Moves, ServicesShape, BeforeLock
<1> QED
  BY <1>1, <1>2, <1>3, <1>4, <1>5, <1>6, <1>7, <1>8, <1>9, <1>10, <1>11, <1>12, <1>13,
     <1>14, <1>15, <1>16, <1>17, <1>18, <1>19, <1>20, <1>21, <1>22, <1>23, <1>24,
     <1>25, <1>26 DEF ThreadStep, OtherStep

\* Only the clients' steps add to the queue, and a call in the queue stays where it is.
LEMMA QueueFrameStep ==
    ASSUME ServicesShape, NEW c \in Calls,
           ThreadStep(c) \/ OtherStep(c)
    PROVE  /\ \/ queue' = queue
              \/ queue' = Append(queue, c) /\ pc'[c] \in {"queued", "relqueued"}
           /\ pc[c] \notin {"queued", "relqueued"}
           /\ \A d \in Calls : d # c => pc'[d] = pc[d]
<1>1. CASE ClaimThread(c)
  BY <1>1 DEF ClaimThread, locking, library, blobs, tracking, Moves, ServicesShape
<1>2. CASE AllocBegins(c)
  BY <1>2 DEF AllocBegins, MayCrash, locking, library, blobs, tracking, Moves,
     ServicesShape
<1>3. CASE AllocateLock(c)
  BY <1>3 DEF AllocateLock, locking, library, blobs, tracking, Moves, ServicesShape
<1>4. CASE EraseBegins(c)
  BY <1>4 DEF EraseBegins, MayCrash, locking, library, blobs, tracking, Moves,
     ServicesShape
<1>5. CASE EraseLock(c)
  BY <1>5 DEF EraseLock, locking, library, blobs, tracking, Moves, ServicesShape
<1>6. CASE Prepare(c)
  BY <1>6 DEF Prepare, locking, library, blobs, tracking, Moves, ServicesShape
<1>7. CASE Lookup(c)
  BY <1>7 DEF Lookup, Fails, ReleaseThread, FinishTasklet, StartTasklet, FindEntry,
     MayCrash, locking, library, blobs, tracking, Moves, ServicesShape
<1>8. CASE UseEntry(c)
  BY <1>8 DEF UseEntry, Fails, ReleaseThread, FinishTasklet, MayCrash, locking,
     library, blobs, tracking, Moves, ServicesShape
<1>9. CASE CreateFile(c)
  BY <1>9 DEF CreateFile, locking, library, blobs, tracking, Moves, ServicesShape
<1>10. CASE Complete(c)
  BY <1>10 DEF Complete, ReleaseThread, locking, library, blobs, tracking, Moves,
     ServicesShape
<1>11. CASE LoadBegins(c)
  BY <1>11 DEF LoadBegins, locking, library, blobs, tracking, Moves, ServicesShape
<1>12. CASE Open(c)
  BY <1>12 DEF Open, locking, library, blobs, tracking, Moves, ServicesShape
<1>13. CASE OpenFails(c)
  BY <1>13 DEF OpenFails, locking, library, blobs, tracking, Moves, ServicesShape
<1>14. CASE Register(c)
  BY <1>14 DEF Register, Add, DetectDuplicate, locking, library, blobs, tracking,
     Moves, ServicesShape
<1>15. CASE RegisterFails(c)
  BY <1>15 DEF RegisterFails, Unregister, Forgets, locking, library, blobs, tracking,
     Moves, ServicesShape
<1>16. CASE LoadEnds(c)
  BY <1>16 DEF LoadEnds, Forgets, locking, library, blobs, tracking, Moves,
     ServicesShape
<1>17. CASE Unload(c)
  BY <1>17 DEF Unload, Unregister, locking, library, blobs, tracking, Moves,
     ServicesShape
<1>18. CASE GetTaskletInfos(c)
  BY <1>18 DEF GetTaskletInfos, MayCrash, locking, library, blobs, tracking, Moves,
     ServicesShape
<1>19. CASE ClearInfo(c)
  BY <1>19 DEF ClearInfo, locking, library, blobs, tracking, Moves, ServicesShape
<1>20. CASE StoreRequest(c)
  BY <1>20 DEF StoreRequest, locking, library, blobs, tracking, Moves, ServicesShape
<1>21. CASE Send(c)
  BY <1>21 DEF Send, RpcCall, LoopbackCall, locking, library, blobs, tracking, Moves,
     ServicesShape
<1>22. CASE Retry(c)
  BY <1>22 DEF Retry, RpcCall, locking, library, blobs, tracking, Moves, ServicesShape
<1>23. CASE SendRelease(c)
  BY <1>23 DEF SendRelease, RpcCall, LoopbackCall, locking, library, blobs, tracking,
     Moves, ServicesShape
<1>24. CASE AllocateFile(c)
  BY <1>24 DEF AllocateFile, locking, library, blobs, tracking, Moves, ServicesShape
<1>25. CASE Return(c)
  BY <1>25 DEF Return, FinishTasklet, locking, library, blobs, tracking, Moves,
     ServicesShape
<1>26. CASE Throw(c)
  BY <1>26 DEF Throw, Fails, ReleaseThread, FinishTasklet, locking, library, blobs,
     tracking, Moves, ServicesShape
<1> QED
  BY <1>1, <1>2, <1>3, <1>4, <1>5, <1>6, <1>7, <1>8, <1>9, <1>10, <1>11, <1>12, <1>13,
     <1>14, <1>15, <1>16, <1>17, <1>18, <1>19, <1>20, <1>21, <1>22, <1>23, <1>24,
     <1>25, <1>26 DEF ThreadStep, OtherStep

\* Only the steps of a load or an unload touch the libraries and the registry.
LEMMA LibraryFrameStep ==
    ASSUME ServicesShape, NEW c \in Calls,
           ThreadStep(c) \/ OtherStep(c)
    PROVE  \/ LoadBegins(c) \/ Open(c) \/ OpenFails(c) \/ Register(c)
           \/ RegisterFails(c) \/ LoadEnds(c) \/ Unload(c)
           \/ LibraryFrame
<1>1. CASE ClaimThread(c)
  BY <1>1 DEF ClaimThread, locking, library, blobs, tracking, Moves, ServicesShape,
     LibraryFrame, LoadSteps
<1>2. CASE AllocBegins(c)
  BY <1>2 DEF AllocBegins, MayCrash, locking, library, blobs, tracking, Moves,
     ServicesShape, LibraryFrame, LoadSteps
<1>3. CASE AllocateLock(c)
  BY <1>3 DEF AllocateLock, locking, library, blobs, tracking, Moves, ServicesShape,
     LibraryFrame, LoadSteps
<1>4. CASE EraseBegins(c)
  BY <1>4 DEF EraseBegins, MayCrash, locking, library, blobs, tracking, Moves,
     ServicesShape, LibraryFrame, LoadSteps
<1>5. CASE EraseLock(c)
  BY <1>5 DEF EraseLock, locking, library, blobs, tracking, Moves, ServicesShape,
     LibraryFrame, LoadSteps
<1>6. CASE Prepare(c)
  BY <1>6 DEF Prepare, locking, library, blobs, tracking, Moves, ServicesShape,
     LibraryFrame, LoadSteps
<1>7. CASE Lookup(c)
  BY <1>7 DEF Lookup, Fails, ReleaseThread, FinishTasklet, StartTasklet, FindEntry,
     MayCrash, locking, library, blobs, tracking, Moves, ServicesShape, LibraryFrame,
     LoadSteps
<1>8. CASE UseEntry(c)
  BY <1>8 DEF UseEntry, Fails, ReleaseThread, FinishTasklet, MayCrash, locking,
     library, blobs, tracking, Moves, ServicesShape, LibraryFrame, LoadSteps
<1>9. CASE CreateFile(c)
  BY <1>9 DEF CreateFile, locking, library, blobs, tracking, Moves, ServicesShape,
     LibraryFrame, LoadSteps
<1>10. CASE Complete(c)
  BY <1>10 DEF Complete, ReleaseThread, locking, library, blobs, tracking, Moves,
     ServicesShape, LibraryFrame, LoadSteps
<1>11. CASE LoadBegins(c)
  BY <1>11 DEF LoadBegins, locking, library, blobs, tracking, Moves, ServicesShape,
     LibraryFrame, LoadSteps
<1>12. CASE Open(c)
  BY <1>12 DEF Open, locking, library, blobs, tracking, Moves, ServicesShape,
     LibraryFrame, LoadSteps
<1>13. CASE OpenFails(c)
  BY <1>13 DEF OpenFails, locking, library, blobs, tracking, Moves, ServicesShape,
     LibraryFrame, LoadSteps
<1>14. CASE Register(c)
  BY <1>14 DEF Register, Add, DetectDuplicate, locking, library, blobs, tracking,
     Moves, ServicesShape, LibraryFrame, LoadSteps
<1>15. CASE RegisterFails(c)
  BY <1>15 DEF RegisterFails, Unregister, Forgets, locking, library, blobs, tracking,
     Moves, ServicesShape, LibraryFrame, LoadSteps
<1>16. CASE LoadEnds(c)
  BY <1>16 DEF LoadEnds, Forgets, locking, library, blobs, tracking, Moves,
     ServicesShape, LibraryFrame, LoadSteps
<1>17. CASE Unload(c)
  BY <1>17 DEF Unload, Unregister, locking, library, blobs, tracking, Moves,
     ServicesShape, LibraryFrame, LoadSteps
<1>18. CASE GetTaskletInfos(c)
  BY <1>18 DEF GetTaskletInfos, MayCrash, locking, library, blobs, tracking, Moves,
     ServicesShape, LibraryFrame, LoadSteps
<1>19. CASE ClearInfo(c)
  BY <1>19 DEF ClearInfo, locking, library, blobs, tracking, Moves, ServicesShape,
     LibraryFrame, LoadSteps
<1>20. CASE StoreRequest(c)
  BY <1>20 DEF StoreRequest, locking, library, blobs, tracking, Moves, ServicesShape,
     LibraryFrame, LoadSteps
<1>21. CASE Send(c)
  BY <1>21 DEF Send, RpcCall, LoopbackCall, locking, library, blobs, tracking, Moves,
     ServicesShape, LibraryFrame, LoadSteps
<1>22. CASE Retry(c)
  BY <1>22 DEF Retry, RpcCall, locking, library, blobs, tracking, Moves,
     ServicesShape, LibraryFrame, LoadSteps
<1>23. CASE SendRelease(c)
  BY <1>23 DEF SendRelease, RpcCall, LoopbackCall, locking, library, blobs, tracking,
     Moves, ServicesShape, LibraryFrame, LoadSteps
<1>24. CASE AllocateFile(c)
  BY <1>24 DEF AllocateFile, locking, library, blobs, tracking, Moves, ServicesShape,
     LibraryFrame, LoadSteps
<1>25. CASE Return(c)
  BY <1>25 DEF Return, FinishTasklet, locking, library, blobs, tracking, Moves,
     ServicesShape, LibraryFrame, LoadSteps
<1>26. CASE Throw(c)
  BY <1>26 DEF Throw, Fails, ReleaseThread, FinishTasklet, locking, library, blobs,
     tracking, Moves, ServicesShape, LibraryFrame, LoadSteps
<1> QED
  BY <1>1, <1>2, <1>3, <1>4, <1>5, <1>6, <1>7, <1>8, <1>9, <1>10, <1>11, <1>12, <1>13,
     <1>14, <1>15, <1>16, <1>17, <1>18, <1>19, <1>20, <1>21, <1>22, <1>23, <1>24,
     <1>25, <1>26 DEF ThreadStep, OtherStep

-----------------------------------------------------------------------------
(* The parts of the invariant, step by step.                               *)

\* A call that joins the queue was not in it, and a call in the queue stays there.
LEMMA QueueStep ==
    ASSUME ServicesShape, QueueOK, NEW c \in Calls, ThreadStep(c) \/ OtherStep(c)
    PROVE  QueueOK'
<1>1. /\ pc[c] \notin {"queued", "relqueued"}
      /\ \A d \in Calls : d # c => pc'[d] = pc[d]
  BY QueueFrameStep
<1>2. \A i \in DOMAIN queue : queue[i] \in Calls /\ queue[i] # c
  BY <1>1 DEF ServicesShape, QueueOK
<1>3. CASE queue' = queue
  BY <1>1, <1>2, <1>3 DEF QueueOK
<1>4. CASE queue' = Append(queue, c) /\ pc'[c] \in {"queued", "relqueued"}
  <2>1. PICK q : q = Append(queue, c)
    OBVIOUS
  <2>2. /\ DOMAIN q = DOMAIN queue \cup {Len(queue) + 1}
        /\ q[Len(queue) + 1] = c /\ \A i \in DOMAIN queue : q[i] = queue[i]
    BY <2>1, AppendFacts DEF ServicesShape
  <2>3. queue' = q
    BY <1>4, <2>1
  <2> QED
    BY <1>1, <1>2, <1>4, <2>2, <2>3 DEF QueueOK
<1> QED
  BY <1>3, <1>4, QueueFrameStep

\* A handler thread takes a call that waits, and that call only.
LEMMA TakeFacts ==
    ASSUME ServicesShape, QueueOK, Take
    PROVE  \E c \in Calls :
              /\ pc[c] \in {"queued", "relqueued"}
              /\ pc' = [pc EXCEPT ![c] = IF pc[c] = "queued" THEN "begin" ELSE "erase"]
              /\ queue' \in Seq(Calls) /\ QueueOK'
<1>1. queue # <<>> /\ queue \in Seq(Calls)
  BY DEF Take, ServicesShape
<1>2. PICK c : c = Head(queue)
  OBVIOUS
<1>3. c = queue[1] /\ 1 \in DOMAIN queue /\ c \in Calls
  BY <1>1, <1>2
<1>4. pc' = [pc EXCEPT ![c] = IF pc[c] = "queued" THEN "begin" ELSE "erase"]
  BY <1>2 DEF Take, Moves
<1>5. PICK q : q = Tail(queue)
  OBVIOUS
<1>6. /\ q \in Seq(Calls)
      /\ \A i \in DOMAIN q : i + 1 \in DOMAIN queue /\ q[i] = queue[i + 1] /\ i \in Nat \ {0}
  BY <1>1, <1>5
<1>7. queue' = q
  BY <1>5 DEF Take
<1>8. \A i \in DOMAIN q : q[i] # c
  BY <1>3, <1>6 DEF QueueOK
<1>9. \A i \in DOMAIN q : pc'[q[i]] = pc[q[i]]
  BY <1>4, <1>6, <1>8 DEF ServicesShape
<1>10. QueueOK'
  BY <1>6, <1>7, <1>9 DEF QueueOK
<1> QED
  BY <1>3, <1>4, <1>6, <1>7, <1>10 DEF QueueOK

\* The locks are right as long as no call comes before its lock again or is released.
LEMMA LocksFrameKeeps ==
    ASSUME ServicesShape, LocksOK, UNCHANGED <<lockTable, nextLock, lockOf>>,
           \A d \in Calls : /\ pc'[d] \in BeforeLock => pc[d] \in BeforeLock
                            /\ pc'[d] = "released" <=> pc[d] = "released"
    PROVE  LocksOK'
BY DEF LocksOK

\* The table of locks follows the calls that got one and have not released it.
LEMMA LocksStep ==
    ASSUME ServicesShape, LocksOK, NEW c \in Calls, ThreadStep(c) \/ OtherStep(c)
    PROVE  LocksOK'
<1>1. CASE AllocateLock(c)
  <2>1. lockOf[c] = 0
    BY <1>1 DEF AllocateLock, LocksOK, BeforeLock
  <2>2. /\ pc' = [pc EXCEPT ![c] = "prepare"] /\ nextLock' = nextLock + 1
        /\ lockOf' = [lockOf EXCEPT ![c] = nextLock]
        /\ lockTable' = lockTable \cup {nextLock}
    BY <1>1 DEF AllocateLock, Moves
  <2>3. \A d \in Calls : lockOf'[d] < nextLock'
    BY <2>2 DEF LocksOK, ServicesShape
  <2>4. \A d, e \in Calls : lockOf'[d] = lockOf'[e] /\ lockOf'[d] # 0 => d = e
    BY <2>2 DEF LocksOK, ServicesShape
  <2>5. \A d \in Calls : pc'[d] \in BeforeLock => lockOf'[d] = 0
    BY <2>2 DEF LocksOK, ServicesShape, BeforeLock
  <2>6. \A l \in Nat : l \in lockTable' <=>
           \E d \in Calls : lockOf'[d] = l /\ lockOf'[d] # 0 /\ pc'[d] # "released"
    BY <2>1, <2>2 DEF LocksOK, ServicesShape
  <2> QED
    BY <2>3, <2>4, <2>5, <2>6 DEF LocksOK
<1>2. CASE EraseLock(c)
  <2>1. /\ pc' = [pc EXCEPT ![c] = "released"] /\ UNCHANGED <<nextLock, lockOf>>
        /\ lockTable' = lockTable \ {lockOf[c]} /\ pc[c] = "erasing"
    BY <1>2 DEF EraseLock, Moves
  <2>2. \A l \in Nat : l \in lockTable' <=>
           \E d \in Calls : lockOf'[d] = l /\ lockOf'[d] # 0 /\ pc'[d] # "released"
    BY <2>1 DEF LocksOK, ServicesShape
  <2>3. \A d \in Calls : pc'[d] \in BeforeLock => lockOf'[d] = 0
    BY <2>1 DEF LocksOK, ServicesShape, BeforeLock
  <2> QED
    BY <2>1, <2>2, <2>3 DEF LocksOK
<1> QED
  BY <1>1, <1>2, LocksFrameStep, LocksFrameKeeps

\* A new file gets a number no other has, and belongs to the call that creates it.
LEMMA FilesStep ==
    ASSUME ServicesShape, FilesOK, NEW c \in Calls, ThreadStep(c) \/ OtherStep(c)
    PROVE  FilesOK'
<1>1. CASE AllocateFile(c)
  BY <1>1 DEF AllocateFile, Moves, FilesOK, ServicesShape
<1>2. CASE CreateFile(c)
  <2>1. /\ pc' = [pc EXCEPT ![c] = "run"] /\ UNCHANGED <<nextFile, blobOf>>
        /\ DOMAIN files' = DOMAIN files \cup {blobOf[c]} /\ files'[blobOf[c]] = c
        /\ \A f \in DOMAIN files : f # blobOf[c] => files'[f] = files[f]
    BY <1>2 DEF CreateFile, Moves
  <2> QED
    BY <2>1 DEF FilesOK, ServicesShape
<1>3. CASE /\ UNCHANGED <<files, nextFile, blobOf>>
           /\ \A d \in Calls : pc[d] = "file" => pc'[d] = "file"
  BY <1>3 DEF FilesOK
<1> QED
  BY <1>1, <1>2, <1>3, FilesFrameStep

-----------------------------------------------------------------------------
(* Libraries and the registry.                                             *)

RegistryInv == LoadingOK /\ CatalogsOK /\ EntriesOK

\* Steps that have nothing to do with a library keep what is said of the registry.
LEMMA LibraryFrameKeeps ==
    ASSUME ServicesShape, RegistryInv, LibraryFrame
    PROVE  RegistryInv'
<1>1. UNCHANGED <<dllMutex, controllers, nextCat, entries, registered>>
  BY DEF LibraryFrame, library
<1>2. LoadingOK'
  BY <1>1 DEF RegistryInv, LoadingOK, LibraryFrame, LoadSteps, ServicesShape
<1>3. CatalogsOK'
  BY <1>1 DEF RegistryInv, CatalogsOK, LibraryFrame, LoadSteps
<1>4. \A u \in Uuids, k \in Nat : /\ OfLoaded(u, k)' <=> OfLoaded(u, k)
                                  /\ OfLoading(u, k)' <=> OfLoading(u, k)
  BY <1>1 DEF OfLoaded, OfLoading, LibraryFrame, LoadSteps
<1>5. EntriesOK'
  BY <1>1, <1>4 DEF RegistryInv, EntriesOK
<1> QED
  BY <1>2, <1>3, <1>5 DEF RegistryInv

\* The lists of the registry stay right when the entries and the two reasons to have
\* one change together.
LEMMA EntriesFollow ==
    ASSUME \A u \in Uuids :
              /\ \A k \in Nat : (\E i \in DOMAIN entries'[u] : entries'[u][i] = k)
                                   <=> OfLoaded(u, k)' \/ OfLoading(u, k)'
              /\ Descending(entries'[u])
    PROVE  EntriesOK'
BY DEF EntriesOK, Descending

\* unregister_catalog() takes out the entries of a catalog that is no longer there.
LEMMA UnregisterKeeps ==
    ASSUME ServicesShape, EntriesOK, NEW cat \in Nat, Unregister(cat),
           \A u \in Uuids, k \in Nat :
              /\ OfLoaded(u, k)' <=> OfLoaded(u, k) /\ k # cat
              /\ ~OfLoading(u, k)' /\ (OfLoading(u, k) => k = cat)
    PROVE  EntriesOK'
<1>1. ASSUME NEW u \in Uuids
      PROVE  /\ \A k \in Nat : (\E i \in DOMAIN entries'[u] : entries'[u][i] = k)
                                  <=> OfLoaded(u, k)' \/ OfLoading(u, k)'
             /\ Descending(entries'[u])
  <2>1. PICK s : s = entries[u]
    OBVIOUS
  <2>2. s \in Seq(Nat) /\ Descending(s)
    BY <2>1 DEF ServicesShape, EntriesOK, Descending
  <2>3. PICK t : t = Without(s, cat)
    OBVIOUS
  <2>4. /\ \A k \in Nat : (\E i \in DOMAIN t : t[i] = k)
                             <=> k # cat /\ \E i \in DOMAIN s : s[i] = k
        /\ Descending(t)
    <3>1. /\ \A k \in Nat : (\E i \in DOMAIN Without(s, cat) : Without(s, cat)[i] = k)
                               <=> k # cat /\ \E i \in DOMAIN s : s[i] = k
          /\ Descending(Without(s, cat))
      BY <2>2, WithoutFacts
    <3> QED
      BY ONLY <2>3, <3>1
  <2>5. entries'[u] = t
    BY <2>1, <2>3 DEF Unregister
  <2>6. \A k \in Nat : (\E i \in DOMAIN s : s[i] = k) <=> OfLoaded(u, k) \/ OfLoading(u, k)
    BY <2>1 DEF EntriesOK
  <2>7. \A k \in Nat : (\E i \in DOMAIN t : t[i] = k) <=> OfLoaded(u, k)' \/ OfLoading(u, k)'
    BY <2>4, <2>6
  <2> QED
    BY <2>4, <2>5, <2>7
<1> QED
  BY <1>1, EntriesFollow

\* A library begins to load.
LEMMA LoadBeginsKeeps ==
    ASSUME ServicesShape, CallsKnown, RegistryInv, NEW c \in Calls, LoadBegins(c)
    PROVE  RegistryInv'
<1>1. /\ pc[c] = "begin" /\ dllMutex = {}
      /\ UNCHANGED <<controllers, nextCat, entries, registered, catOf, op>>
  BY DEF LoadBegins
<1>2. CASE controllers[op[c].dll] # 0
  <2>1. LibraryFrame
    BY <1>1, <1>2 DEF LoadBegins, Moves, LibraryFrame, library, ServicesShape, LoadSteps
  <2> QED
    BY <2>1, LibraryFrameKeeps
<1>3. CASE controllers[op[c].dll] = 0
  <2>1. pc' = [pc EXCEPT ![c] = "open"] /\ dllMutex' = {c}
    BY <1>3 DEF LoadBegins, Moves
  <2>2. LoadingOK'
    BY <1>1, <1>3, <2>1 DEF RegistryInv, LoadingOK, LoadSteps, ServicesShape
  <2>3. CatalogsOK'
    BY <1>1, <2>1 DEF RegistryInv, CatalogsOK, ServicesShape
  <2>4. \A u \in Uuids, k \in Nat : /\ OfLoaded(u, k)' <=> OfLoaded(u, k)
                                    /\ OfLoading(u, k)' <=> OfLoading(u, k)
    BY <1>1, <2>1 DEF OfLoaded, OfLoading, ServicesShape
  <2>5. EntriesOK'
    BY <1>1, <2>4 DEF RegistryInv, EntriesOK
  <2> QED
    BY <2>2, <2>3, <2>5 DEF RegistryInv
<1> QED
  BY <1>2, <1>3

\* The library cannot be opened.
LEMMA OpenFailsKeeps ==
    ASSUME ServicesShape, RegistryInv, NEW c \in Calls, OpenFails(c)
    PROVE  RegistryInv'
<1>1. /\ pc[c] = "open" /\ dllMutex' = {} /\ pc' = [pc EXCEPT ![c] = "failed"]
      /\ UNCHANGED <<controllers, nextCat, entries, registered, catOf, op>>
  BY DEF OpenFails, Moves
<1>2. LoadingOK'
  BY <1>1 DEF RegistryInv, LoadingOK, LoadSteps, ServicesShape
<1>3. CatalogsOK'
  BY <1>1 DEF RegistryInv, CatalogsOK, ServicesShape
<1>4. \A u \in Uuids, k \in Nat : /\ OfLoaded(u, k)' <=> OfLoaded(u, k)
                                  /\ OfLoading(u, k)' <=> OfLoading(u, k)
  BY <1>1 DEF OfLoaded, OfLoading, ServicesShape
<1>5. EntriesOK'
  BY <1>1, <1>4 DEF RegistryInv, EntriesOK
<1> QED
  BY <1>2, <1>3, <1>5 DEF RegistryInv

\* The library's catalog gets an id that is larger than every other.
LEMMA OpenKeeps ==
    ASSUME ServicesShape, CallsKnown, RegistryInv, NEW c \in Calls, Open(c)
    PROVE  RegistryInv'
<1>1. /\ pc[c] = "open" /\ pc' = [pc EXCEPT ![c] = "register"]
      /\ catOf' = [catOf EXCEPT ![c] = nextCat] /\ nextCat' = nextCat + 1
      /\ UNCHANGED <<dllMutex, controllers, entries, registered, op>>
  BY DEF Open, Moves
<1>2. LoadingOK'
  BY <1>1 DEF RegistryInv, LoadingOK, LoadSteps, ServicesShape
<1>3. \A d \in Calls : pc[d] # "register" /\ registered[d] = 0
  BY <1>1 DEF RegistryInv, LoadingOK, CatalogsOK, LoadSteps, ServicesShape
<1>4. op[c].dll \in Dlls /\ Len(UuidsOf[op[c].dll]) \in Nat
  <2>1. op[c].dll \in Dlls
    BY <1>1, ServicesAssumption DEF CallsKnown
  <2>2. UuidsOf[op[c].dll] \in Seq(Uuids)
    BY <2>1, ServicesAssumption
  <2> QED
    BY <2>1, <2>2
<1>5. CatalogsOK'
  <2>1. \A d \in Dlls : controllers'[d] < nextCat' /\ controllers'[d] < nextCat
    BY <1>1 DEF RegistryInv, CatalogsOK, ServicesShape
  <2>2. \A d, e \in Dlls : controllers'[d] = controllers'[e] /\ controllers'[d] # 0 => d = e
    BY <1>1 DEF RegistryInv, CatalogsOK
  <2>3. /\ pc'[c] = "register" /\ catOf'[c] = nextCat' - 1 /\ catOf'[c] # 0
        /\ registered'[c] <= Len(UuidsOf[op'[c].dll]) /\ catOf'[c] = nextCat
    BY <1>1, <1>3, <1>4 DEF ServicesShape
  <2>4. \A d \in Calls : d # c => pc'[d] # "register" /\ registered'[d] = 0
    BY <1>1, <1>3 DEF ServicesShape
  <2> QED
    BY <2>1, <2>2, <2>3, <2>4 DEF CatalogsOK
<1>6. \A u \in Uuids, k \in Nat : /\ OfLoaded(u, k)' <=> OfLoaded(u, k)
                                  /\ ~OfLoading(u, k)' /\ ~OfLoading(u, k)
  BY <1>1, <1>3 DEF OfLoaded, OfLoading, ServicesShape
<1>7. EntriesOK'
  BY <1>1, <1>6 DEF RegistryInv, EntriesOK
<1> QED
  BY <1>2, <1>5, <1>7 DEF RegistryInv

\* What a list holds once an id is put in front.
LEMMA ConsFacts ==
    ASSUME NEW s \in Seq(Nat), NEW n \in Nat
    PROVE  /\ \A k \in Nat : (\E i \in DOMAIN (<<n>> \o s) : (<<n>> \o s)[i] = k)
                                <=> k = n \/ \E i \in DOMAIN s : s[i] = k
           /\ Descending(s) /\ (\A i \in DOMAIN s : s[i] < n) => Descending(<<n>> \o s)
<1>1. PICK t : t = <<n>> \o s
  OBVIOUS
<1>2. /\ DOMAIN t = 1..(Len(s) + 1) /\ t[1] = n /\ DOMAIN s = 1..Len(s) /\ Len(s) \in Nat
      /\ \A i \in 2..(Len(s) + 1) : t[i] = s[i - 1]
  BY <1>1
<1>3. \A i \in DOMAIN s : i + 1 \in DOMAIN t /\ t[i + 1] = s[i]
  BY <1>2
<1>4. \A i \in DOMAIN t : i = 1 \/ (i - 1 \in DOMAIN s /\ t[i] = s[i - 1])
  BY <1>2
<1>5. 1 \in DOMAIN t
  BY <1>2
<1>6. \A k \in Nat : (\E i \in DOMAIN t : t[i] = k) <=> k = n \/ \E i \in DOMAIN s : s[i] = k
  <2> TAKE k \in Nat
  <2>1. ASSUME NEW i \in DOMAIN t, t[i] = k
        PROVE  k = n \/ \E j \in DOMAIN s : s[j] = k
    BY <1>2, <1>4, <2>1
  <2>2. ASSUME NEW i \in DOMAIN s, s[i] = k
        PROVE  \E j \in DOMAIN t : t[j] = k
    BY <1>3, <2>2
  <2> QED
    BY <1>2, <1>5, <2>1, <2>2
<1>7. ASSUME Descending(s), \A i \in DOMAIN s : s[i] < n
      PROVE  Descending(t)
  <2> SUFFICES ASSUME NEW i \in DOMAIN t, NEW j \in DOMAIN t, i < j
               PROVE  t[i] > t[j]
    BY DEF Descending
  <2>1. j # 1 /\ j - 1 \in DOMAIN s /\ t[j] = s[j - 1] /\ s[j - 1] < n
    BY <1>2, <1>4, <1>7
  <2>2. \A m \in DOMAIN s : s[m] \in Nat
    OBVIOUS
  <2> QED
    BY <1>2, <1>4, <1>7, <2>1, <2>2 DEF Descending
<1> QED
  BY <1>1, <1>6, <1>7

\* A catalog registers the next of its resolvers.
LEMMA RegisterKeeps ==
    ASSUME ServicesShape, CallsKnown, RegistryInv, NEW c \in Calls, Register(c)
    PROVE  RegistryInv'
<1>1. /\ pc[c] = "register" /\ registered[c] < Len(UuidsOf[op[c].dll])
      /\ registered' = [registered EXCEPT ![c] = @ + 1]
      /\ UNCHANGED <<pc, op, dllMutex, controllers, nextCat, catOf>>
  BY DEF Register
<1>2. /\ op[c].dll \in Dlls /\ UuidsOf[op[c].dll] \in Seq(Uuids)
      /\ Len(UuidsOf[op[c].dll]) \in Nat
  BY <1>1, ServicesAssumption DEF CallsKnown
<1>3. PICK u0 : u0 = UuidsOf[op[c].dll][registered[c] + 1]
  OBVIOUS
<1>4. u0 \in Uuids /\ registered[c] \in Nat /\ catOf[c] \in Nat
  BY <1>1, <1>2, <1>3 DEF ServicesShape
<1>5. entries' = [entries EXCEPT ![u0] = IF Contains(entries[u0], catOf[c]) THEN @
                                         ELSE <<catOf[c]>> \o @]
  BY <1>3 DEF Register, Add, DetectDuplicate
<1>6. \A d \in Calls : pc[d] = "register" => d = c
  BY <1>1 DEF RegistryInv, LoadingOK, LoadSteps
<1>7. LoadingOK'
  BY <1>1 DEF RegistryInv, LoadingOK
<1>8. CatalogsOK'
  <2>1. /\ catOf[c] = nextCat - 1 /\ catOf[c] # 0
        /\ \A d \in Dlls : controllers[d] < catOf[c]
    BY <1>1 DEF RegistryInv, CatalogsOK
  <2>2. registered'[c] <= Len(UuidsOf[op[c].dll])
    BY <1>1, <1>2, <1>4 DEF ServicesShape
  <2>3. \A d \in Calls : d # c => pc[d] # "register" /\ registered'[d] = 0
    BY <1>1, <1>6 DEF RegistryInv, CatalogsOK, ServicesShape
  <2>4. \A d \in Calls : IF pc[d] = "register"
                         THEN /\ catOf[d] = nextCat - 1 /\ catOf[d] # 0
                              /\ \A e \in Dlls : controllers[e] < catOf[d]
                              /\ registered'[d] <= Len(UuidsOf[op[d].dll])
                         ELSE registered'[d] = 0
    BY <1>1, <2>1, <2>2, <2>3
  <2> QED
    BY <1>1, <2>4 DEF RegistryInv, CatalogsOK
<1>9. \A u \in Uuids, k \in Nat :
         /\ OfLoaded(u, k)' <=> OfLoaded(u, k)
         /\ OfLoading(u, k)' <=> OfLoading(u, k) \/ (u = u0 /\ k = catOf[c])
  <2> TAKE u \in Uuids, k \in Nat
  <2>1. OfLoaded(u, k)' <=> OfLoaded(u, k)
    BY <1>1 DEF OfLoaded
  <2>2. OfLoading(u, k) <=> /\ catOf[c] = k
                            /\ \E i \in 1..registered[c] : UuidsOf[op[c].dll][i] = u
    BY <1>1, <1>6 DEF OfLoading
  <2>3. OfLoading(u, k)' <=> /\ catOf[c] = k
                             /\ \E i \in 1..(registered[c] + 1) : UuidsOf[op[c].dll][i] = u
    BY <1>1, <1>6 DEF OfLoading, ServicesShape
  <2>4. (\E i \in 1..(registered[c] + 1) : UuidsOf[op[c].dll][i] = u)
           <=> u = u0 \/ \E i \in 1..registered[c] : UuidsOf[op[c].dll][i] = u
    BY <1>3, <1>4
  <2> QED
    BY <2>1, <2>2, <2>3, <2>4
<1>10. \A u \in Uuids, k \in Nat : OfLoaded(u, k) \/ OfLoading(u, k) => k <= catOf[c]
  BY <1>1, <1>4, <1>6 DEF OfLoaded, OfLoading, RegistryInv, CatalogsOK, ServicesShape
<1>11. ASSUME NEW u \in Uuids
       PROVE  /\ \A k \in Nat : (\E i \in DOMAIN entries'[u] : entries'[u][i] = k)
                                   <=> OfLoaded(u, k)' \/ OfLoading(u, k)'
              /\ Descending(entries'[u])
  <2>1. PICK s : s = entries[u]
    OBVIOUS
  <2>2. s \in Seq(Nat) /\ DOMAIN s = 1..Len(s) /\ \A i \in DOMAIN s : s[i] \in Nat
    BY <2>1 DEF ServicesShape
  <2>3. /\ \A k \in Nat : (\E i \in DOMAIN s : s[i] = k) <=> OfLoaded(u, k) \/ OfLoading(u, k)
        /\ Descending(s)
    BY <2>1 DEF RegistryInv, EntriesOK, Descending
  <2>4. CASE u # u0 \/ Contains(s, catOf[c])
    <3>1. entries'[u] = s
      BY <1>4, <1>5, <2>1, <2>4 DEF ServicesShape
    <3>2. u = u0 => \E i \in DOMAIN s : s[i] = catOf[c]
      BY <2>2, <2>4 DEF Contains
    <3>3. \A k \in Nat : (\E i \in DOMAIN s : s[i] = k) <=> OfLoaded(u, k)' \/ OfLoading(u, k)'
      BY <1>4, <1>9, <2>3, <3>2
    <3> QED
      BY <2>3, <3>1, <3>3
  <2>5. CASE u = u0 /\ ~Contains(s, catOf[c])
    <3>1. entries'[u] = <<catOf[c]>> \o s
      BY <1>4, <1>5, <2>1, <2>5 DEF ServicesShape
    <3>2. \A i \in DOMAIN s : s[i] < catOf[c]
      BY <1>4, <1>10, <2>2, <2>3, <2>5 DEF Contains
    <3>3. /\ \A k \in Nat : (\E i \in DOMAIN (<<catOf[c]>> \o s) : (<<catOf[c]>> \o s)[i] = k)
                               <=> k = catOf[c] \/ \E i \in DOMAIN s : s[i] = k
          /\ Descending(<<catOf[c]>> \o s)
      BY <1>4, <2>2, <2>3, <3>2, ConsFacts
    <3>4. \A k \in Nat : (\E i \in DOMAIN entries'[u] : entries'[u][i] = k)
                            <=> k = catOf[c] \/ OfLoaded(u, k) \/ OfLoading(u, k)
      BY <2>3, <3>1, <3>3
    <3> QED
      BY <1>9, <2>5, <3>1, <3>3, <3>4
  <2> QED
    BY <2>4, <2>5
<1>12. EntriesOK'
  BY <1>11, EntriesFollow
<1> QED
  BY <1>7, <1>8, <1>12 DEF RegistryInv

\* The catalog that was begun goes, with every entry it has.
LEMMA RegisterFailsKeeps ==
    ASSUME ServicesShape, RegistryInv, NEW c \in Calls, RegisterFails(c)
    PROVE  RegistryInv'
<1>1. /\ pc[c] = "register" /\ dllMutex' = {} /\ pc' = [pc EXCEPT ![c] = "failed"]
      /\ registered' = [registered EXCEPT ![c] = 0]
      /\ UNCHANGED <<op, controllers, nextCat>>
  BY DEF RegisterFails, Moves, Forgets
<1>2. \A d \in Calls : pc[d] \in LoadSteps => d = c
  BY <1>1 DEF RegistryInv, LoadingOK, LoadSteps
<1>3. \A d \in Calls : pc'[d] \notin LoadSteps /\ pc'[d] # "register"
  BY <1>1, <1>2 DEF LoadSteps, ServicesShape
<1>4. catOf[c] \in Nat /\ \A d \in Dlls : controllers[d] # catOf[c]
  BY <1>1 DEF RegistryInv, CatalogsOK, ServicesShape
<1>5. LoadingOK'
  BY <1>1, <1>3 DEF LoadingOK
<1>6. CatalogsOK'
  BY <1>1, <1>3 DEF RegistryInv, CatalogsOK, ServicesShape
<1>7. \A u \in Uuids, k \in Nat :
         /\ OfLoaded(u, k)' <=> OfLoaded(u, k) /\ k # catOf[c]
         /\ ~OfLoading(u, k)' /\ (OfLoading(u, k) => k = catOf[c])
  BY <1>1, <1>2, <1>3, <1>4 DEF OfLoaded, OfLoading, LoadSteps
<1>8. EntriesOK'
  BY <1>4, <1>7, UnregisterKeeps DEF RegisterFails, RegistryInv
<1> QED
  BY <1>5, <1>6, <1>8 DEF RegistryInv

\* The loaded library takes over the entries of its catalog.
LEMMA LoadEndsKeeps ==
    ASSUME ServicesShape, CallsKnown, RegistryInv, NEW c \in Calls, LoadEnds(c)
    PROVE  RegistryInv'
<1>1. /\ pc[c] = "register" /\ dllMutex' = {} /\ pc' = [pc EXCEPT ![c] = "answered"]
      /\ registered[c] = Len(UuidsOf[op[c].dll])
      /\ registered' = [registered EXCEPT ![c] = 0]
      /\ controllers' = [controllers EXCEPT ![op[c].dll] = catOf[c]]
      /\ UNCHANGED <<op, nextCat, entries>>
  BY DEF LoadEnds, Moves, Forgets
<1>2. \A d \in Calls : pc[d] \in LoadSteps => d = c
  BY <1>1 DEF RegistryInv, LoadingOK, LoadSteps
<1>3. \A d \in Calls : pc'[d] \notin LoadSteps /\ pc'[d] # "register"
  BY <1>1, <1>2 DEF LoadSteps, ServicesShape
<1>4. PICK l \in Dlls : l = op[c].dll
  BY <1>1, ServicesAssumption DEF CallsKnown
<1>5. /\ catOf[c] = nextCat - 1 /\ catOf[c] # 0 /\ catOf[c] \in Nat
      /\ \A d \in Dlls : controllers[d] < catOf[c]
  BY <1>1 DEF RegistryInv, CatalogsOK, ServicesShape
<1>6. controllers[l] = 0
  BY <1>1, <1>4 DEF RegistryInv, LoadingOK, LoadSteps
<1>7. \A d \in Dlls : controllers'[d] = IF d = l THEN catOf[c] ELSE controllers[d]
  BY <1>1, <1>4 DEF ServicesShape
<1>8. LoadingOK'
  BY <1>1, <1>3 DEF LoadingOK
<1>9. CatalogsOK'
  <2>0. /\ \A d \in Dlls : controllers[d] \in Nat /\ controllers[d] < nextCat
        /\ \A d, e \in Dlls : controllers[d] = controllers[e] /\ controllers[d] # 0 => d = e
        /\ nextCat \in Nat
    BY DEF RegistryInv, CatalogsOK, ServicesShape
  <2>1. \A d \in Dlls : controllers'[d] < nextCat
    BY ONLY <1>5, <1>7, <2>0
  <2>2. \A d, e \in Dlls : controllers'[d] = controllers'[e] /\ controllers'[d] # 0 => d = e
    BY ONLY <1>5, <1>7, <2>0
  <2>3. \A d \in Calls : registered'[d] = 0
    BY <1>1, <1>2 DEF RegistryInv, CatalogsOK, ServicesShape, LoadSteps
  <2> QED
    BY <1>1, <1>3, <2>1, <2>2, <2>3 DEF CatalogsOK
<1>10. UuidsOf[l] \in Seq(Uuids)
  BY ServicesAssumption
<1>11. \A u \in Uuids, k \in Nat :
          /\ OfLoaded(u, k)' <=> OfLoaded(u, k) \/ (k = catOf[c] /\ Contains(UuidsOf[l], u))
          /\ OfLoading(u, k) <=> k = catOf[c] /\ Contains(UuidsOf[l], u)
          /\ ~OfLoading(u, k)'
  <2> TAKE u \in Uuids, k \in Nat
  <2>1. OfLoaded(u, k)' <=> OfLoaded(u, k) \/ (k = catOf[c] /\ Contains(UuidsOf[l], u))
    BY <1>5, <1>6, <1>7 DEF OfLoaded
  <2>2. OfLoading(u, k) <=> k = catOf[c] /\ Contains(UuidsOf[l], u)
    BY <1>1, <1>2, <1>4 DEF OfLoading, Contains, LoadSteps
  <2>3. ~OfLoading(u, k)'
    BY <1>3 DEF OfLoading
  <2> QED
    BY <2>1, <2>2, <2>3
<1>12. EntriesOK'
  BY <1>1, <1>11 DEF RegistryInv, EntriesOK
<1> QED
  BY <1>8, <1>9, <1>12 DEF RegistryInv

\* The entries of an unloaded library go, and no others.
LEMMA UnloadKeeps ==
    ASSUME ServicesShape, CallsKnown, RegistryInv, NEW c \in Calls, Unload(c)
    PROVE  RegistryInv'
<1>1. /\ pc[c] = "begin" /\ dllMutex = {}
      /\ UNCHANGED <<op, dllMutex, nextCat, registered, catOf>>
  BY DEF Unload
<1>2. PICK l \in Dlls : l = op[c].dll
  BY <1>1, ServicesAssumption DEF CallsKnown
<1>3. CASE controllers[l] = 0
  <2>1. LibraryFrame
    BY <1>1, <1>2, <1>3 DEF Unload, Moves, LibraryFrame, library, ServicesShape, LoadSteps
  <2> QED
    BY <2>1, LibraryFrameKeeps
<1>4. CASE controllers[l] # 0
  <2>1. /\ pc' = [pc EXCEPT ![c] = "answered"] /\ Unregister(controllers[l])
        /\ controllers' = [controllers EXCEPT ![l] = 0]
    BY <1>2, <1>4 DEF Unload, Moves
  <2>2. \A d \in Calls : pc[d] \notin LoadSteps /\ pc[d] # "register"
    BY <1>1 DEF RegistryInv, LoadingOK, LoadSteps
  <2>3. \A d \in Calls : pc'[d] \notin LoadSteps /\ pc'[d] # "register"
    BY <2>1, <2>2 DEF LoadSteps, ServicesShape
  <2>4. controllers[l] \in Nat
    BY DEF ServicesShape
  <2>5. \A d \in Dlls : controllers'[d] = IF d = l THEN 0 ELSE controllers[d]
    BY <2>1 DEF ServicesShape
  <2>6. LoadingOK'
    BY <1>1, <2>3 DEF LoadingOK
  <2>7. CatalogsOK'
    <3>1. /\ \A d \in Dlls : controllers[d] \in Nat /\ controllers[d] < nextCat
          /\ \A d, e \in Dlls : controllers[d] = controllers[e] /\ controllers[d] # 0 => d = e
          /\ nextCat \in Nat \ {0} /\ \A d \in Calls : registered[d] = 0
      BY <2>2 DEF RegistryInv, CatalogsOK, ServicesShape
    <3>2. /\ \A d \in Dlls : controllers'[d] < nextCat
          /\ \A d, e \in Dlls : controllers'[d] = controllers'[e] /\ controllers'[d] # 0 => d = e
      BY ONLY <2>5, <3>1
    <3> QED
      BY <1>1, <2>3, <3>1, <3>2 DEF CatalogsOK
  <2>8. \A u \in Uuids, k \in Nat :
           /\ OfLoaded(u, k)' <=> OfLoaded(u, k) /\ k # controllers[l]
           /\ ~OfLoading(u, k)' /\ ~OfLoading(u, k)
    BY <1>4, <2>2, <2>3, <2>5 DEF OfLoaded, OfLoading, RegistryInv, CatalogsOK
  <2>9. EntriesOK'
    BY <2>1, <2>4, <2>8, UnregisterKeeps DEF RegistryInv
  <2> QED
    BY <2>6, <2>7, <2>9 DEF RegistryInv
<1> QED
  BY <1>3, <1>4

\* Every step of a call keeps what is said of the libraries and the registry.
LEMMA RegistryStep ==
    ASSUME ServicesShape, CallsKnown, RegistryInv, NEW c \in Calls,
           ThreadStep(c) \/ OtherStep(c)
    PROVE  RegistryInv'
BY LibraryFrameStep, LibraryFrameKeeps, LoadBeginsKeeps, OpenKeeps, OpenFailsKeeps,
   RegisterKeeps, RegisterFailsKeeps, LoadEndsKeeps, UnloadKeeps

-----------------------------------------------------------------------------
(* The invariant.                                                          *)

\* The server starts with one library loaded and nothing else to do.
LEMMA InitEstablishes == Init => ServicesInv
<1> SUFFICES ASSUME Init
             PROVE  ServicesInv
  OBVIOUS
<1>1. ServicesShape
  <2>1. entries \in [Uuids -> Seq(Nat)]
    BY DEF Init
  <2> QED
    BY <2>1, ServicesAssumption DEF Init, ServicesShape, Places
<1>2. CallsKnown /\ QueueOK
  BY DEF Init, CallsKnown, QueueOK
<1>3. LocksOK
  BY DEF Init, LocksOK
<1>4. LoadingOK /\ CatalogsOK
  BY DEF Init, LoadingOK, CatalogsOK, LoadSteps
<1>5. EntriesOK
  <2> SUFFICES ASSUME NEW u \in Uuids
               PROVE  /\ \A k \in Nat : (\E i \in DOMAIN entries[u] : entries[u][i] = k)
                                           <=> OfLoaded(u, k) \/ OfLoading(u, k)
                      /\ \A i, j \in DOMAIN entries[u] : i < j => entries[u][i] > entries[u][j]
    BY DEF EntriesOK
  <2>1. \A k \in Nat : /\ OfLoaded(u, k) <=> k = 1 /\ Contains(UuidsOf[Preloaded], u)
                       /\ ~OfLoading(u, k)
    BY ServicesAssumption DEF Init, OfLoaded, OfLoading
  <2>2. entries[u] = IF Contains(UuidsOf[Preloaded], u) THEN <<1>> ELSE <<>>
    BY DEF Init
  <2> QED
    BY <2>1, <2>2
<1>6. FilesOK
  BY DEF Init, FilesOK
<1> QED
  BY <1>1, <1>2, <1>3, <1>4, <1>5, <1>6 DEF ServicesInv

\* A step of a call keeps the invariant.
LEMMA CallStepKeeps ==
    ASSUME ServicesInv, NEW c \in Calls, ThreadStep(c) \/ OtherStep(c)
    PROVE  ServicesInv'
<1>1. ServicesShape' /\ CallsKnown'
  BY ShapeStep, KnownStep DEF ServicesInv
<1>2. QueueOK' /\ LocksOK' /\ FilesOK'
  BY QueueStep, LocksStep, FilesStep DEF ServicesInv
<1>3. RegistryInv'
  BY RegistryStep DEF ServicesInv, RegistryInv
<1> QED
  BY <1>1, <1>2, <1>3 DEF ServicesInv, RegistryInv

\* A handler thread that takes a call keeps the invariant.
LEMMA TakeKeeps ==
    ASSUME ServicesInv, Take
    PROVE  ServicesInv'
<1>1. PICK c \in Calls :
         /\ pc[c] \in {"queued", "relqueued"}
         /\ pc' = [pc EXCEPT ![c] = IF pc[c] = "queued" THEN "begin" ELSE "erase"]
         /\ queue' \in Seq(Calls) /\ QueueOK'
  BY TakeFacts DEF ServicesInv
<1>2. UNCHANGED <<op, locking, library, catOf, blobs>>
  BY DEF Take
<1>3. ServicesShape' /\ CallsKnown'
  BY <1>1, <1>2 DEF ServicesInv, ServicesShape, CallsKnown, locking, library, blobs, Places,
     OnThread
<1>4. LocksOK'
  <2>1. \A d \in Calls : /\ pc'[d] \in BeforeLock => pc[d] \in BeforeLock
                         /\ pc'[d] = "released" <=> pc[d] = "released"
    BY <1>1 DEF ServicesInv, ServicesShape, BeforeLock
  <2> QED
    BY <1>2, <2>1, LocksFrameKeeps DEF ServicesInv, locking
<1>5. RegistryInv'
  <2>1. LibraryFrame
    BY <1>1, <1>2 DEF ServicesInv, ServicesShape, LibraryFrame, library
  <2> QED
    BY <2>1, LibraryFrameKeeps DEF ServicesInv, RegistryInv
<1>6. FilesOK'
  BY <1>1, <1>2 DEF ServicesInv, ServicesShape, FilesOK, blobs
<1> QED
  BY <1>1, <1>3, <1>4, <1>5, <1>6 DEF ServicesInv, RegistryInv

\* scan_directory() finds a number above those of the files that are there.
LEMMA ScanFacts ==
    ASSUME ServicesShape, FilesOK
    PROVE  ScanDirectory \in Nat \ {0} /\ \A f \in DOMAIN files : f < ScanDirectory
<1>1. PICK S : S = DOMAIN files \cup {0}
  OBVIOUS
<1>2. S \in SUBSET Nat /\ S # {} /\ nextFile \in Nat /\ \A n \in S : n <= nextFile
  BY <1>1 DEF ServicesShape, FilesOK
<1>3. Max(S) \in S /\ \A n \in S : n <= Max(S)
  BY <1>2, MaxFacts
<1>4. ScanDirectory = Max(S) + 1
  BY <1>1 DEF ScanDirectory
<1> QED
  BY <1>1, <1>2, <1>3, <1>4

\* A restart empties the tables, and keeps the files and their numbers apart.
LEMMA RestartKeeps ==
    ASSUME ServicesInv, Restart
    PROVE  ServicesInv'
<1>1. PICK lost : lost = {c \in Calls : pc[c] \notin (Ended \cup {"idle"}) \/ lockOf[c] # 0}
  OBVIOUS
<1>2. /\ pc' = [c \in Calls |-> IF c \in lost THEN "lost" ELSE pc[c]]
      /\ op' = [c \in Calls |-> IF c \in lost THEN NoOp ELSE op[c]]
      /\ blobOf' = [c \in Calls |-> IF c \in lost THEN 0 ELSE blobOf[c]]
  BY <1>1 DEF Restart
<1>3. /\ queue' = <<>> /\ lockTable' = {} /\ nextLock' = 1 /\ dllMutex' = {}
      /\ lockOf' = [c \in Calls |-> 0] /\ controllers' = [d \in Dlls |-> 0] /\ nextCat' = 1
      /\ entries' = [u \in Uuids |-> <<>>] /\ catOf' = [c \in Calls |-> 0]
      /\ registered' = [c \in Calls |-> 0] /\ nextFile' = ScanDirectory /\ files' = files
  BY DEF Restart
<1>4. ScanDirectory \in Nat \ {0} /\ \A f \in DOMAIN files : f < ScanDirectory
  BY ScanFacts DEF ServicesInv
<1>5. ServicesShape'
  <2>1. pc' \in [Calls -> Places] /\ op' \in [Calls -> Ops \cup {NoOp}]
    BY <1>2 DEF ServicesInv, ServicesShape, Places, Ended
  <2>2. blobOf' \in [Calls -> Nat]
    BY <1>2 DEF ServicesInv, ServicesShape
  <2>3. queue' \in Seq(Calls) /\ entries' \in [Uuids -> Seq(Nat)]
    BY <1>3
  <2> QED
    BY <1>3, <1>4, <2>1, <2>2, <2>3 DEF ServicesShape
<1>6. CallsKnown'
  BY <1>2 DEF ServicesInv, CallsKnown
<1>7. QueueOK'
  BY <1>3 DEF QueueOK
<1>8. LocksOK'
  BY <1>3 DEF LocksOK
<1>9. \A c \in Calls : pc'[c] \in Ended \cup {"idle"}
  BY <1>1, <1>2 DEF Ended
<1>10. LoadingOK' /\ CatalogsOK'
  BY <1>3, <1>9 DEF LoadingOK, CatalogsOK, LoadSteps, Ended
<1>11. EntriesOK'
  <2>1. \A u \in Uuids, k \in Nat : ~OfLoaded(u, k)' /\ ~OfLoading(u, k)'
    BY <1>3, <1>9 DEF OfLoaded, OfLoading, Ended
  <2> QED
    BY <1>3, <2>1 DEF EntriesOK
<1>12. FilesOK'
  <2>1. \A c \in Calls : blobOf'[c] # 0 => /\ blobOf'[c] = blobOf[c] /\ pc[c] # "file"
                                           /\ blobOf[c] \in DOMAIN files
                                           /\ files[blobOf[c]] = c
    BY <1>1, <1>2 DEF ServicesInv, FilesOK, Ended
  <2>2. \A c \in Calls : blobOf'[c] \in Nat
    BY <1>5 DEF ServicesShape
  <2> QED
    BY <1>3, <1>4, <2>1, <2>2 DEF ServicesInv, FilesOK
<1> QED
  BY <1>5, <1>6, <1>7, <1>8, <1>10, <1>11, <1>12 DEF ServicesInv

\* A step that changes nothing.
LEMMA StutterKeeps == ServicesInv /\ UNCHANGED vars => ServicesInv'
<1> SUFFICES ASSUME ServicesInv, UNCHANGED vars
             PROVE  ServicesInv'
  OBVIOUS
<1>1. UNCHANGED <<pc, op, queue, lockTable, nextLock, lockOf, dllMutex, controllers, nextCat,
                  entries, registered, catOf, files, nextFile, blobOf>>
  BY DEF vars, locking, library, blobs
<1>2. \A u \in Uuids, k \in Nat : /\ OfLoaded(u, k)' <=> OfLoaded(u, k)
                                  /\ OfLoading(u, k)' <=> OfLoading(u, k)
  BY <1>1 DEF OfLoaded, OfLoading
<1>3. EntriesOK'
  BY <1>1, <1>2 DEF ServicesInv, EntriesOK
<1> QED
  BY <1>1, <1>3 DEF ServicesInv, ServicesShape, CallsKnown, QueueOK, LocksOK, LoadingOK,
     CatalogsOK, FilesOK

\* The invariant is inductive ...
LEMMA NextKeeps == ServicesInv /\ [Next]_vars => ServicesInv'
BY CallStepKeeps, TakeKeeps, RestartKeeps, StutterKeeps DEF Next

\* ... and so holds in every state of every behaviour.
LEMMA ServicesInvariant == Spec => []ServicesInv
BY InitEstablishes, NextKeeps, PTL DEF Spec

-----------------------------------------------------------------------------
(* The theorems.                                                           *)

\* The table of cache record locks holds the locks of the calls that got one and have
\* not released it, each its own: the counter next_remote_record_id_ never hands out an
\* id twice, and release_cache_record_lock() takes out the lock of its own call only.
THEOREM LocksAreExact == Spec => []LocksExact
<1>1. ServicesInv => LocksExact
  <2> SUFFICES ASSUME ServicesInv
               PROVE  LocksExact
    OBVIOUS
  <2> DEFINE kept == {c \in Calls : lockOf[c] # 0 /\ pc[c] # "released"}
  <2>1. lockTable = {lockOf[c] : c \in kept}
    <3>1. \A l \in Nat : l \in lockTable <=> \E c \in kept : lockOf[c] = l
      BY DEF ServicesInv, LocksOK
    <3>2. lockTable \subseteq Nat /\ \A c \in kept : lockOf[c] \in Nat
      BY DEF ServicesInv, ServicesShape
    <3> QED
      BY ONLY <3>1, <3>2
  <2>2. \A c, d \in kept : c # d => lockOf[c] # lockOf[d]
    BY DEF ServicesInv, LocksOK
  <2> QED
    BY <2>1, <2>2 DEF LocksExact
<1> QED
  BY <1>1, ServicesInvariant, PTL

\* The registry holds the entries of the loaded libraries, and of the one that is being
\* loaded as far as it got, each once and the latest first, whatever loads, failed loads,
\* unloads and restarts came before: unregister_catalog() leaves nothing behind.
THEOREM RegistryIsExact == Spec => []RegistryExact
<1>1. ServicesInv => RegistryExact
  <2> SUFFICES ASSUME ServicesInv, NEW u \in Uuids
               PROVE  LET loaded  == {controllers[d] : d \in {e \in Dlls : controllers[e] # 0
                                                        /\ Contains(UuidsOf[e], u)}}
                          loading == {catOf[c] : c \in {d \in At("register") :
                                       \E i \in 1..registered[d] : UuidsOf[op[d].dll][i] = u}}
                      IN  /\ ToSet(entries[u]) = loaded \cup loading
                          /\ \A i, j \in DOMAIN entries[u] :
                                i < j => entries[u][i] > entries[u][j]
    BY DEF RegistryExact
  <2> DEFINE loaded  == {controllers[d] : d \in {e \in Dlls : controllers[e] # 0
                                                        /\ Contains(UuidsOf[e], u)}}
             loading == {catOf[c] : c \in {d \in At("register") :
                                       \E i \in 1..registered[d] : UuidsOf[op[d].dll][i] = u}}
  <2>1. loaded \subseteq Nat /\ loading \subseteq Nat
    BY DEF ServicesInv, ServicesShape, At
  <2>2. \A k \in Nat : k \in loaded <=> OfLoaded(u, k)
    BY DEF OfLoaded
  <2>3. \A k \in Nat : k \in loading <=> OfLoading(u, k)
    BY DEF OfLoading, At
  <2>4. /\ ToSet(entries[u]) \subseteq Nat
        /\ \A k \in Nat : k \in ToSet(entries[u]) <=> \E i \in DOMAIN entries[u] : entries[u][i] = k
    BY DEF ServicesInv, ServicesShape, ToSet
  <2>5. ToSet(entries[u]) = loaded \cup loading
    <3> HIDE DEF loaded, loading
    <3>1. \A k \in Nat : k \in ToSet(entries[u]) <=> k \in loaded \cup loading
      BY <2>2, <2>3, <2>4 DEF ServicesInv, EntriesOK
    <3> QED
      BY ONLY <2>1, <2>4, <3>1
  <2> QED
    BY <2>5 DEF ServicesInv, EntriesOK
<1> QED
  BY <1>1, ServicesInvariant, PTL

\* A blob file that an answered value refers to is the one its call wrote, also across
\* restarts: allocate_file() and scan_directory() never give its name to a later writer.
THEOREM AnsweredBlobStaysIntact == Spec => []AnsweredBlobIntact
<1>1. ServicesInv => AnsweredBlobIntact
  BY DEF ServicesInv, FilesOK, AnsweredBlobIntact
<1> QED
  BY <1>1, ServicesInvariant, PTL

-----------------------------------------------------------------------------
(* The thread guard: the part of PingAnswered that needs no fairness.      *)

\* Places of a resolution that has claimed a handler thread.
ClaimPlaces == {"lock", "locking", "prepare", "find", "found", "run", "file", "complete"}
Claimed == {c \in Calls : pc[c] \in ClaimPlaces}

GuardType ==
    /\ service \in {"rpclib", "loopback"} /\ crashed \in BOOLEAN
    /\ tracker \in [Calls -> {"none", "finished", "deleted"}]
    /\ tasklet \in [Calls -> {"none", "running", "finished", "deleted"}]

\* The guard counts the claims; a loopback service has no handler threads.
GuardOK ==
    /\ freeThreads \in Nat
    /\ service = "rpclib" => freeThreads + Cardinality(Claimed) = PoolGuard
    /\ service = "loopback" => freeThreads = PoolGuard /\ queue = <<>>

GuardInv == ServicesInv /\ GuardType /\ GuardOK

\* A step of call c claims a thread, gives one back, or does neither.
GuardFrame(c) ==
    /\ UNCHANGED service
    /\ service = "loopback" => queue' = queue /\ freeThreads' = freeThreads
    /\ service = "rpclib" =>
          \/ /\ freeThreads' = freeThreads
             /\ pc'[c] \in ClaimPlaces <=> pc[c] \in ClaimPlaces
          \/ /\ freeThreads # 0 /\ freeThreads' = freeThreads - 1
             /\ pc[c] \notin ClaimPlaces /\ pc'[c] \in ClaimPlaces
          \/ /\ freeThreads' = freeThreads + 1
             /\ pc[c] \in ClaimPlaces /\ pc'[c] \notin ClaimPlaces

\* Only handle_resolve_sync() claims a thread, and gives it back on every way out.
LEMMA GuardFrameStep ==
    ASSUME ServicesShape, GuardType, NEW c \in Calls,
           ThreadStep(c) \/ OtherStep(c)
    PROVE  GuardType' /\ GuardFrame(c)
<1>1. CASE ClaimThread(c)
  BY <1>1 DEF ClaimThread, locking, library, blobs, tracking, Moves, ServicesShape,
     ClaimPlaces, GuardType, GuardFrame
<1>2. CASE AllocBegins(c)
  BY <1>2 DEF AllocBegins, MayCrash, locking, library, blobs, tracking, Moves,
     ServicesShape, ClaimPlaces, GuardType, GuardFrame
<1>3. CASE AllocateLock(c)
  BY <1>3 DEF AllocateLock, locking, library, blobs, tracking, Moves, ServicesShape,
     ClaimPlaces, GuardType, GuardFrame
<1>4. CASE EraseBegins(c)
  BY <1>4 DEF EraseBegins, MayCrash, locking, library, blobs, tracking, Moves,
     ServicesShape, ClaimPlaces, GuardType, GuardFrame
<1>5. CASE EraseLock(c)
  BY <1>5 DEF EraseLock, locking, library, blobs, tracking, Moves, ServicesShape,
     ClaimPlaces, GuardType, GuardFrame
<1>6. CASE Prepare(c)
  BY <1>6 DEF Prepare, locking, library, blobs, tracking, Moves, ServicesShape,
     ClaimPlaces, GuardType, GuardFrame
<1>7. CASE Lookup(c)
  BY <1>7 DEF Lookup, Fails, ReleaseThread, FinishTasklet, StartTasklet, FindEntry,
     MayCrash, locking, library, blobs, tracking, Moves, ServicesShape, ClaimPlaces,
     GuardType, GuardFrame
<1>8. CASE UseEntry(c)
  BY <1>8 DEF UseEntry, Fails, ReleaseThread, FinishTasklet, MayCrash, locking,
     library, blobs, tracking, Moves, ServicesShape, ClaimPlaces, GuardType,
     GuardFrame
<1>9. CASE CreateFile(c)
  BY <1>9 DEF CreateFile, locking, library, blobs, tracking, Moves, ServicesShape,
     ClaimPlaces, GuardType, GuardFrame
<1>10. CASE Complete(c)
  BY <1>10 DEF Complete, ReleaseThread, locking, library, blobs, tracking, Moves,
     ServicesShape, ClaimPlaces, GuardType, GuardFrame
<1>11. CASE LoadBegins(c)
  BY <1>11 DEF LoadBegins, locking, library, blobs, tracking, Moves, ServicesShape,
     ClaimPlaces, GuardType, GuardFrame
<1>12. CASE Open(c)
  BY <1>12 DEF Open, locking, library, blobs, tracking, Moves, ServicesShape,
     ClaimPlaces, GuardType, GuardFrame
<1>13. CASE OpenFails(c)
  BY <1>13 DEF OpenFails, locking, library, blobs, tracking, Moves, ServicesShape,
     ClaimPlaces, GuardType, GuardFrame
<1>14. CASE Register(c)
  BY <1>14 DEF Register, Add, DetectDuplicate, locking, library, blobs, tracking,
     Moves, ServicesShape, ClaimPlaces, GuardType, GuardFrame
<1>15. CASE RegisterFails(c)
  BY <1>15 DEF RegisterFails, Unregister, Forgets, locking, library, blobs, tracking,
     Moves, ServicesShape, ClaimPlaces, GuardType, GuardFrame
<1>16. CASE LoadEnds(c)
  BY <1>16 DEF LoadEnds, Forgets, locking, library, blobs, tracking, Moves,
     ServicesShape, ClaimPlaces, GuardType, GuardFrame
<1>17. CASE Unload(c)
  BY <1>17 DEF Unload, Unregister, locking, library, blobs, tracking, Moves,
     ServicesShape, ClaimPlaces, GuardType, GuardFrame
<1>18. CASE GetTaskletInfos(c)
  BY <1>18 DEF GetTaskletInfos, MayCrash, locking, library, blobs, tracking, Moves,
     ServicesShape, ClaimPlaces, GuardType, GuardFrame
<1>19. CASE ClearInfo(c)
  BY <1>19 DEF ClearInfo, locking, library, blobs, tracking, Moves, ServicesShape,
     ClaimPlaces, GuardType, GuardFrame
<1>20. CASE StoreRequest(c)
  BY <1>20 DEF StoreRequest, locking, library, blobs, tracking, Moves, ServicesShape,
     ClaimPlaces, GuardType, GuardFrame
<1>21. CASE Send(c)
  BY <1>21 DEF Send, RpcCall, LoopbackCall, locking, library, blobs, tracking, Moves,
     ServicesShape, ClaimPlaces, GuardType, GuardFrame
<1>22. CASE Retry(c)
  BY <1>22 DEF Retry, RpcCall, locking, library, blobs, tracking, Moves,
     ServicesShape, ClaimPlaces, GuardType, GuardFrame
<1>23. CASE SendRelease(c)
  BY <1>23 DEF SendRelease, RpcCall, LoopbackCall, locking, library, blobs, tracking,
     Moves, ServicesShape, ClaimPlaces, GuardType, GuardFrame
<1>24. CASE AllocateFile(c)
  BY <1>24 DEF AllocateFile, locking, library, blobs, tracking, Moves, ServicesShape,
     ClaimPlaces, GuardType, GuardFrame
<1>25. CASE Return(c)
  BY <1>25 DEF Return, FinishTasklet, locking, library, blobs, tracking, Moves,
     ServicesShape, ClaimPlaces, GuardType, GuardFrame
<1>26. CASE Throw(c)
  BY <1>26 DEF Throw, Fails, ReleaseThread, FinishTasklet, locking, library, blobs,
     tracking, Moves, ServicesShape, ClaimPlaces, GuardType, GuardFrame
<1> QED
  BY <1>1, <1>2, <1>3, <1>4, <1>5, <1>6, <1>7, <1>8, <1>9, <1>10, <1>11, <1>12, <1>13,
     <1>14, <1>15, <1>16, <1>17, <1>18, <1>19, <1>20, <1>21, <1>22, <1>23, <1>24,
     <1>25, <1>26 DEF ThreadStep, OtherStep

\* The calls are finitely many.
LEMMA CallsFinite == IsFiniteSet(Calls) /\ \A S \in SUBSET Calls : IsFiniteSet(S)
<1>1. IsFiniteSet(Calls)
  BY FS_Interval, ServicesAssumption DEF Calls
<1> QED
  BY <1>1, FS_Subset

\* A set with one element more or less.
LEMMA OneMoreOrLess ==
    ASSUME NEW S, IsFiniteSet(S), NEW x
    PROVE  /\ Cardinality(S) \in Nat
           /\ x \notin S => Cardinality(S \cup {x}) = Cardinality(S) + 1
           /\ x \in S => Cardinality(S \ {x}) = Cardinality(S) - 1
BY FS_CardinalityType, FS_AddElement, FS_RemoveElement

\* The count of the guard is right after a step of a call.
LEMMA GuardStep ==
    ASSUME GuardInv, NEW c \in Calls, ThreadStep(c) \/ OtherStep(c)
    PROVE  GuardType' /\ GuardOK'
<1>1. GuardType' /\ GuardFrame(c) /\ \A d \in Calls : d # c => pc'[d] = pc[d]
  BY GuardFrameStep, QueueFrameStep DEF GuardInv, ServicesInv
<1>2. PICK S : S = Claimed
  OBVIOUS
<1>3. PICK T : T = Claimed'
  OBVIOUS
<1>4. /\ IsFiniteSet(S) /\ freeThreads \in Nat /\ PoolGuard \in Nat
      /\ service = "rpclib" => freeThreads + Cardinality(S) = PoolGuard
  BY <1>2, CallsFinite, ServicesAssumption DEF Claimed, GuardInv, GuardOK, PoolGuard
<1>5. /\ Cardinality(S) \in Nat
      /\ c \notin S => Cardinality(S \cup {c}) = Cardinality(S) + 1
      /\ c \in S => Cardinality(S \ {c}) = Cardinality(S) - 1
  BY <1>4, OneMoreOrLess
<1>6. CASE service = "loopback"
  BY <1>1, <1>6 DEF GuardInv, GuardOK, GuardFrame
<1>7. CASE service = "rpclib"
  <2>1. CASE /\ freeThreads' = freeThreads
             /\ pc'[c] \in ClaimPlaces <=> pc[c] \in ClaimPlaces
    <3>1. T = S
      BY <1>1, <1>2, <1>3, <2>1 DEF Claimed
    <3> QED
      BY <1>1, <1>3, <1>4, <1>7, <2>1, <3>1 DEF GuardOK, GuardFrame
  <2>2. CASE /\ freeThreads # 0 /\ freeThreads' = freeThreads - 1
             /\ pc[c] \notin ClaimPlaces /\ pc'[c] \in ClaimPlaces
    <3>1. T = S \cup {c} /\ c \notin S
      BY <1>1, <1>2, <1>3, <2>2 DEF Claimed
    <3>2. freeThreads' \in Nat /\ freeThreads' + Cardinality(T) = PoolGuard
      BY <1>4, <1>5, <1>7, <2>2, <3>1
    <3> QED
      BY <1>1, <1>3, <1>7, <3>2 DEF GuardOK, GuardFrame
  <2>3. CASE /\ freeThreads' = freeThreads + 1
             /\ pc[c] \in ClaimPlaces /\ pc'[c] \notin ClaimPlaces
    <3>1. T = S \ {c} /\ c \in S
      BY <1>1, <1>2, <1>3, <2>3 DEF Claimed
    <3>2. freeThreads' \in Nat /\ freeThreads' + Cardinality(T) = PoolGuard
      BY <1>4, <1>5, <1>7, <2>3, <3>1
    <3> QED
      BY <1>1, <1>3, <1>7, <3>2 DEF GuardOK, GuardFrame
  <2> QED
    BY <1>1, <1>7, <2>1, <2>2, <2>3 DEF GuardFrame
<1> QED
  BY <1>1, <1>6, <1>7 DEF GuardInv, GuardType

\* The guard is right in every state: also when calls are refused, fail or are lost.
LEMMA GuardInvariant == Spec => []GuardInv
<1>1. Init => GuardInv
  <2> SUFFICES ASSUME Init
               PROVE  GuardType /\ GuardOK
    BY InitEstablishes DEF GuardInv
  <2>1. GuardType /\ freeThreads = PoolGuard /\ queue = <<>>
    BY DEF Init, GuardType
  <2>2. Claimed = {}
    BY DEF Init, Claimed, ClaimPlaces
  <2>3. Cardinality(Claimed) = 0
    BY <2>2, FS_EmptySet
  <2>4. PoolGuard \in Nat
    BY ServicesAssumption DEF PoolGuard
  <2> QED
    BY <2>1, <2>3, <2>4 DEF GuardOK
<1>2. GuardInv /\ [Next]_vars => GuardInv'
  <2> SUFFICES ASSUME GuardInv, [Next]_vars
               PROVE  GuardType' /\ GuardOK'
    BY NextKeeps DEF GuardInv
  <2>1. CASE \E c \in Calls : ThreadStep(c) \/ OtherStep(c)
    BY <2>1, GuardStep
  <2>2. CASE Take
    <3>1. PICK c \in Calls :
             /\ pc[c] \in {"queued", "relqueued"}
             /\ pc' = [pc EXCEPT ![c] = IF pc[c] = "queued" THEN "begin" ELSE "erase"]
      BY <2>2, TakeFacts DEF GuardInv, ServicesInv
    <3>2. Claimed' = Claimed
      BY <3>1 DEF GuardInv, ServicesInv, ServicesShape, Claimed, ClaimPlaces
    <3>3. queue # <<>> /\ UNCHANGED <<service, freeThreads, tracker, tasklet, crashed>>
      BY <2>2 DEF Take, locking, tracking
    <3> QED
      BY <3>2, <3>3 DEF GuardInv, GuardType, GuardOK
  <2>3. CASE Restart
    <3>1. /\ service = "rpclib" /\ service' = service /\ freeThreads' = PoolGuard
          /\ PoolGuard \in Nat
      BY <2>3, ServicesAssumption DEF Restart, PoolGuard
    <3>2. \A c \in Calls : pc'[c] \in Ended \cup {"idle"}
      BY <2>3 DEF Restart, Ended
    <3>3. Claimed' = {}
      BY <3>2 DEF Claimed, ClaimPlaces, Ended
    <3>4. Cardinality(Claimed)' = 0
      BY <3>3, FS_EmptySet
    <3>5. GuardType'
      BY <2>3 DEF Restart, GuardInv, GuardType
    <3> QED
      BY <3>1, <3>4, <3>5 DEF GuardOK
  <2>4. CASE UNCHANGED vars
    <3>1. UNCHANGED <<service, pc, queue, freeThreads, tracker, tasklet, crashed>>
      BY <2>4 DEF vars, locking, tracking
    <3> QED
      BY <3>1 DEF GuardInv, GuardType, GuardOK, Claimed
  <2> QED
    BY <2>1, <2>2, <2>3, <2>4 DEF Next
<1> QED
  BY <1>1, <1>2, PTL DEF Spec

\* All variables keep their types.  The guard's count never goes below zero, nor above
\* the number of threads that it was told of.
THEOREM ServicesTypeCorrect == Spec => []ServicesTypeOK
<1>1. GuardInv => ServicesTypeOK
  <2> SUFFICES ASSUME GuardInv
               PROVE  ServicesTypeOK
    OBVIOUS
  <2>1. freeThreads \in 0..(HandlerThreads - 1)
    <3>1. Cardinality(Claimed) \in Nat
      BY CallsFinite, FS_CardinalityType DEF Claimed
    <3> QED
      BY <3>1, ServicesAssumption DEF GuardInv, GuardOK, GuardType, PoolGuard
  <2>2. dllMutex \in SUBSET Calls /\ Cardinality(dllMutex) <= 1
    <3>1. dllMutex \in SUBSET Calls /\ \A c, d \in dllMutex : c = d
      BY DEF GuardInv, ServicesInv, ServicesShape, LoadingOK
    <3>2. CASE dllMutex = {}
      BY <3>2, FS_EmptySet
    <3>3. CASE dllMutex # {}
      <4>1. PICK c \in dllMutex : TRUE
        BY <3>3
      <4>2. dllMutex = {c}
        BY <3>1, <4>1
      <4>3. Cardinality({c}) = 1
        BY FS_Singleton
      <4> QED
        BY <3>1, <4>2, <4>3
    <3> QED
      BY <3>1, <3>2, <3>3
  <2> QED
    BY <2>1, <2>2 DEF GuardInv, GuardType, ServicesInv, ServicesShape, Places, ServicesTypeOK
<1> QED
  BY <1>1, GuardInvariant, PTL

\* Resolutions never have all handler threads.
ThreadKeptFree == service = "rpclib" => Cardinality(Claimed) < HandlerThreads

\* The guards of the steps that a thread takes by itself.
ThreadReady(c) ==
    \/ pc[c] \in {"locking", "prepare", "find", "found", "file", "complete", "open",
                  "register", "erase", "erasing"}
    \/ pc[c] = "lock" /\ At("locking") = {}
    \/ pc[c] = "begin" /\ (op[c].kind \in {"load", "unload"} => dllMutex = {})

HoldsMutex(c) == pc[c] \in {"locking", "open", "register"}

\* A thread that waits for a mutex waits for one that can take a step; and when calls
\* are queued, a handler thread is free for the first one or can take a step.
ThreadsGoOn ==
    /\ \A c \in Busy : \/ pc[c] = "run" \/ ThreadReady(c)
                       \/ \E d \in Busy : HoldsMutex(d) /\ ThreadReady(d)
    /\ queue # <<>> => Cardinality(Busy) < HandlerThreads \/ \E c \in Busy : ThreadReady(c)

\* Who holds a mutex can go on.
LEMMA NoMutexDeadlock ==
    ASSUME ServicesInv, NEW c \in Busy, pc[c] # "run"
    PROVE  ThreadReady(c) \/ \E d \in Busy : HoldsMutex(d) /\ ThreadReady(d)
<1>1. c \in Calls /\ pc[c] \in OnThread
  BY DEF Busy
<1>2. \A d \in Calls : HoldsMutex(d) => d \in Busy /\ ThreadReady(d)
  BY DEF HoldsMutex, Busy, OnThread, ThreadReady
<1>3. CASE pc[c] = "lock" /\ At("locking") # {}
  BY <1>2, <1>3 DEF At, HoldsMutex
<1>4. CASE pc[c] = "begin" /\ dllMutex # {}
  BY <1>2, <1>4 DEF ServicesInv, ServicesShape, LoadingOK, LoadSteps, HoldsMutex
<1> QED
  BY <1>1, <1>3, <1>4 DEF OnThread, ThreadReady

\* Resolutions that run for ever never take all the handler threads, and the mutexes of
\* the locks and of dll_collection cause no deadlock: whatever waits in the queue, a
\* thread is free to take it or on its way to be.
THEOREM ThreadGuardWorks == Spec => [](ThreadKeptFree /\ ThreadsGoOn)
<1>1. GuardInv => ThreadKeptFree /\ ThreadsGoOn
  <2> SUFFICES ASSUME GuardInv
               PROVE  ThreadKeptFree /\ ThreadsGoOn
    OBVIOUS
  <2>1. PICK n \in Nat : n = Cardinality(Claimed)
    BY CallsFinite, FS_CardinalityType DEF Claimed
  <2>2. service = "rpclib" => n < HandlerThreads
    BY <2>1, ServicesAssumption DEF GuardInv, GuardOK, PoolGuard
  <2>3. ASSUME queue # <<>>, \A c \in Busy : ~ThreadReady(c)
        PROVE  Cardinality(Busy) < HandlerThreads
    <3>1. service = "rpclib"
      BY <2>3 DEF GuardInv, GuardType, GuardOK
    <3>2. \A c \in Busy : pc[c] = "run"
      BY <2>3, NoMutexDeadlock DEF GuardInv
    <3>3. Busy \subseteq Claimed /\ IsFiniteSet(Claimed)
      BY <3>2, CallsFinite DEF Busy, Claimed, ClaimPlaces
    <3>4. Cardinality(Busy) <= n /\ Cardinality(Busy) \in Nat
      BY <2>1, <3>3, FS_Subset, FS_CardinalityType
    <3> QED
      BY <2>2, <3>1, <3>4, ServicesAssumption
  <2> QED
    BY <2>1, <2>2, <2>3, NoMutexDeadlock DEF GuardInv, ThreadKeptFree, ThreadsGoOn
<1> QED
  BY <1>1, GuardInvariant, PTL

=============================================================================
