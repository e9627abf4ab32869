--------------------------- MODULE ResolveProofs ---------------------------
(* Machine-checked proofs about Resolve, for every forest of frames and    *)
(* every choice of requests that fail, are fully cached or are locked, as  *)
(* long as RetriedAlone holds, and about the dispatch in Contexts.  What   *)
(* concerns the cache itself is taken from ImmutableCacheProofs.           *)
EXTENDS Contexts, Resolve, ImmutableCacheProofs, NaturalsInduction, WellFoundedInduction

-----------------------------------------------------------------------------
(* The inductive invariant.                                                *)

\* The frame has a ptr.
Holding == {"locking", "ensure", "waiting", "throwing"}

\* A task that may still use its owner's ptr, context and request, and one that may
\* come to.
Using == Active \ {"failing"}
Usable == Using \cup {"created"}

\* The lock of frame c is set at most once.
LocksOnce(c) == MaxAttempts = 1 \/ KeyOf[c] \in CannotFail

Alone(c) == \A d \in Clients : KeyOf[d] = KeyOf[c] => d = c

\* A frame has a ptr on its own request's record while it resolves, and a lock on it if
\* it was given one; only a retry finds the lock taken.
FrameAt(c) ==
    /\ ptr[c] = IF pc[c] \in Holding THEN KeyOf[c] ELSE NoKey
    /\ pc[c] \in {"locking", "throwing"} => c \in WantsLock
    /\ lock[c] # NoKey => c \in WantsLock /\ lock[c] = KeyOf[c]
    /\ c \in WantsLock /\ pc[c] = "idle" => lock[c] = NoKey
    /\ c \in WantsLock /\ LocksOnce(c) =>
          /\ pc[c] \notin {"delay", "throwing"}
          /\ pc[c] = "locking" => lock[c] = NoKey
FramesOK == \A c \in Clients : FrameAt(c)

\* A frame is only retried if it has attempts left.
RetriesCounted == \A c \in Clients : pc[c] = "delay" => attempt[c] + 1 < MaxAttempts

\* What cannot fail does not.
NothingFails ==
    /\ \A c \in Clients : KeyOf[c] \in CannotFail =>
          pc[c] \notin {"delay", "throwing", "failed"}
    /\ \A t \in Tasks : KeyOf[t[1]] \in CannotFail => tstate[t] \notin {"failing", "failed"}

\* A task that is used belongs to its owner's present run, and one that was created
\* does too, unless its owner, alone with its request, threw.
OwnedAt(t) ==
    /\ tstate[t] \in Using => pc[t[1]] \in Holding /\ run[t[1]] = t[2]
    /\ tstate[t] = "created" =>
          \/ pc[t[1]] \in Holding /\ run[t[1]] = t[2]
          \/ Alone(t[1]) /\ t[1] \in Roots /\ pc[t[1]] = "failed"
    /\ t[2] > run[t[1]] => tstate[t] = "none"
TasksOwned == \A t \in Tasks : OwnedAt(t)

\* Only its owner runs the task of a request that the owner is alone with.
AloneUnused ==
    \A c \in Clients : Alone(c) /\ pc[c] \in {"locking", "ensure", "throwing"} =>
        tstate[Current(c)] \notin Using

\* The task of a run that is not over is its record's, which shows how far it is.
RecordAt(c) ==
    /\ tstate[Current(c)] \in Usable =>
          /\ rec_task[KeyOf[c]] = Current(c)
          /\ state[KeyOf[c]] = IF tstate[Current(c)] = "recorded" THEN "READY"
                                                                  ELSE "LOADING"
          /\ pc[c] = "waiting" => awaited[c] = Current(c)
TasksRecorded == \A c \in Clients : pc[c] \in Holding => RecordAt(c)

\* A record's task is a task for its key, and the record of one that succeeded is READY.
RecordsTask ==
    \A k \in records :
        /\ rec_task[k] \in Tasks
        /\ KeyOf[rec_task[k][1]] = k
        /\ tstate[rec_task[k]] # "none"
        /\ tstate[rec_task[k]] \in {"recorded", "succeeded"} => state[k] = "READY"

\* A frame awaits a task for its own request, which has begun; the value of one that
\* succeeded is in the cache as long as the frame needs it.
AwaitAt(c) ==
    /\ awaited[c] \in Tasks
    /\ KeyOf[awaited[c][1]] = KeyOf[c]
    /\ tstate[awaited[c]] \notin {"none", "created"}
    /\ tstate[awaited[c]] \in {"recorded", "succeeded"} => state[KeyOf[c]] = "READY"
AwaitedOK == \A c \in Clients : pc[c] = "waiting" => AwaitAt(c)

\* Values are those of the requests, in the cache and as results.
ValuesRight ==
    /\ \A k \in Keys : cas_record[k] \in {NoDigest, ValueOf[k]}
    /\ ReturnsValue /\ LockedResultReady

\* The frames of arguments are at work only while the task of their parent awaits them.
SubsInTime ==
    \A p \in Clients : \A s \in Subs(p) :
        pc[s] \in {"idle", "done", "failed"} \/ tstate[Current(p)] = "computing"

ResolveInv ==
    /\ IInv
    /\ ResolveTypeOK
    /\ FramesOK
    /\ RetriesCounted
    /\ NothingFails
    /\ TasksOwned
    /\ AloneUnused
    /\ TasksRecorded
    /\ RecordsTask
    /\ AwaitedOK
    /\ ValuesRight
    /\ SubsInTime

-----------------------------------------------------------------------------
(* Consequences.                                                           *)

\* A task is what a run of a frame has made.
LEMMA TaskFacts ==
    ASSUME ResolveTypeOK
    PROVE  /\ \A t \in Tasks : t[1] \in Clients /\ t[2] \in Nat /\ t = <<t[1], t[2]>>
           /\ \A c \in Clients : /\ Current(c) \in Tasks /\ Current(c)[1] = c
                                 /\ Current(c)[2] = run[c] /\ run[c] \in Nat
           /\ \A t \in Tasks : run[t[1]] = t[2] => t = Current(t[1])
<1>1. \A t \in Tasks : t[1] \in Clients /\ t[2] \in Nat /\ t = <<t[1], t[2]>>
  BY FramesAssumption DEF Tasks
<1>2. \A c \in Clients : run[c] \in 0 .. MaxRuns
  BY DEF ResolveTypeOK
<1> QED
  BY <1>1, <1>2, FramesAssumption DEF Tasks, Current

\* A request that cannot fail has arguments that cannot.
LEMMA CannotFailFacts ==
    ASSUME NEW c \in Clients, KeyOf[c] \in CannotFail
    PROVE  KeyOf[c] \notin CanFail /\ \A s \in Subs(c) : KeyOf[s] \in CannotFail
<1>1. PICK K \in SUBSET Keys : KeyOf[c] \in K /\ Reliable(K)
  BY DEF CannotFail
<1>2. \A s \in Subs(c) : s \in Clients /\ KeyOf[s] \in K
  BY <1>1 DEF Reliable, Subs
<1> QED
  BY <1>1, <1>2 DEF Reliable, CannotFail

\* Frames that are given a lock are roots, which no other frame restarts.
LEMMA RootFacts ==
    ASSUME NEW p \in Clients, NEW s \in Subs(p)
    PROVE  s \in Clients /\ s \notin Roots /\ s \notin WantsLock
BY FramesAssumption, NullAssumption DEF Subs, Roots

\* A task that is used is the present one of its owner, which holds its ptr, and the
\* one of its record.
LEMMA UsingFacts ==
    ASSUME ResolveInv, NEW t \in Tasks, tstate[t] \in Using
    PROVE  /\ t[1] \in Clients /\ t = Current(t[1]) /\ pc[t[1]] \in Holding
           /\ KeyOf[t[1]] \in Keys /\ ptr[t[1]] = KeyOf[t[1]]
           /\ rec_task[KeyOf[t[1]]] = t
           /\ state[KeyOf[t[1]]] = IF tstate[t] = "recorded" THEN "READY" ELSE "LOADING"
<1>1. pc[t[1]] \in Holding /\ t[1] \in Clients /\ t = Current(t[1])
  BY TaskFacts DEF ResolveInv, TasksOwned, OwnedAt
<1>2. ptr[t[1]] = KeyOf[t[1]] /\ KeyOf[t[1]] \in Keys
  BY <1>1, FramesAssumption DEF ResolveInv, FramesOK, FrameAt
<1>3. RecordAt(t[1])
  BY <1>1 DEF ResolveInv, TasksRecorded
<1> QED
  BY <1>1, <1>2, <1>3 DEF RecordAt, Usable

\* A frame that holds a ptr or a lock keeps the record.
LEMMA HeldFacts ==
    ASSUME IInv, NEW c \in Clients, NEW k \in Keys, ptr[c] = k \/ lock[c] = k
    PROVE  k \in records
BY DEF IInv, NoDanglingRecord, Holders

\* What a step does to the cache when no task records anything: records may go, and
\* those that stay are as they were.
CacheKept ==
    /\ records' \subseteq records
    /\ \A k \in records' : state'[k] = state[k] /\ cas_record'[k] = cas_record[k]
    /\ \A k \in Keys : cas_record'[k] \in {NoDigest, cas_record[k]}

\* Letting go of a ptr or a lock, and clearing the cache, are such steps.
LEMMA LettingGoKeeps ==
    ASSUME IInv, NEW c \in Clients, release_ptr(c) \/ unlock_record(c) \/ clear_unused_entries
    PROVE  IInv' /\ CacheKept
<1>1. IInv'
  BY ReleaseInv, UnlockInv, ClearInv
<1>2. ASSUME NEW list, NEW locked, NEW desired,
             reduce_memory_cache_size_impl(list, locked, desired)
      PROVE  CacheKept
  <2>1. records' \subseteq records /\ records' \subseteq Keys
    BY <1>1, <1>2 DEF reduce_memory_cache_size_impl, IInv, TypeOK
  <2>2. \A k \in records' : state'[k] = state[k] /\ cas_record'[k] = cas_record[k]
    BY <1>2, <2>1, ReduceKeeps
  <2>3. \A k \in Keys : cas_record'[k] \in {NoDigest, cas_record[k]}
    BY <1>2 DEF reduce_memory_cache_size_impl
  <2> QED
    BY <2>1, <2>2, <2>3 DEF CacheKept
<1>3. ASSUME NEW k, NEW locked, del_ref_from_cache_record(k, locked)
      PROVE  CacheKept
  BY <1>2, <1>3 DEF del_ref_from_cache_record, CacheKept
<1> QED
  BY <1>1, <1>2, <1>3 DEF release_ptr, unlock_record, clear_unused_entries

\* A step that does not touch the cache.
LEMMA CacheStutter ==
    ASSUME IInv, UNCHANGED vars
    PROVE  IInv'
<1> USE DEF IInv, vars, ac_vars, cas_vars, client_vars
<1>1. TypeOK' /\ EvictionListExact'
  BY DEF TypeOK, EvictionListExact
<1>2. RefCountsExact' /\ NoDanglingRecord'
  BY DEF RefCountsExact, NoDanglingRecord, Holders
<1>3. ReadyHasValue' /\ CasRefsExact'
  BY DEF ReadyHasValue, CasRefsExact, Referrers
<1>4. CasLocksExact'
  BY DEF CasLocksExact, LockedReferrers, LockedDigests
<1>5. UnusedWithinLimit'
  BY DEF UnusedWithinLimit, UnusedDigests, Referrers
<1> QED
  BY <1>1, <1>2, <1>3, <1>4, <1>5

\* A record that is held after such a step is as it was.
LEMMA KeptFacts ==
    ASSUME IInv', CacheKept, NEW c \in Clients, NEW k \in Keys,
           ptr'[c] = k \/ lock'[c] = k
    PROVE  k \in records /\ state'[k] = state[k] /\ cas_record'[k] = cas_record[k]
<1>1. k \in records'
  BY DEF IInv, NoDanglingRecord, Holders
<1> QED
  BY <1>1 DEF CacheKept

-----------------------------------------------------------------------------
(* The steps of a frame.                                                   *)

\* A frame that begins has no task in use, and its arguments' frames are not at work.
LEMMA BeginFacts ==
    ASSUME ResolveInv, NEW c \in Clients, MayBegin(c)
    PROVE  /\ pc[c] \in {"idle", "delay"}
           /\ \A t \in Tasks : t[1] = c => tstate[t] \notin Usable
           /\ \A s \in Subs(c) : pc[s] \in {"idle", "done", "failed"}
           /\ \A p \in Clients : c \in Subs(p) => p # c /\ tstate[Current(p)] = "computing"
<1>1. pc[c] \in {"idle", "delay"}
  BY DEF MayBegin
<1>2. \A t \in Tasks : t[1] = c => tstate[t] \notin Usable
  BY <1>1 DEF ResolveInv, TasksOwned, OwnedAt, Usable, Holding
<1>3. Current(c) \in Tasks /\ Current(c)[1] = c
  BY TaskFacts DEF ResolveInv
<1>4. tstate[Current(c)] # "computing"
  BY <1>2, <1>3 DEF Usable, Using, Active
<1>5. \A s \in Subs(c) : pc[s] \in {"idle", "done", "failed"}
  BY <1>4 DEF ResolveInv, SubsInTime
<1>6. ASSUME NEW p \in Clients, c \in Subs(p)
      PROVE  tstate[Current(p)] = "computing"
  <2>1. c \notin Roots /\ ParentOf[c] = p
    BY <1>6, RootFacts DEF Subs
  <2> QED
    BY <1>6, <2>1 DEF MayBegin, ResolveInv, SubsInTime
<1> QED
  BY <1>1, <1>2, <1>4, <1>5, <1>6

\* A ptr is created.
LEMMA CreateKeeps ==
    ASSUME ResolveInv, NEW c \in Clients, create_ptr(c)
    PROVE  ResolveInv'
<1> DEFINE k == KeyOf[c]
           t == <<c, run[c] + 1>>
<1>1. /\ MayBegin(c) /\ run[c] < MaxRuns /\ acquire_cache_record(c, k)
      /\ run' = [run EXCEPT ![c] = @ + 1]
      /\ attempt' = [attempt EXCEPT ![c] = IF pc[c] = "delay" THEN @ + 1 ELSE 0]
      /\ pc' = [pc EXCEPT ![c] = IF c \in WantsLock THEN "locking" ELSE "ensure"]
      /\ UNCHANGED <<awaited, result, stored>>
      /\ IF NeedsTask(k)
         THEN /\ rec_task' = [rec_task EXCEPT ![k] = t]
              /\ tstate' = [tstate EXCEPT ![t] = "created"]
         ELSE UNCHANGED <<rec_task, tstate>>
  BY DEF create_ptr
<1>2. /\ k \in Keys /\ t \in Tasks /\ t[1] = c /\ t[2] = run[c] + 1 /\ run[c] \in Nat
      /\ ResolveTypeOK /\ IInv /\ TypeOK
  <2>1. ResolveTypeOK /\ IInv /\ TypeOK /\ k \in Keys
    BY FramesAssumption DEF ResolveInv, IInv
  <2>2. run[c] \in Nat /\ run[c] + 1 \in 0 .. MaxRuns
    BY <1>1, <2>1, FramesAssumption DEF ResolveTypeOK
  <2> QED
    BY <2>1, <2>2 DEF Tasks
<1> HIDE DEF k, t
<1>3. IInv'
  BY <1>1, <1>2, AcquireInv
<1>4. /\ pc[c] \in {"idle", "delay"}
      /\ \A u \in Tasks : u[1] = c => tstate[u] \notin Usable
      /\ \A s \in Subs(c) : pc[s] \in {"idle", "done", "failed"}
      /\ \A p \in Clients : c \in Subs(p) => p # c /\ tstate[Current(p)] = "computing"
  BY <1>1, BeginFacts
<1>5. tstate[t] = "none"
  BY <1>2 DEF ResolveInv, TasksOwned, OwnedAt
<1>6. /\ records' = records \cup {k} /\ cas_record' = cas_record /\ lock' = lock
      /\ ptr' = [ptr EXCEPT ![c] = k]
      /\ \A x \in Keys : x # k \/ ~NeedsTask(k) => state'[x] = state[x]
      /\ NeedsTask(k) => state'[k] = "LOADING"
  BY <1>1, <1>2 DEF acquire_cache_record, TypeOK
<1>7. /\ \A d \in Clients : d # c => pc'[d] = pc[d] /\ run'[d] = run[d] /\ Current(d)' = Current(d)
      /\ pc'[c] = IF c \in WantsLock THEN "locking" ELSE "ensure"
      /\ run'[c] = run[c] + 1 /\ Current(c)' = t
  BY <1>1, <1>2 DEF ResolveTypeOK, Current, t
<1>8. /\ \A u \in Tasks : u # t => tstate'[u] = tstate[u]
      /\ tstate'[t] = IF NeedsTask(k) THEN "created" ELSE "none"
      /\ \A x \in Keys : x # k \/ ~NeedsTask(k) => rec_task'[x] = rec_task[x]
      /\ NeedsTask(k) => rec_task'[k] = t
  BY <1>1, <1>2, <1>5 DEF ResolveTypeOK
<1>9. ResolveTypeOK'
  <2>1. pc' \in [Clients -> FrameStates]
    BY <1>1, <1>2 DEF ResolveTypeOK, FrameStates
  <2>2. run' \in [Clients -> 0 .. MaxRuns]
    BY <1>1, <1>2, FramesAssumption DEF ResolveTypeOK
  <2>3. attempt' \in [Clients -> 0 .. MaxAttempts - 1]
    <3>1. attempt[c] \in 0 .. MaxAttempts - 1 /\ MaxAttempts \in Nat \ {0}
      BY <1>2, FramesAssumption DEF ResolveTypeOK
    <3>2. pc[c] = "delay" => attempt[c] + 1 \in 0 .. MaxAttempts - 1
      BY <3>1 DEF ResolveInv, RetriesCounted
    <3> QED
      BY <1>1, <1>2, <3>1, <3>2 DEF ResolveTypeOK
  <2>4. rec_task' \in [Keys -> Tasks \cup {NoTask}] /\ tstate' \in [Tasks -> TaskStates]
    BY <1>1, <1>2 DEF ResolveTypeOK, TaskStates
  <2> QED
    BY <1>1, <1>2, <2>1, <2>2, <2>3, <2>4 DEF ResolveTypeOK
<1>10. ASSUME NEW d \in Clients, KeyOf[d] = k, pc[d] \in Holding \/ lock[d] = k,
             state[k] # "FAILED"
       PROVE  ~NeedsTask(k)
  <2>1. ptr[d] = k \/ lock[d] = k
    BY <1>10 DEF ResolveInv, FramesOK, FrameAt
  <2> QED
    BY <1>2, <1>10, <2>1, HeldFacts DEF NeedsTask
<1>11. FramesOK' /\ RetriesCounted'
  <2>1. \A d \in Clients : d # c => FrameAt(d)'
    BY <1>2, <1>6, <1>7 DEF ResolveInv, FramesOK, FrameAt, LocksOnce, TypeOK
  <2>2. FrameAt(c)'
    BY <1>2, <1>4, <1>6, <1>7 DEF ResolveInv, FramesOK, FrameAt, LocksOnce, TypeOK, Holding, k
  <2>3. RetriesCounted'
    BY <1>1, <1>7 DEF ResolveInv, RetriesCounted, ResolveTypeOK
  <2> QED
    BY <2>1, <2>2, <2>3 DEF FramesOK
<1>12. NothingFails'
  BY <1>2, <1>7, <1>8 DEF ResolveInv, NothingFails
<1>13. TasksOwned'
  <2> SUFFICES ASSUME NEW u \in Tasks
               PROVE  OwnedAt(u)'
    BY DEF TasksOwned
  <2>1. OwnedAt(u) /\ u[1] \in Clients /\ u[2] \in Nat /\ u = <<u[1], u[2]>>
    BY <1>2, TaskFacts DEF ResolveInv, TasksOwned
  <2>2. CASE u[1] # c
    BY <1>2, <1>7, <1>8, <2>1, <2>2 DEF OwnedAt
  <2>3. CASE u = t
    BY <1>2, <1>7, <1>8, <2>3 DEF OwnedAt, Using, Active, Holding
  <2>4. CASE u[1] = c /\ u # t
    BY <1>2, <1>4, <1>7, <1>8, <2>1, <2>4 DEF OwnedAt, Usable
  <2> QED
    BY <2>2, <2>3, <2>4
<1>14. AloneUnused'
  <2> SUFFICES ASSUME NEW d \in Clients, Alone(d), pc'[d] \in {"locking", "ensure", "throwing"}
               PROVE  tstate'[Current(d)'] \notin Using
    BY DEF AloneUnused, Alone
  <2>1. CASE d = c
    BY <1>7, <1>8, <2>1 DEF Using, Active
  <2>2. CASE d # c
    <3>1. Current(d) \in Tasks /\ Current(d) # t
      BY <1>2, <2>2, TaskFacts
    <3> QED
      BY <1>7, <1>8, <2>2, <3>1 DEF ResolveInv, AloneUnused
  <2> QED
    BY <2>1, <2>2
<1>15. TasksRecorded'
  <2> SUFFICES ASSUME NEW d \in Clients, pc'[d] \in Holding
               PROVE  RecordAt(d)'
    BY DEF TasksRecorded
  <2>1. CASE d = c
    BY <1>2, <1>6, <1>7, <1>8, <2>1 DEF RecordAt, Usable, Using, Active, k
  <2>2. CASE d # c
    <3>1. Current(d) \in Tasks /\ Current(d) # t /\ KeyOf[d] \in Keys
      BY <1>2, <2>2, TaskFacts, FramesAssumption
    <3>2. RecordAt(d) /\ pc[d] \in Holding
      BY <1>7, <2>2 DEF ResolveInv, TasksRecorded
    <3>3. tstate[Current(d)] \in Usable /\ KeyOf[d] = k => ~NeedsTask(k)
      BY <1>10, <3>2 DEF RecordAt
    <3> QED
      BY <1>1, <1>6, <1>7, <1>8, <2>2, <3>1, <3>2, <3>3 DEF RecordAt
  <2> QED
    BY <2>1, <2>2
<1>16. RecordsTask'
  <2> SUFFICES ASSUME NEW x \in records'
               PROVE  /\ rec_task'[x] \in Tasks
                      /\ KeyOf[rec_task'[x][1]] = x
                      /\ tstate'[rec_task'[x]] # "none"
                      /\ tstate'[rec_task'[x]] \in {"recorded", "succeeded"} =>
                            state'[x] = "READY"
    BY DEF RecordsTask
  <2>1. CASE x = k /\ NeedsTask(k)
    BY <1>2, <1>8, <2>1 DEF k
  <2>2. CASE x # k \/ ~NeedsTask(k)
    <3>1. x \in records /\ x \in Keys
      BY <1>2, <1>6, <2>2 DEF NeedsTask, TypeOK
    <3>2. /\ rec_task[x] \in Tasks /\ KeyOf[rec_task[x][1]] = x /\ tstate[rec_task[x]] # "none"
          /\ tstate[rec_task[x]] \in {"recorded", "succeeded"} => state[x] = "READY"
      BY <3>1 DEF ResolveInv, RecordsTask
    <3> QED
      BY <1>5, <1>6, <1>8, <2>2, <3>1, <3>2
  <2> QED
    BY <2>1, <2>2
<1>17. AwaitedOK'
  <2> SUFFICES ASSUME NEW d \in Clients, pc'[d] = "waiting"
               PROVE  AwaitAt(d)'
    BY DEF AwaitedOK
  <2>1. d # c /\ pc[d] = "waiting" /\ AwaitAt(d) /\ KeyOf[d] \in Keys
    BY <1>7, FramesAssumption DEF ResolveInv, AwaitedOK
  <2>2. awaited[d] \in Tasks /\ awaited[d] # t
    BY <1>5, <2>1 DEF AwaitAt
  <2>3. KeyOf[d] = k /\ state[k] = "READY" => ~NeedsTask(k)
    BY <1>10, <2>1 DEF Holding
  <2> QED
    BY <1>1, <1>6, <1>8, <2>1, <2>2, <2>3 DEF AwaitAt
<1>18. ValuesRight'
  <2>1. ReturnsValue'
    BY <1>1, <1>7 DEF ResolveInv, ValuesRight, ReturnsValue
  <2>2. LockedResultReady'
    <3> SUFFICES ASSUME NEW d \in Clients, pc'[d] = "done", lock'[d] # NoKey
                 PROVE  lock'[d] = KeyOf[d] /\ state'[KeyOf[d]] = "READY"
      BY DEF LockedResultReady
    <3>1. /\ d # c /\ lock[d] = KeyOf[d] /\ state[KeyOf[d]] = "READY" /\ KeyOf[d] \in Keys
      BY <1>6, <1>7, FramesAssumption DEF ResolveInv, ValuesRight, LockedResultReady
    <3>2. KeyOf[d] = k => ~NeedsTask(k)
      BY <1>10, <3>1
    <3> QED
      BY <1>6, <3>1, <3>2
  <2> QED
    BY <1>6, <2>1, <2>2 DEF ResolveInv, ValuesRight
<1>19. SubsInTime'
  <2> SUFFICES ASSUME NEW p \in Clients, NEW s \in Subs(p),
                      pc'[s] \notin {"idle", "done", "failed"}
               PROVE  tstate'[Current(p)'] = "computing"
    BY DEF SubsInTime
  <2>1. s \in Clients
    BY RootFacts
  <2>2. p # c /\ tstate[Current(p)] = "computing"
    BY <1>4, <1>7, <2>1 DEF ResolveInv, SubsInTime
  <2>3. Current(p) \in Tasks /\ Current(p) # t
    BY <1>2, <2>2, TaskFacts
  <2> QED
    BY <1>7, <1>8, <2>2, <2>3
<1> QED
  BY <1>3, <1>9, <1>11, <1>12, <1>13, <1>14, <1>15, <1>16, <1>17, <1>18, <1>19 DEF ResolveInv

\* The lock is set, or found to be taken.
LEMMA SetRecordKeeps ==
    ASSUME ResolveInv, NEW c \in Clients, set_record(c)
    PROVE  ResolveInv'
<1>1. /\ pc[c] = "locking" /\ c \in WantsLock /\ ptr[c] = KeyOf[c] /\ KeyOf[c] \in Keys
      /\ UNCHANGED <<run, attempt, rec_task, tstate, awaited, result, stored>>
  BY FramesAssumption DEF set_record, ResolveInv, FramesOK, FrameAt, Holding
<1>2. /\ ResolveTypeOK /\ IInv /\ TypeOK
  BY DEF ResolveInv, IInv
<1>3. PICK q \in {"ensure", "throwing"} :
        /\ pc' = [pc EXCEPT ![c] = q] /\ (q = "throwing" <=> lock[c] # NoKey)
        /\ lock' = IF lock[c] = NoKey THEN [lock EXCEPT ![c] = KeyOf[c]] ELSE lock
        /\ IInv' /\ UNCHANGED <<records, state, cas_record, ptr>>
  <2>1. CASE lock[c] = NoKey
    <3>1. lock_record(c) /\ pc' = [pc EXCEPT ![c] = "ensure"]
      BY <2>1 DEF set_record
    <3>2. IInv'
      BY <1>2, <3>1, LockInv
    <3> QED
      BY <1>1, <2>1, <3>1, <3>2 DEF lock_record
  <2>2. CASE lock[c] # NoKey
    <3>1. UNCHANGED vars /\ pc' = [pc EXCEPT ![c] = "throwing"]
      BY <2>2 DEF set_record
    <3>2. IInv'
      BY <1>2, <3>1, CacheStutter
    <3> QED
      BY <2>2, <3>1, <3>2 DEF vars, ac_vars, client_vars
  <2> QED
    BY <2>1, <2>2
<1>4. q = "throwing" => ~LocksOnce(c)
  BY <1>1, <1>3 DEF ResolveInv, FramesOK, FrameAt
<1>5. /\ \A d \in Clients : d # c => pc'[d] = pc[d] /\ lock'[d] = lock[d]
      /\ pc'[c] = q /\ (lock'[c] # NoKey => lock'[c] = KeyOf[c])
      /\ \A d \in Clients : Current(d)' = Current(d)
  BY <1>1, <1>2, <1>3 DEF ResolveTypeOK, TypeOK, Current, ResolveInv, FramesOK, FrameAt
<1>6. ResolveTypeOK'
  BY <1>1, <1>2, <1>3 DEF ResolveTypeOK, FrameStates
<1>7. FramesOK' /\ RetriesCounted'
  <2>1. \A d \in Clients : d # c => FrameAt(d)'
    BY <1>3, <1>5 DEF ResolveInv, FramesOK, FrameAt, LocksOnce
  <2>2. FrameAt(c)'
    BY <1>1, <1>3, <1>4, <1>5 DEF FrameAt, LocksOnce, Holding
  <2>3. RetriesCounted'
    BY <1>1, <1>5 DEF ResolveInv, RetriesCounted
  <2> QED
    BY <2>1, <2>2, <2>3 DEF FramesOK
<1>8. NothingFails'
  BY <1>1, <1>4, <1>5 DEF ResolveInv, NothingFails, LocksOnce
<1>9. TasksOwned' /\ AloneUnused'
  <2>1. \A d \in Clients : (pc'[d] \in Holding <=> pc[d] \in Holding)
                           /\ (pc'[d] = "failed" <=> pc[d] = "failed")
    BY <1>1, <1>3, <1>5 DEF Holding
  <2>2. \A t \in Tasks : t[1] \in Clients
    BY <1>2, TaskFacts
  <2>3. TasksOwned'
    BY <1>1, <2>1, <2>2 DEF ResolveInv, TasksOwned, OwnedAt, Alone
  <2>4. AloneUnused'
    BY <1>1, <1>5 DEF ResolveInv, AloneUnused, Alone
  <2> QED
    BY <2>3, <2>4
<1>10. TasksRecorded' /\ RecordsTask' /\ AwaitedOK'
  <2>1. \A d \in Clients : pc'[d] \in Holding => /\ pc[d] \in Holding
                                                 /\ pc'[d] = "waiting" => pc[d] = "waiting"
    BY <1>1, <1>3, <1>5 DEF Holding
  <2>2. TasksRecorded'
    BY <1>1, <1>3, <1>5, <2>1 DEF ResolveInv, TasksRecorded, RecordAt
  <2>3. RecordsTask'
    BY <1>1, <1>3 DEF ResolveInv, RecordsTask
  <2>4. AwaitedOK'
    BY <1>1, <1>3, <2>1 DEF ResolveInv, AwaitedOK, AwaitAt, Holding
  <2> QED
    BY <2>2, <2>3, <2>4
<1>11. ValuesRight'
  BY <1>1, <1>3, <1>5 DEF ResolveInv, ValuesRight, ReturnsValue, LockedResultReady
<1>12. SubsInTime'
  <2> SUFFICES ASSUME NEW p \in Clients, NEW s \in Subs(p),
                      pc'[s] \notin {"idle", "done", "failed"}
               PROVE  tstate'[Current(p)'] = "computing"
    BY DEF SubsInTime
  <2>1. s \in Clients /\ pc[s] \notin {"idle", "done", "failed"}
    BY <1>1, <1>5, RootFacts
  <2> QED
    BY <1>1, <1>5, <2>1 DEF ResolveInv, SubsInTime
<1> QED
  BY <1>3, <1>6, <1>7, <1>8, <1>9, <1>10, <1>11, <1>12 DEF ResolveInv

\* A frame awaits its record's task, and runs it if it is the first to.
LEMMA EnsureKeeps ==
    ASSUME ResolveInv, NEW c \in Clients, ensure_value_task(c)
    PROVE  ResolveInv'
<1> DEFINE k == KeyOf[c]
           t == rec_task[KeyOf[c]]
<1>1. /\ pc[c] = "ensure" /\ awaited' = [awaited EXCEPT ![c] = t]
      /\ UNCHANGED <<run, attempt, rec_task, result, stored>> /\ UNCHANGED vars
  BY DEF ensure_value_task
<1>2. /\ ResolveTypeOK /\ IInv /\ TypeOK /\ k \in Keys /\ IInv'
      /\ UNCHANGED <<records, state, cas_record, ptr, lock>>
  BY <1>1, FramesAssumption, CacheStutter DEF ResolveInv, IInv, vars, ac_vars, client_vars
<1>3. k \in records /\ c \in Clients
  <2>1. ptr[c] = k
    BY <1>1 DEF ResolveInv, FramesOK, FrameAt, Holding
  <2> QED
    BY <1>2, <2>1, HeldFacts
<1>4. /\ t \in Tasks /\ KeyOf[t[1]] = k /\ tstate[t] # "none" /\ t[1] \in Clients
      /\ tstate[t] \in {"recorded", "succeeded"} => state[k] = "READY"
  BY <1>2, <1>3, TaskFacts DEF ResolveInv, RecordsTask
<1> DEFINE begins == tstate[t] = "created"
<1>5. ASSUME begins
      PROVE  /\ t = Current(t[1]) /\ pc[t[1]] \in Holding
             /\ \A s \in Subs(t[1]) : pc[s] \in {"idle", "done", "failed"} /\ s # c
  <2>1. OwnedAt(t)
    BY <1>4 DEF ResolveInv, TasksOwned
  <2>2. pc[t[1]] \in Holding /\ run[t[1]] = t[2]
    BY <1>1, <1>4, <1>5, <2>1 DEF OwnedAt, Alone
  <2>3. t = Current(t[1])
    BY <1>2, <1>4, <2>2, TaskFacts
  <2>4. \A s \in Subs(t[1]) : pc[s] \in {"idle", "done", "failed"}
    BY <1>4, <1>5, <2>3 DEF ResolveInv, SubsInTime
  <2> QED
    BY <1>1, <2>2, <2>3, <2>4
<1>6. PICK s0 \in {"reading", "computing"} :
         tstate' = IF begins THEN [tstate EXCEPT ![t] = s0] ELSE tstate
  BY DEF ensure_value_task
<1>7. pc' = [s \in Clients |-> IF s = c THEN "waiting"
                               ELSE IF begins /\ s \in Subs(t[1]) THEN "idle" ELSE pc[s]]
  BY <1>2 DEF ensure_value_task, ResolveTypeOK
<1> HIDE DEF k, t, begins
<1>8. /\ pc'[c] = "waiting"
      /\ \A d \in Clients : d # c =>
            pc'[d] = pc[d] \/ (/\ pc[d] \in {"done", "failed"} /\ pc'[d] = "idle"
                               /\ d \notin Roots /\ d \notin WantsLock)
      /\ \A d \in Clients : Current(d)' = Current(d)
  <2>1. begins => \A s \in Subs(t[1]) : /\ pc[s] \in {"idle", "done", "failed"}
                                        /\ s \notin Roots /\ s \notin WantsLock
    BY <1>4, <1>5, RootFacts
  <2> QED
    BY <1>1, <1>7, <2>1 DEF Current
<1>9. /\ \A u \in Tasks : u # t \/ ~begins => tstate'[u] = tstate[u]
      /\ begins => tstate'[t] = s0 /\ tstate[t] = "created"
      /\ awaited'[c] = t /\ \A d \in Clients : d # c => awaited'[d] = awaited[d]
  BY <1>1, <1>2, <1>4, <1>6 DEF ResolveTypeOK, begins
<1>10. ResolveTypeOK'
  <2>1. pc' \in [Clients -> FrameStates]
    BY <1>2, <1>7 DEF ResolveTypeOK, FrameStates
  <2>2. tstate' \in [Tasks -> TaskStates] /\ awaited' \in [Clients -> Tasks \cup {NoTask}]
    BY <1>1, <1>2, <1>4, <1>6 DEF ResolveTypeOK, TaskStates
  <2> QED
    BY <1>1, <1>2, <2>1, <2>2 DEF ResolveTypeOK
<1>11. FramesOK' /\ RetriesCounted'
  <2>1. \A d \in Clients : FrameAt(d)'
    <3> TAKE d \in Clients
    <3>1. FrameAt(d)
      BY DEF ResolveInv, FramesOK
    <3> QED
      BY <1>1, <1>2, <1>8, <3>1 DEF FrameAt, LocksOnce, Holding
  <2>2. RetriesCounted'
    BY <1>1, <1>8 DEF ResolveInv, RetriesCounted
  <2> QED
    BY <2>1, <2>2 DEF FramesOK
<1>12. NothingFails'
  BY <1>4, <1>8, <1>9 DEF ResolveInv, NothingFails
<1>13. TasksOwned'
  <2> SUFFICES ASSUME NEW u \in Tasks
               PROVE  OwnedAt(u)'
    BY DEF TasksOwned
  <2>1. OwnedAt(u) /\ u[1] \in Clients
    BY <1>2, TaskFacts DEF ResolveInv, TasksOwned
  <2>2. pc[u[1]] \in Holding => pc'[u[1]] \in Holding
    BY <1>8, <2>1 DEF Holding
  <2>3. u[1] \in Roots /\ pc[u[1]] = "failed" => pc'[u[1]] = "failed"
    BY <1>1, <1>8, <2>1
  <2>4. CASE u = t /\ begins
    <3>1. pc[t[1]] \in Holding /\ run[t[1]] = t[2] /\ t[2] \in Nat
      BY <1>2, <1>4, <1>5, <2>4, TaskFacts
    <3> QED
      BY <1>1, <1>9, <2>2, <2>4, <3>1 DEF OwnedAt
  <2>5. CASE u # t \/ ~begins
    BY <1>1, <1>9, <2>1, <2>2, <2>3, <2>5 DEF OwnedAt, Alone
  <2> QED
    BY <2>4, <2>5
<1>14. AloneUnused'
  <2> SUFFICES ASSUME NEW d \in Clients, Alone(d), pc'[d] \in {"locking", "ensure", "throwing"}
               PROVE  tstate'[Current(d)] \notin Using
    BY <1>8 DEF AloneUnused, Alone
  <2>1. d # c /\ pc[d] = pc'[d]
    BY <1>8
  <2>2. Current(d) \in Tasks /\ Current(d)[1] = d
    BY <1>2, TaskFacts
  <2>3. Current(d) # t
    BY <1>4, <2>1, <2>2 DEF Alone, k
  <2> QED
    BY <1>9, <2>1, <2>2, <2>3 DEF ResolveInv, AloneUnused
<1>15. TasksRecorded'
  <2> SUFFICES ASSUME NEW d \in Clients, pc'[d] \in Holding
               PROVE  RecordAt(d)'
    BY DEF TasksRecorded
  <2>1. RecordAt(d) /\ pc[d] \in Holding /\ Current(d) \in Tasks
    BY <1>1, <1>2, <1>8, TaskFacts DEF ResolveInv, TasksRecorded, Holding
  <2>2. tstate'[Current(d)] \in Usable => /\ tstate[Current(d)] \in Usable
                                          /\ tstate'[Current(d)] = "recorded" <=> tstate[Current(d)] = "recorded"
    BY <1>9, <2>1 DEF Usable
  <2>3. d = c /\ tstate[Current(d)] \in Usable => t = Current(d)
    BY <2>1 DEF RecordAt, t
  <2>4. d # c => pc'[d] = pc[d]
    BY <1>8 DEF Holding
  <2> QED
    BY <1>1, <1>2, <1>8, <1>9, <2>1, <2>2, <2>3, <2>4 DEF RecordAt
<1>16. RecordsTask'
  BY <1>1, <1>2, <1>9 DEF ResolveInv, RecordsTask
<1>17. AwaitedOK'
  <2> SUFFICES ASSUME NEW d \in Clients, pc'[d] = "waiting"
               PROVE  AwaitAt(d)'
    BY DEF AwaitedOK
  <2>1. CASE d = c
    BY <1>2, <1>4, <1>9, <2>1 DEF AwaitAt, k, begins
  <2>2. CASE d # c
    BY <1>2, <1>8, <1>9, <2>2 DEF ResolveInv, AwaitedOK, AwaitAt
  <2> QED
    BY <2>1, <2>2
<1>18. ValuesRight'
  BY <1>1, <1>2, <1>8 DEF ResolveInv, ValuesRight, ReturnsValue, LockedResultReady
<1>19. SubsInTime'
  <2> SUFFICES ASSUME NEW p \in Clients, NEW s \in Subs(p),
                      pc'[s] \notin {"idle", "done", "failed"}
               PROVE  tstate'[Current(p)] = "computing"
    BY <1>8 DEF SubsInTime
  <2>1. s \in Clients /\ pc[s] \notin {"idle", "done", "failed"}
    BY <1>1, <1>8, RootFacts
  <2>2. tstate[Current(p)] = "computing" /\ Current(p) \in Tasks
    BY <1>2, <2>1, TaskFacts DEF ResolveInv, SubsInTime
  <2> QED
    BY <1>9, <2>2
<1> QED
  BY <1>2, <1>10, <1>11, <1>12, <1>13, <1>14, <1>15, <1>16, <1>17, <1>18, <1>19 DEF ResolveInv

\* A frame leaves its run: its own task is not in use, and nobody will run it.
LEMMA LeaveKeeps ==
    ASSUME ResolveInv, NEW c \in Clients, release_ptr(c), pc[c] \in Holding,
           NEW q \in {"done", "delay", "failed"}, pc' = [pc EXCEPT ![c] = q],
           awaited' \in {awaited, [awaited EXCEPT ![c] = NoTask]},
           UNCHANGED <<run, attempt, rec_task, tstate, stored>>,
           result' \in [Clients -> Digests \cup {NoDigest}],
           \A d \in Clients : d # c => result'[d] = result[d],
           tstate[Current(c)] \in Usable =>
              tstate[Current(c)] = "created" /\ Alone(c) /\ c \in Roots /\ q = "failed",
           q = "done" => result'[c] = ValueOf[KeyOf[c]] /\ state[KeyOf[c]] = "READY",
           q # "done" => KeyOf[c] \notin CannotFail,
           q = "delay" => attempt[c] + 1 < MaxAttempts
    PROVE  ResolveInv'
<1>1. /\ ResolveTypeOK /\ IInv /\ TypeOK /\ KeyOf[c] \in Keys /\ ptr[c] = KeyOf[c]
  BY FramesAssumption DEF ResolveInv, IInv, FramesOK, FrameAt
<1>2. IInv' /\ CacheKept
  BY <1>1, LettingGoKeeps
<1>3. /\ ptr' = [ptr EXCEPT ![c] = NoKey] /\ lock' = lock
  BY DEF release_ptr
<1>4. /\ \A d \in Clients : d # c => pc'[d] = pc[d] /\ ptr'[d] = ptr[d] /\ awaited'[d] = awaited[d]
      /\ pc'[c] = q /\ ptr'[c] = NoKey
      /\ \A d \in Clients : Current(d)' = Current(d)
  BY <1>1, <1>3 DEF ResolveTypeOK, TypeOK, Current
<1>5. \A d \in Clients : ptr'[d] = KeyOf[d] \/ lock'[d] = KeyOf[d] =>
         state'[KeyOf[d]] = state[KeyOf[d]]
  <2> TAKE d \in Clients
  <2>1. KeyOf[d] \in Keys
    BY FramesAssumption
  <2> QED
    BY <1>2, <2>1, KeptFacts
<1>6. ResolveTypeOK'
  BY <1>1, <1>4 DEF ResolveTypeOK, FrameStates
<1>7. FramesOK' /\ RetriesCounted'
  <2>1. \A d \in Clients : d # c => FrameAt(d)'
    BY <1>3, <1>4 DEF ResolveInv, FramesOK, FrameAt, LocksOnce
  <2>2. q = "delay" => ~LocksOnce(c)
    <3>1. attempt[c] \in 0 .. MaxAttempts - 1 /\ MaxAttempts \in Nat
      BY <1>1, FramesAssumption DEF ResolveTypeOK
    <3> QED
      BY <3>1 DEF LocksOnce
  <2>3. FrameAt(c)'
    BY <1>3, <1>4, <2>2 DEF ResolveInv, FramesOK, FrameAt, LocksOnce, Holding
  <2>4. RetriesCounted'
    BY <1>4 DEF ResolveInv, RetriesCounted
  <2> QED
    BY <2>1, <2>3, <2>4 DEF FramesOK
<1>8. NothingFails'
  BY <1>4 DEF ResolveInv, NothingFails
<1>9. TasksOwned'
  <2> SUFFICES ASSUME NEW u \in Tasks
               PROVE  OwnedAt(u)'
    BY DEF TasksOwned
  <2>1. OwnedAt(u) /\ u[1] \in Clients /\ (run[u[1]] = u[2] => u = Current(u[1]))
    BY <1>1, TaskFacts DEF ResolveInv, TasksOwned
  <2>2. CASE u[1] # c
    BY <1>4, <2>1, <2>2 DEF OwnedAt, Alone
  <2>3. CASE u[1] = c
    <3>1. tstate[u] \in Usable => u = Current(c) /\ tstate[u] = "created"
      BY <2>1, <2>3 DEF OwnedAt, Usable, Holding
    <3> QED
      BY <1>4, <2>1, <2>3, <3>1 DEF OwnedAt, Usable, Alone, Using, Active
  <2> QED
    BY <2>2, <2>3
<1>10. AloneUnused'
  BY <1>4 DEF ResolveInv, AloneUnused, Alone
<1>11. TasksRecorded' /\ AwaitedOK'
  <2>1. \A d \in Clients : pc'[d] \in Holding => /\ d # c /\ ptr'[d] = KeyOf[d]
                                                 /\ pc[d] = pc'[d]
                                                 /\ state'[KeyOf[d]] = state[KeyOf[d]]
    BY <1>4, <1>5 DEF ResolveInv, FramesOK, FrameAt, Holding
  <2>2. TasksRecorded'
    BY <1>4, <2>1 DEF ResolveInv, TasksRecorded, RecordAt
  <2>3. AwaitedOK'
    BY <1>4, <2>1 DEF ResolveInv, AwaitedOK, AwaitAt, Holding
  <2> QED
    BY <2>2, <2>3
<1>12. RecordsTask'
  BY <1>2 DEF ResolveInv, RecordsTask, CacheKept
<1>13. ValuesRight'
  <2>1. \A k \in Keys : cas_record'[k] \in {NoDigest, ValueOf[k]}
    BY <1>2 DEF ResolveInv, ValuesRight, CacheKept
  <2>2. ReturnsValue'
    BY <1>4 DEF ResolveInv, ValuesRight, ReturnsValue
  <2>3. LockedResultReady'
    <3> SUFFICES ASSUME NEW d \in Clients, pc'[d] = "done", lock'[d] # NoKey
                 PROVE  lock'[d] = KeyOf[d] /\ state'[KeyOf[d]] = "READY"
      BY DEF LockedResultReady
    <3>1. lock'[d] = KeyOf[d]
      BY <1>3 DEF ResolveInv, FramesOK, FrameAt
    <3>2. state[KeyOf[d]] = "READY"
      BY <1>3, <1>4 DEF ResolveInv, ValuesRight, LockedResultReady
    <3> QED
      BY <1>5, <3>1, <3>2
  <2> QED
    BY <2>1, <2>2, <2>3 DEF ValuesRight
<1>14. SubsInTime'
  <2> SUFFICES ASSUME NEW p \in Clients, NEW s \in Subs(p),
                      pc'[s] \notin {"idle", "done", "failed"}
               PROVE  tstate[Current(p)] = "computing"
    BY <1>4 DEF SubsInTime
  <2>1. s \in Clients /\ pc[s] \notin {"idle", "done", "failed"}
    BY <1>4, RootFacts DEF Holding
  <2> QED
    BY <2>1 DEF ResolveInv, SubsInTime
<1> QED
  BY <1>2, <1>6, <1>7, <1>8, <1>9, <1>10, <1>11, <1>12, <1>13, <1>14 DEF ResolveInv

\* The awaited task has ended, so the frame's own is not in use.
LEMMA EndedFacts ==
    ASSUME ResolveInv, NEW c \in Clients, pc[c] = "waiting", tstate[awaited[c]] \in Ended
    PROVE  tstate[Current(c)] \notin Usable
<1>1. RecordAt(c)
  BY DEF ResolveInv, TasksRecorded, Holding
<1> QED
  BY <1>1 DEF RecordAt, Usable, Using, Active, Ended

\* A frame returns the value, or throws.
LEMMA GetValueKeeps ==
    ASSUME ResolveInv, NEW c \in Clients, get_value(c)
    PROVE  ResolveInv'
<1>1. /\ pc[c] = "waiting" /\ tstate[awaited[c]] = "succeeded" /\ release_ptr(c)
      /\ result' = [result EXCEPT ![c] = cas_record[KeyOf[c]]]
      /\ awaited' = [awaited EXCEPT ![c] = NoTask] /\ pc' = [pc EXCEPT ![c] = "done"]
      /\ UNCHANGED <<run, attempt, rec_task, tstate, stored>>
  BY DEF get_value
<1>2. KeyOf[c] \in Keys /\ ResolveTypeOK /\ ReadyHasValue /\ TypeOK
  BY FramesAssumption DEF ResolveInv, IInv
<1>3. state[KeyOf[c]] = "READY"
  BY <1>1 DEF ResolveInv, AwaitedOK, AwaitAt
<1>4. cas_record[KeyOf[c]] = ValueOf[KeyOf[c]]
  BY <1>2, <1>3 DEF ResolveInv, ValuesRight, ReadyHasValue
<1>5. /\ result' \in [Clients -> Digests \cup {NoDigest}]
      /\ result'[c] = ValueOf[KeyOf[c]] /\ \A d \in Clients : d # c => result'[d] = result[d]
  BY <1>1, <1>2, <1>4 DEF ResolveTypeOK, TypeOK
<1>6. tstate[Current(c)] \notin Usable
  BY <1>1, EndedFacts DEF Ended
<1>7. pc[c] \in Holding
  BY <1>1 DEF Holding
<1> QED
  BY <1>1, <1>3, <1>5, <1>6, <1>7, LeaveKeeps

\* A task failed: the frame lets its record go and is retried or fails.
LEMMA RethrowKeeps ==
    ASSUME ResolveInv, NEW c \in Clients, rethrow(c)
    PROVE  ResolveInv'
<1>1. PICK q \in {"delay", "failed"} :
         /\ pc[c] = "waiting" /\ tstate[awaited[c]] = "failed" /\ release_ptr(c)
         /\ awaited' = [awaited EXCEPT ![c] = NoTask] /\ pc' = [pc EXCEPT ![c] = q]
         /\ q = "delay" => attempt[c] + 1 < MaxAttempts
         /\ UNCHANGED <<run, attempt, rec_task, tstate, result, stored>>
  BY DEF rethrow, RetriesLeft
<1>2. KeyOf[c] \notin CannotFail
  BY <1>1 DEF ResolveInv, AwaitedOK, AwaitAt, NothingFails
<1>3. /\ result' \in [Clients -> Digests \cup {NoDigest}]
  BY <1>1 DEF ResolveInv, ResolveTypeOK
<1>4. tstate[Current(c)] \notin Usable
  BY <1>1, EndedFacts DEF Ended
<1>5. pc[c] \in Holding
  BY <1>1 DEF Holding
<1> QED
  BY <1>1, <1>2, <1>3, <1>4, <1>5, LeaveKeeps

\* The lock of a retried frame is set already: it throws, leaving a task that nobody will run.
LEMMA ThrowKeeps ==
    ASSUME ResolveInv, RetriedAlone, NEW c \in Clients, throw_logic_error(c)
    PROVE  ResolveInv'
<1>1. /\ pc[c] = "throwing" /\ release_ptr(c) /\ pc' = [pc EXCEPT ![c] = "failed"]
      /\ UNCHANGED <<run, attempt, rec_task, tstate, awaited, result, stored>>
  BY DEF throw_logic_error
<1>2. c \in WantsLock /\ ~LocksOnce(c)
  BY <1>1 DEF ResolveInv, FramesOK, FrameAt
<1>3. Alone(c) /\ c \in Roots /\ KeyOf[c] \notin CannotFail
  BY <1>2, FramesAssumption DEF RetriedAlone, LocksOnce, Alone
<1>4. tstate[Current(c)] \notin Using
  BY <1>1, <1>3 DEF ResolveInv, AloneUnused
<1>5. pc[c] \in Holding /\ result' \in [Clients -> Digests \cup {NoDigest}]
  BY <1>1 DEF Holding, ResolveInv, ResolveTypeOK
<1> QED
  BY <1>1, <1>3, <1>4, <1>5, LeaveKeeps DEF Usable

\* The cache is cleared, or a lock is let go of, while no frame moves.
LEMMA LockGoneKeeps ==
    ASSUME ResolveInv, UNCHANGED resolve_vars, IInv', CacheKept, UNCHANGED ptr,
           \A d \in Clients : lock'[d] \in {lock[d], NoKey}
    PROVE  ResolveInv'
<1>1. UNCHANGED <<pc, run, attempt, rec_task, tstate, awaited, result, stored>>
  BY DEF resolve_vars
<1>2. \A d \in Clients : Current(d)' = Current(d)
  BY <1>1 DEF Current
<1>3. \A d \in Clients : ptr'[d] = KeyOf[d] \/ lock'[d] = KeyOf[d] =>
         state'[KeyOf[d]] = state[KeyOf[d]]
  <2> TAKE d \in Clients
  <2>1. KeyOf[d] \in Keys
    BY FramesAssumption
  <2> QED
    BY <2>1, KeptFacts
<1>4. ResolveTypeOK' /\ RetriesCounted' /\ NothingFails' /\ SubsInTime'
  BY <1>1, <1>2 DEF ResolveInv, ResolveTypeOK, RetriesCounted, NothingFails, SubsInTime
<1>5. FramesOK'
  BY <1>1 DEF ResolveInv, FramesOK, FrameAt, LocksOnce
<1>6. TasksOwned' /\ AloneUnused'
  BY <1>1, <1>2 DEF ResolveInv, TasksOwned, OwnedAt, AloneUnused, Alone
<1>7. TasksRecorded' /\ AwaitedOK'
  <2>1. \A d \in Clients : pc[d] \in Holding => state'[KeyOf[d]] = state[KeyOf[d]]
    BY <1>3 DEF ResolveInv, FramesOK, FrameAt
  <2> QED
    BY <1>1, <1>2, <2>1 DEF ResolveInv, TasksRecorded, RecordAt, AwaitedOK, AwaitAt, Holding
<1>8. RecordsTask'
  BY <1>1 DEF ResolveInv, RecordsTask, CacheKept
<1>9. ValuesRight'
  <2>1. ReturnsValue' /\ \A k \in Keys : cas_record'[k] \in {NoDigest, ValueOf[k]}
    BY <1>1 DEF ResolveInv, ValuesRight, ReturnsValue, CacheKept
  <2>2. LockedResultReady'
    BY <1>1, <1>3 DEF ResolveInv, ValuesRight, LockedResultReady
  <2> QED
    BY <2>1, <2>2 DEF ValuesRight
<1> QED
  BY <1>4, <1>5, <1>6, <1>7, <1>8, <1>9 DEF ResolveInv

\* A lock is destroyed.
LEMMA DestroyLockKeeps ==
    ASSUME ResolveInv, NEW c \in Clients, destroy_lock(c)
    PROVE  ResolveInv'
<1>1. unlock_record(c) /\ UNCHANGED resolve_vars /\ IInv /\ TypeOK
  BY DEF destroy_lock, ResolveInv, IInv
<1>2. UNCHANGED ptr /\ \A d \in Clients : lock'[d] \in {lock[d], NoKey}
  BY <1>1 DEF unlock_record, TypeOK
<1> QED
  BY <1>1, <1>2, LettingGoKeeps, LockGoneKeeps

\* Unused entries are cleared.
LEMMA ClearKeeps ==
    ASSUME ResolveInv, clear_cache
    PROVE  ResolveInv'
<1>1. clear_unused_entries /\ UNCHANGED resolve_vars /\ IInv /\ UNCHANGED <<ptr, lock>>
  BY DEF clear_cache, ResolveInv, clear_unused_entries, client_vars
<1>2. IInv' /\ CacheKept
  <2>1. IInv'
    BY <1>1, ClearInv
  <2>2. records' \subseteq records /\ records' \subseteq Keys
    BY <1>1, <2>1 DEF clear_unused_entries, reduce_memory_cache_size_impl, IInv, TypeOK
  <2>3. \A k \in records' : state'[k] = state[k] /\ cas_record'[k] = cas_record[k]
    BY <1>1, <2>2, ReduceKeeps DEF clear_unused_entries
  <2>4. \A k \in Keys : cas_record'[k] \in {NoDigest, cas_record[k]}
    BY <1>1 DEF clear_unused_entries, reduce_memory_cache_size_impl
  <2> QED
    BY <2>1, <2>2, <2>3, <2>4 DEF CacheKept
<1> QED
  BY <1>1, <1>2, LockGoneKeeps

-----------------------------------------------------------------------------
(* The steps of a task.                                                    *)

\* How a task goes on.
Goes(a, b) ==
    \/ a = "reading" /\ b \in {"recording", "computing"}
    \/ a = "computing" /\ b \in {"recording", "failing"}
    \/ a = "recording" /\ b = "recorded"
    \/ a = "recorded" /\ b = "succeeded"
    \/ a = "failing" /\ b = "failed"

\* A step of a task, with what it records.
LEMMA TaskStepKeeps ==
    ASSUME ResolveInv, NEW t \in Tasks, NEW b, Goes(tstate[t], b),
           tstate' = [tstate EXCEPT ![t] = b], stored' \subseteq FullyCached, IInv',
           UNCHANGED <<pc, run, attempt, rec_task, awaited, result>>,
           UNCHANGED <<records, ptr, lock>>,
           tstate[t] = "computing" => ArgsEnded(t[1]),
           b = "failing" => KeyOf[t[1]] \notin CannotFail,
           \A k \in Keys : k # KeyOf[t[1]] \/ b \notin {"recorded", "failing"} =>
              state'[k] = state[k],
           b = "recorded" => state'[KeyOf[t[1]]] = "READY",
           \A k \in Keys : cas_record'[k] \in {NoDigest, ValueOf[k]}
    PROVE  ResolveInv'
<1>1. /\ ResolveTypeOK /\ t[1] \in Clients /\ KeyOf[t[1]] \in Keys
      /\ t = <<t[1], t[2]>>
  BY TaskFacts, FramesAssumption DEF ResolveInv
<1>2. /\ \A u \in Tasks : u # t => tstate'[u] = tstate[u]
      /\ tstate'[t] = b
      /\ \A d \in Clients : Current(d)' = Current(d) /\ Current(d) \in Tasks /\ Current(d)[1] = d
  BY <1>1, TaskFacts DEF ResolveTypeOK, Current
<1>3. tstate[t] \in Using => /\ t = Current(t[1]) /\ pc[t[1]] \in Holding
                             /\ rec_task[KeyOf[t[1]]] = t
                             /\ state[KeyOf[t[1]]] = IF tstate[t] = "recorded" THEN "READY"
                                                                              ELSE "LOADING"
  BY UsingFacts
<1>4. b \in Using \cup {"failing", "succeeded", "failed"} /\ b \notin {"none", "created"}
      /\ (b \in Using => tstate[t] \in Using) /\ tstate[t] \in Using \cup {"failing"}
      /\ (b \in {"recorded", "failing"} => tstate[t] \in {"recording", "computing"})
      /\ (b = "recorded" => tstate[t] = "recording")
  BY DEF Goes, Using, Active
<1>5. ResolveTypeOK'
  BY <1>1, <1>4 DEF ResolveTypeOK, TaskStates, Using, Active
<1>6. FramesOK' /\ RetriesCounted'
  BY DEF ResolveInv, FramesOK, FrameAt, LocksOnce, RetriesCounted
<1>7. NothingFails'
  <2>1. KeyOf[t[1]] \in CannotFail => b \notin {"failing", "failed"}
    BY DEF ResolveInv, NothingFails, Goes
  <2> QED
    BY <1>2, <2>1 DEF ResolveInv, NothingFails
<1>8. TasksOwned'
  <2> SUFFICES ASSUME NEW u \in Tasks
               PROVE  OwnedAt(u)'
    BY DEF TasksOwned
  <2>1. OwnedAt(u)
    BY DEF ResolveInv, TasksOwned
  <2>2. CASE u # t
    BY <1>2, <2>1, <2>2 DEF OwnedAt, Alone
  <2>3. CASE u = t
    BY <1>2, <1>4, <2>1, <2>3 DEF OwnedAt, Using, Active
  <2> QED
    BY <2>2, <2>3
<1>9. AloneUnused'
  <2> SUFFICES ASSUME NEW d \in Clients, Alone(d), pc[d] \in {"locking", "ensure", "throwing"}
               PROVE  tstate'[Current(d)] \notin Using
    BY <1>2 DEF AloneUnused, Alone
  <2>1. tstate[Current(d)] \notin Using
    BY DEF ResolveInv, AloneUnused
  <2> QED
    BY <1>2, <1>4, <2>1
<1>10. TasksRecorded'
  <2> SUFFICES ASSUME NEW d \in Clients, pc[d] \in Holding, tstate'[Current(d)] \in Usable
               PROVE  RecordAt(d)'
    BY <1>2 DEF TasksRecorded, RecordAt
  <2>1. RecordAt(d) /\ KeyOf[d] \in Keys
    BY FramesAssumption DEF ResolveInv, TasksRecorded
  <2>2. tstate[Current(d)] \in Usable
    BY <1>2, <1>4 DEF Usable, Using, Active
  <2>3. CASE Current(d) = t
    <3>1. d = t[1]
      BY <1>2, <2>3
    <3>2. b # "failing"
      BY <1>2, <2>3 DEF Usable, Using, Active
    <3>3. b = "recorded" \/ (state'[KeyOf[d]] = state[KeyOf[d]] /\ tstate[t] # "recorded")
      BY <1>2, <2>1, <2>3, <3>1, <3>2 DEF Goes, Usable, Using, Active
    <3> QED
      BY <1>2, <2>1, <2>2, <2>3, <3>1, <3>3 DEF RecordAt
  <2>4. CASE Current(d) # t
    <3>1. KeyOf[d] = KeyOf[t[1]] => tstate[t] \notin Using
      BY <1>3, <2>1, <2>2, <2>4 DEF RecordAt
    <3>2. state'[KeyOf[d]] = state[KeyOf[d]]
      BY <1>4, <2>1, <3>1 DEF Using, Active
    <3> QED
      BY <1>2, <2>1, <2>2, <2>4, <3>2 DEF RecordAt
  <2> QED
    BY <2>3, <2>4
\* A READY record stays READY.
<1>11. \A k \in Keys : state[k] = "READY" => state'[k] = "READY"
  <2> SUFFICES ASSUME NEW k \in Keys, state[k] = "READY", k = KeyOf[t[1]], b = "failing"
               PROVE  FALSE
    BY <1>1
  <2> QED
    BY <1>3, <1>4 DEF Using, Active
<1>12. RecordsTask'
  <2> SUFFICES ASSUME NEW k \in records
               PROVE  /\ rec_task[k] \in Tasks
                      /\ KeyOf[rec_task[k][1]] = k
                      /\ tstate'[rec_task[k]] # "none"
                      /\ tstate'[rec_task[k]] \in {"recorded", "succeeded"} =>
                            state'[k] = "READY"
    BY DEF RecordsTask
  <2>1. /\ rec_task[k] \in Tasks /\ KeyOf[rec_task[k][1]] = k /\ tstate[rec_task[k]] # "none"
        /\ tstate[rec_task[k]] \in {"recorded", "succeeded"} => state[k] = "READY"
        /\ k \in Keys
    BY DEF ResolveInv, RecordsTask, IInv, TypeOK
  <2>2. CASE rec_task[k] = t
    BY <1>2, <1>4, <1>11, <2>1, <2>2 DEF Goes
  <2>3. CASE rec_task[k] # t
    BY <1>2, <1>11, <2>1, <2>3
  <2> QED
    BY <2>2, <2>3
<1>13. AwaitedOK'
  <2> SUFFICES ASSUME NEW d \in Clients, pc[d] = "waiting"
               PROVE  AwaitAt(d)'
    BY DEF AwaitedOK
  <2>1. AwaitAt(d) /\ KeyOf[d] \in Keys
    BY FramesAssumption DEF ResolveInv, AwaitedOK
  <2>2. CASE awaited[d] = t
    BY <1>2, <1>4, <1>11, <2>1, <2>2 DEF Goes, AwaitAt
  <2>3. CASE awaited[d] # t
    BY <1>2, <1>11, <2>1, <2>3 DEF AwaitAt
  <2> QED
    BY <2>2, <2>3
<1>14. ValuesRight'
  <2>1. LockedResultReady'
    BY <1>11, FramesAssumption DEF ResolveInv, ValuesRight, LockedResultReady
  <2> QED
    BY <2>1 DEF ResolveInv, ValuesRight, ReturnsValue
<1>15. SubsInTime'
  <2> SUFFICES ASSUME NEW p \in Clients, NEW s \in Subs(p),
                      pc[s] \notin {"idle", "done", "failed"}
               PROVE  tstate'[Current(p)] = "computing"
    BY <1>2 DEF SubsInTime
  <2>1. tstate[Current(p)] = "computing"
    BY DEF ResolveInv, SubsInTime
  <2>2. Current(p) # t
    BY <1>2, <2>1 DEF ArgsEnded
  <2> QED
    BY <1>2, <2>1, <2>2
<1> QED
  BY <1>5, <1>6, <1>7, <1>8, <1>9, <1>10, <1>12, <1>13, <1>14, <1>15 DEF ResolveInv

\* Steps that leave the cache alone.
LEMMA PlainTaskStepKeeps ==
    ASSUME ResolveInv, NEW t \in Tasks, NEW b, Goes(tstate[t], b),
           b \notin {"recorded", "failing"},
           tstate' = [tstate EXCEPT ![t] = b], stored' \subseteq FullyCached, UNCHANGED vars,
           UNCHANGED <<pc, run, attempt, rec_task, awaited, result>>,
           tstate[t] = "computing" => ArgsEnded(t[1])
    PROVE  ResolveInv'
<1>1. IInv' /\ UNCHANGED <<records, state, cas_record, ptr, lock>>
  BY CacheStutter DEF ResolveInv, vars, ac_vars, client_vars
<1>2. \A k \in Keys : cas_record'[k] \in {NoDigest, ValueOf[k]}
  BY <1>1 DEF ResolveInv, ValuesRight
<1> QED
  BY <1>1, <1>2, TaskStepKeeps

\* A task makes a step.
LEMMA TaskKeeps ==
    ASSUME ResolveInv, NEW t \in Tasks, TaskStep(t)
    PROVE  ResolveInv'
<1>0. /\ ResolveTypeOK /\ IInv /\ TypeOK /\ t[1] \in Clients /\ KeyOf[t[1]] \in Keys
      /\ ValueOf[KeyOf[t[1]]] \in Digests
  BY TaskFacts, FramesAssumption DEF ResolveInv, IInv
<1>1. CASE secondary_read(t)
  <2>1. PICK b \in {"recording", "computing"} : tstate' = [tstate EXCEPT ![t] = b]
    BY <1>1 DEF secondary_read
  <2>2. stored' \subseteq FullyCached
    BY <1>0, <1>1 DEF secondary_read, ResolveTypeOK
  <2>3. Goes(tstate[t], b) /\ tstate[t] # "computing"
    BY <1>1 DEF secondary_read, Goes
  <2> QED
    BY <1>1, <2>1, <2>2, <2>3, PlainTaskStepKeeps DEF secondary_read
<1>2. CASE compute_value(t)
  <2>1. stored' \subseteq FullyCached
    BY <1>0, <1>2 DEF compute_value, ResolveTypeOK
  <2>2. Goes(tstate[t], "recording")
    BY <1>2 DEF compute_value, Goes
  <2> QED
    BY <1>2, <2>1, <2>2, PlainTaskStepKeeps DEF compute_value
<1>3. CASE record_value(t)
  <2>1. /\ tstate[t] = "recording" /\ tstate' = [tstate EXCEPT ![t] = "recorded"]
        /\ record_value_untyped(t[1], ValueOf[KeyOf[t[1]]])
        /\ UNCHANGED <<pc, run, attempt, rec_task, awaited, result, stored>>
    BY <1>3 DEF record_value
  <2>2. IInv'
    BY <1>0, <2>1, ValueInv
  <2>3. ptr[t[1]] = KeyOf[t[1]]
    BY <2>1, UsingFacts DEF Using, Active
  <2>4. /\ UNCHANGED <<records, ptr, lock>> /\ state' = [state EXCEPT ![KeyOf[t[1]]] = "READY"]
        /\ cas_record' = [cas_record EXCEPT ![KeyOf[t[1]]] = ValueOf[KeyOf[t[1]]]]
    BY <2>1, <2>3 DEF record_value_untyped, client_vars
  <2>5. /\ \A k \in Keys : k # KeyOf[t[1]] => state'[k] = state[k]
        /\ state'[KeyOf[t[1]]] = "READY"
    BY <1>0, <2>4 DEF TypeOK
  <2>6. \A k \in Keys : cas_record'[k] \in {NoDigest, ValueOf[k]}
    BY <1>0, <2>4 DEF TypeOK, ResolveInv, ValuesRight
  <2>7. stored' \subseteq FullyCached
    BY <1>0, <2>1 DEF ResolveTypeOK
  <2>8. Goes(tstate[t], "recorded")
    BY <2>1 DEF Goes
  <2> QED
    BY <2>1, <2>2, <2>4, <2>5, <2>6, <2>7, <2>8, TaskStepKeeps
<1>4. CASE fail(t)
  <2>1. /\ tstate[t] = "computing" /\ tstate' = [tstate EXCEPT ![t] = "failing"]
        /\ ArgsEnded(t[1]) /\ (KeyOf[t[1]] \in CanFail \/ ArgsFailed(t[1]))
        /\ record_failure(t[1])
        /\ UNCHANGED <<pc, run, attempt, rec_task, awaited, result, stored>>
    BY <1>4 DEF fail
  <2>2. IInv'
    BY <1>0, <2>1, FailureInv
  <2>3. ptr[t[1]] = KeyOf[t[1]]
    BY <2>1, UsingFacts DEF Using, Active
  <2>4. /\ UNCHANGED <<records, ptr, lock, cas_record>>
        /\ state' = [state EXCEPT ![KeyOf[t[1]]] = "FAILED"]
    BY <2>1, <2>3 DEF record_failure, client_vars
  <2>5. \A k \in Keys : k # KeyOf[t[1]] => state'[k] = state[k]
    BY <1>0, <2>4 DEF TypeOK
  <2>6. \A k \in Keys : cas_record'[k] \in {NoDigest, ValueOf[k]}
    BY <2>4 DEF ResolveInv, ValuesRight
  <2>7. stored' \subseteq FullyCached
    BY <1>0, <2>1 DEF ResolveTypeOK
  <2>8. Goes(tstate[t], "failing")
    BY <2>1 DEF Goes
  <2>9. KeyOf[t[1]] \notin CannotFail
    <3>1. ASSUME KeyOf[t[1]] \in CannotFail
          PROVE  FALSE
      <4>1. PICK s \in Subs(t[1]) : pc[s] = "failed" /\ KeyOf[s] \in CannotFail
        BY <1>0, <2>1, <3>1, CannotFailFacts DEF ArgsFailed
      <4>2. s \in Clients
        BY <1>0, RootFacts
      <4> QED
        BY <4>1, <4>2 DEF ResolveInv, NothingFails
    <3> QED
      BY <3>1
  <2> QED
    BY <2>1, <2>2, <2>4, <2>5, <2>6, <2>7, <2>8, <2>9, TaskStepKeeps
<1>5. CASE final_suspend(t)
  <2>1. PICK b \in {"succeeded", "failed"} :
           tstate' = [tstate EXCEPT ![t] = b] /\ Goes(tstate[t], b)
    BY <1>0, <1>5 DEF final_suspend, Goes, ResolveTypeOK
  <2>2. stored' \subseteq FullyCached /\ tstate[t] # "computing"
    BY <1>0, <1>5 DEF final_suspend, ResolveTypeOK
  <2> QED
    BY <1>5, <2>1, <2>2, PlainTaskStepKeeps DEF final_suspend
<1> QED
  BY <1>1, <1>2, <1>3, <1>4, <1>5 DEF TaskStep

-----------------------------------------------------------------------------
(* The theorems.                                                           *)

\* The invariant holds in every state of every behaviour.
LEMMA ResolveInvariant ==
    ASSUME RetriedAlone
    PROVE  ResolveSpec => []ResolveInv
<1>1. ResolveInit => ResolveInv
  <2> SUFFICES ASSUME ResolveInit
               PROVE  ResolveInv
    OBVIOUS
  <2>1. IInv
    BY InitInv DEF ResolveInit
  <2>2. ResolveTypeOK
    BY FramesAssumption DEF ResolveInit, ResolveTypeOK, FrameStates, TaskStates
  <2>3. \A t \in Tasks : tstate[t] = "none"
    BY DEF ResolveInit
  <2>4. \A c \in Clients : pc[c] = "idle" /\ ptr[c] = NoKey /\ lock[c] = NoKey
    BY DEF ResolveInit, Init
  <2>5. FramesOK /\ RetriesCounted /\ NothingFails
    BY <2>3, <2>4, NullAssumption
       DEF FramesOK, FrameAt, RetriesCounted, NothingFails, Holding
  <2>6. TasksOwned /\ AloneUnused /\ TasksRecorded
    <3>1. \A c \in Clients : Current(c) \in Tasks
      BY <2>2, TaskFacts
    <3> QED
      BY <2>3, <2>4, <3>1 DEF TasksOwned, OwnedAt, AloneUnused, TasksRecorded, RecordAt, Using,
         Active, Holding
  <2>7. RecordsTask /\ AwaitedOK
    BY <2>4 DEF ResolveInit, Init, RecordsTask, AwaitedOK
  <2>8. ValuesRight
    BY <2>4 DEF ResolveInit, Init, ValuesRight, ReturnsValue, LockedResultReady
  <2>9. SubsInTime
    BY <2>4, RootFacts DEF SubsInTime
  <2> QED
    BY <2>1, <2>2, <2>5, <2>6, <2>7, <2>8, <2>9 DEF ResolveInv
<1>2. ResolveInv /\ UNCHANGED all_vars => ResolveInv'
  <2> SUFFICES ASSUME ResolveInv, UNCHANGED all_vars
               PROVE  ResolveInv'
    OBVIOUS
  <2>1. IInv' /\ UNCHANGED <<records, state, cas_record, ptr, lock>> /\ UNCHANGED resolve_vars
    BY CacheStutter DEF ResolveInv, all_vars, vars, ac_vars, client_vars
  <2>2. CacheKept
    BY <2>1 DEF CacheKept
  <2> QED
    BY <2>1, <2>2, LockGoneKeeps
<1>3. ResolveInv /\ ResolveNext => ResolveInv'
  BY CreateKeeps, SetRecordKeeps, EnsureKeeps, GetValueKeeps, RethrowKeeps, ThrowKeeps,
     DestroyLockKeeps, TaskKeeps, ClearKeeps DEF ResolveNext, FrameStep
<1> QED
  BY <1>1, <1>2, <1>3, PTL DEF ResolveSpec

\* Frames of resolve_request_cached() share the tasks of cache records safely: whichever
\* frame runs a task, what the task refers to exists until it has recorded its outcome;
\* every resolution that succeeds returns its own request's value, whatever is evicted
\* or retried meanwhile; and a locked result is still there.
THEOREM SharingIsSafe ==
    ASSUME RetriedAlone
    PROVE  ResolveSpec => []SharedSafely
<1>1. ResolveInv => SharedSafely
  <2> SUFFICES ASSUME ResolveInv
               PROVE  SharedSafely
    OBVIOUS
  <2>1. OwnerOutlivesTask
    <3> SUFFICES ASSUME NEW t \in Tasks, tstate[t] \in Using
                 PROVE  ptr[t[1]] = KeyOf[t[1]] /\ run[t[1]] = t[2]
      BY DEF OwnerOutlivesTask, Using
    <3> QED
      BY UsingFacts DEF ResolveInv, TasksOwned, OwnedAt
  <2> QED
    BY <2>1 DEF ResolveInv, ValuesRight, SharedSafely
<1> QED
  BY <1>1, ResolveInvariant, PTL

\* However many frames and trees ask for a request, it is computed at most once at any
\* time: acquire_cache_record() makes a task only for a new or FAILED record.
THEOREM OneComputation ==
    ASSUME RetriedAlone
    PROVE  ResolveSpec => []ComputedOnce
<1>1. ResolveInv => ComputedOnce
  <2> SUFFICES ASSUME ResolveInv, NEW t \in Tasks, NEW u \in Tasks,
                      KeyOf[t[1]] = KeyOf[u[1]], tstate[t] \in Using, tstate[u] \in Using
               PROVE  t = u
    BY DEF ComputedOnce, Using
  <2> QED
    BY UsingFacts
<1> QED
  BY <1>1, ResolveInvariant, PTL

-----------------------------------------------------------------------------
(* Resolution as a client of the cache.                                    *)

\* A step of a frame or a task is one operation of the cache or none.
LEMMA ResolveStep ==
    ASSUME [ResolveNext]_all_vars
    PROVE  [Next]_vars
<1> USE DEF Next
<1>1. CASE UNCHANGED all_vars
  BY <1>1 DEF all_vars
<1>2. ASSUME NEW c \in Clients, FrameStep(c)
      PROVE  [Next]_vars
  <2>1. CASE create_ptr(c)
    <3>1. acquire_cache_record(c, KeyOf[c]) /\ KeyOf[c] \in Keys
      BY <2>1, FramesAssumption DEF create_ptr
    <3> QED
      BY <3>1
  <2>2. CASE set_record(c)
    <3>1. lock_record(c) \/ UNCHANGED vars
      BY <2>2 DEF set_record
    <3> QED
      BY <3>1
  <2>3. CASE ensure_value_task(c)
    BY <2>3 DEF ensure_value_task
  <2>4. CASE get_value(c) \/ rethrow(c) \/ throw_logic_error(c)
    <3>1. release_ptr(c)
      BY <2>4 DEF get_value, rethrow, throw_logic_error
    <3> QED
      BY <3>1
  <2> QED
    BY <1>2, <2>1, <2>2, <2>3, <2>4 DEF FrameStep
<1>3. ASSUME NEW c \in Clients, destroy_lock(c)
      PROVE  [Next]_vars
  <2>1. unlock_record(c)
    BY <1>3 DEF destroy_lock
  <2> QED
    BY <2>1
<1>4. ASSUME NEW t \in Tasks, TaskStep(t)
      PROVE  [Next]_vars
  <2>0. t[1] \in Clients /\ ValueOf[KeyOf[t[1]]] \in Digests
    BY FramesAssumption DEF Tasks
  <2>1. CASE secondary_read(t) \/ compute_value(t) \/ final_suspend(t)
    BY <2>1 DEF secondary_read, compute_value, final_suspend
  <2>2. CASE record_value(t)
    <3>1. record_value_untyped(t[1], ValueOf[KeyOf[t[1]]])
      BY <2>2 DEF record_value
    <3> QED
      BY <2>0, <3>1
  <2>3. CASE fail(t)
    <3>1. record_failure(t[1])
      BY <2>3 DEF fail
    <3> QED
      BY <2>0, <3>1
  <2> QED
    BY <1>4, <2>1, <2>2, <2>3 DEF TaskStep
<1>5. CASE clear_cache
  BY <1>5 DEF clear_cache
<1> QED
  BY <1>1, <1>2, <1>3, <1>4, <1>5 DEF ResolveNext

\* Resolution uses the cache only as the cache allows: every behaviour of frames and
\* tasks is one of the cache's specification, whatever is retried, locked or cleared.
THEOREM ResolutionUsesCache == ResolveSpec => Spec
<1>1. ResolveInit => Init
  BY DEF ResolveInit
<1> QED
  BY <1>1, ResolveStep, PTL DEF ResolveSpec, Spec

\* What is proved of the cache holds under resolution, without RetriedAlone: no ptr or
\* lock of a frame dangles, a READY record has its value, unused values stay within the
\* limit, and a value that a frame holds is not replaced.
THEOREM CacheServesResolution ==
    ResolveSpec => /\ [](NoDanglingRecord /\ ReadyHasValue /\ UnusedWithinLimit)
                   /\ HeldValueIsStable
<1>1. IInv => NoDanglingRecord /\ ReadyHasValue /\ UnusedWithinLimit
  BY DEF IInv
<1> QED
  BY <1>1, ResolutionUsesCache, Invariance, HeldValueStable, PTL

-----------------------------------------------------------------------------
(* Nobody waits for everybody.                                             *)

\* A task that can still record its outcome is the one its record captured.
TasksCaptured ==
    \A c \in Clients :
        pc[c] \in Holding /\ tstate[Current(c)] \in Usable => task[KeyOf[c]] = c

CapturedInv == ResolveInv /\ TasksCaptured

\* The record waits for the outcome that task t is to record.
Captured(t) ==
    LET k == ptr[t[1]] IN k # NoKey /\ task[k] = t[1] /\ state[k] = "LOADING"

\* The guards of FrameStep(c) and of TaskStep(t): some step of the frame, or of the task,
\* can be taken.
FrameReady(c) ==
    \/ MayBegin(c) /\ run[c] < MaxRuns /\ ptr[c] = NoKey
    \/ pc[c] = "locking" /\ (lock[c] = NoKey => ptr[c] # NoKey)
    \/ pc[c] = "ensure"
    \/ pc[c] = "waiting" /\ tstate[awaited[c]] \in Ended /\ ptr[c] # NoKey
    \/ pc[c] = "throwing" /\ ptr[c] # NoKey
TaskReady(t) ==
    \/ tstate[t] \in {"reading", "recorded", "failing"}
    \/ tstate[t] = "recording" /\ Captured(t)
    \/ tstate[t] = "computing" /\ ArgsEnded(t[1]) /\ (ArgsFailed(t[1]) => Captured(t))

\* Only the bound of the model keeps the frame from beginning.
Exhausted(c) == MayBegin(c) /\ run[c] = MaxRuns

\* Some frame or task, of a request that is no higher in the tree of requests than c's,
\* can take a step.  A root that has not begun does not count.
GoesOn(c, Rank) ==
    \/ \E d \in Clients :
          /\ Rank[KeyOf[d]] <= Rank[KeyOf[c]]
          /\ d \in Roots => pc[d] # "idle"
          /\ FrameReady(d) \/ Exhausted(d)
    \/ \E t \in Tasks : Rank[KeyOf[t[1]]] <= Rank[KeyOf[c]] /\ TaskReady(t)

NoDeadlock(Rank) == \A c \in Clients : pc[c] \in Holding => GoesOn(c, Rank)

\* The arguments of a request are requests of a lower rank: requests are finite trees.
Ranks(Rank) ==
    /\ Rank \in [Keys -> Nat]
    /\ \A c \in Clients : \A s \in Subs(c) : Rank[KeyOf[s]] < Rank[KeyOf[c]]

\* A frame that lets go of its ptr or lock, and clearing the cache, leave the captured
\* tasks of the other frames.
LEMMA LettingGoCaptures ==
    ASSUME CapturedInv, ResolveInv', NEW c \in Clients, UNCHANGED <<run, tstate>>,
           \A d \in Clients : d # c => pc'[d] = pc[d],
           \/ release_ptr(c) /\ pc'[c] \notin Holding
           \/ unlock_record(c) /\ UNCHANGED pc
           \/ clear_unused_entries /\ UNCHANGED pc
    PROVE  TasksCaptured'
<1> SUFFICES ASSUME NEW d \in Clients, pc'[d] \in Holding, tstate'[Current(d)'] \in Usable
             PROVE  task'[KeyOf[d]] = d
  BY DEF TasksCaptured
<1>1. pc[d] \in Holding /\ tstate[Current(d)] \in Usable
  BY DEF Current
<1>2. task[KeyOf[d]] = d /\ KeyOf[d] \in Keys
  BY <1>1, FramesAssumption DEF CapturedInv, TasksCaptured
<1>3. KeyOf[d] \in records'
  <2>1. ptr'[d] = KeyOf[d]
    BY DEF ResolveInv, FramesOK, FrameAt
  <2> QED
    BY <1>2, <2>1 DEF ResolveInv, IInv, NoDanglingRecord, Holders
<1>4. CASE release_ptr(c) /\ pc'[c] \notin Holding
  BY <1>2, <1>3, <1>4 DEF release_ptr
<1>5. CASE unlock_record(c) \/ clear_unused_entries
  BY <1>2, <1>3, <1>5 DEF unlock_record, clear_unused_entries
<1> QED
  BY <1>4, <1>5

\* The tasks that may record an outcome are captured in every state.
LEMMA CapturedInvariant ==
    ASSUME RetriedAlone
    PROVE  ResolveSpec => []CapturedInv
<1>1. ResolveInit => TasksCaptured
  BY DEF ResolveInit, TasksCaptured, Holding
<1>2. CapturedInv /\ ResolveInv' /\ [ResolveNext]_all_vars => TasksCaptured'
  <2> SUFFICES ASSUME CapturedInv, ResolveInv', [ResolveNext]_all_vars
               PROVE  TasksCaptured'
    OBVIOUS
  <2>0. ResolveInv /\ TasksCaptured /\ ResolveTypeOK /\ ResolveTypeOK' /\ TypeOK
    BY DEF CapturedInv, ResolveInv, IInv
  <2>1. CASE UNCHANGED all_vars
    BY <2>0, <2>1 DEF all_vars, vars, ac_vars, resolve_vars, TasksCaptured, Current
  <2>2. ASSUME NEW c \in Clients, create_ptr(c)
        PROVE  TasksCaptured'
    <3>1. /\ MayBegin(c) /\ run[c] < MaxRuns /\ acquire_cache_record(c, KeyOf[c])
          /\ run' = [run EXCEPT ![c] = @ + 1]
          /\ IF NeedsTask(KeyOf[c])
             THEN tstate' = [tstate EXCEPT ![<<c, run[c] + 1>>] = "created"]
             ELSE UNCHANGED tstate
          /\ \A d \in Clients : d # c => pc'[d] = pc[d]
      BY <2>0, <2>2 DEF create_ptr, ResolveTypeOK
    <3>2. KeyOf[c] \in Keys /\ run[c] \in Nat /\ run[c] + 1 \in 0 .. MaxRuns
      <4>1. run[c] \in 0 .. MaxRuns /\ run[c] < MaxRuns /\ MaxRuns \in Nat
        BY <2>0, <3>1, FramesAssumption DEF ResolveTypeOK
      <4>2. KeyOf[c] \in Keys
        BY FramesAssumption
      <4> QED
        BY <4>1, <4>2
    <3> SUFFICES ASSUME NEW d \in Clients, pc'[d] \in Holding,
                        tstate'[Current(d)'] \in Usable
                 PROVE  task'[KeyOf[d]] = d
      BY DEF TasksCaptured
    <3>3. CASE d = c
      <4>1. Current(c)' = <<c, run[c] + 1>> /\ <<c, run[c] + 1>> \in Tasks
        BY <2>0, <3>1, <3>2 DEF Current, Tasks, ResolveTypeOK
      <4>2. tstate[<<c, run[c] + 1>>] = "none"
        BY <2>0, <3>2, <4>1 DEF ResolveInv, TasksOwned, OwnedAt
      <4>3. NeedsTask(KeyOf[c])
        BY <3>1, <3>3, <4>1, <4>2 DEF Usable, Using, Active
      <4> QED
        BY <2>0, <3>1, <3>2, <3>3, <4>3 DEF acquire_cache_record, TypeOK
    <3>4. CASE d # c
      <4>1. /\ pc[d] \in Holding /\ Current(d)' = Current(d)
            /\ tstate[Current(d)] \in Usable
        <5>1. pc[d] \in Holding /\ Current(d)' = Current(d)
          BY <2>0, <3>1, <3>4 DEF Current, ResolveTypeOK
        <5>2. Current(d) \in Tasks /\ Current(d)[1] = d
          BY <2>0, TaskFacts
        <5>3. tstate'[Current(d)] = tstate[Current(d)]
          BY <2>0, <3>1, <3>4, <5>2 DEF ResolveTypeOK
        <5> QED
          BY <5>1, <5>3
      <4>2. task[KeyOf[d]] = d /\ KeyOf[d] \in Keys
        BY <2>0, <4>1, FramesAssumption DEF TasksCaptured
      <4>3. KeyOf[d] \in records /\ state[KeyOf[d]] # "FAILED"
        <5>1. ptr[d] = KeyOf[d] /\ RecordAt(d)
          BY <2>0, <4>1 DEF ResolveInv, FramesOK, FrameAt, TasksRecorded
        <5> QED
          BY <2>0, <4>1, <4>2, <5>1, HeldFacts DEF RecordAt, ResolveInv
      <4>4. KeyOf[d] = KeyOf[c] => ~NeedsTask(KeyOf[c])
        BY <4>3 DEF NeedsTask
      <4> QED
        BY <2>0, <3>1, <3>2, <4>2, <4>4 DEF acquire_cache_record, TypeOK
    <3> QED
      BY <3>3, <3>4
  <2>3. ASSUME NEW c \in Clients, set_record(c)
        PROVE  TasksCaptured'
    <3>1. UNCHANGED <<task, run, tstate>> /\ pc[c] \in Holding
      BY <2>3 DEF set_record, lock_record, vars, ac_vars, Holding
    <3>2. \A d \in Clients : d # c => pc'[d] = pc[d]
      BY <2>0, <2>3 DEF set_record, ResolveTypeOK
    <3> QED
      BY <2>0, <3>1, <3>2 DEF TasksCaptured, Current
  <2>4. ASSUME NEW c \in Clients, ensure_value_task(c)
        PROVE  TasksCaptured'
    <3>1. UNCHANGED <<task, run>> /\ pc[c] \in Holding
      BY <2>4 DEF ensure_value_task, vars, ac_vars, Holding
    <3>2. \A d \in Clients : d # c /\ pc'[d] \in Holding => pc[d] \in Holding
      BY <2>0, <2>4 DEF ensure_value_task, ResolveTypeOK, Holding
    <3>3. \A t \in Tasks : tstate'[t] \in Usable => tstate[t] \in Usable
      BY <2>0, <2>4 DEF ensure_value_task, ResolveTypeOK, Usable
    <3> QED
      BY <2>0, <3>1, <3>2, <3>3, TaskFacts DEF TasksCaptured, Current
  <2>5. ASSUME NEW c \in Clients, get_value(c) \/ rethrow(c) \/ throw_logic_error(c)
        PROVE  TasksCaptured'
    <3>1. UNCHANGED <<run, tstate>> /\ release_ptr(c)
      BY <2>5 DEF get_value, rethrow, throw_logic_error
    <3>2. pc'[c] \notin Holding /\ \A d \in Clients : d # c => pc'[d] = pc[d]
      BY <2>0, <2>5 DEF get_value, rethrow, throw_logic_error, ResolveTypeOK, Holding
    <3> QED
      BY <3>1, <3>2, LettingGoCaptures
  <2>6. ASSUME NEW c \in Clients, destroy_lock(c)
        PROVE  TasksCaptured'
    BY <2>6, LettingGoCaptures DEF destroy_lock, resolve_vars
  <2>7. ASSUME NEW t \in Tasks, TaskStep(t)
        PROVE  TasksCaptured'
    <3>1. UNCHANGED <<task, run, pc>>
      BY <2>7 DEF TaskStep, secondary_read, compute_value, record_value, fail, final_suspend,
         record_value_untyped, record_failure, vars, ac_vars
    <3>2. \A u \in Tasks : tstate'[u] \in Usable => tstate[u] \in Usable
      BY <2>0, <2>7 DEF TaskStep, secondary_read, compute_value, record_value, fail,
         final_suspend, ResolveTypeOK, Usable, Using, Active
    <3> QED
      BY <2>0, <3>1, <3>2, TaskFacts DEF TasksCaptured, Current
  <2>8. CASE clear_cache
    <3>1. CASE Clients = {}
      BY <3>1 DEF TasksCaptured
    <3>2. ASSUME NEW c \in Clients
          PROVE  TasksCaptured'
      BY <2>8, LettingGoCaptures DEF clear_cache, resolve_vars
    <3> QED
      BY <3>1, <3>2
  <2> QED
    BY <2>1, <2>2, <2>3, <2>4, <2>5, <2>6, <2>7, <2>8 DEF ResolveNext, FrameStep
<1> QED
  BY <1>1, <1>2, ResolveInvariant, PTL DEF ResolveSpec, CapturedInv
\* A frame that holds a ptr and does not wait for a task can take its next step.
LEMMA HoldingIsReady ==
    ASSUME ResolveInv, NEW c \in Clients, pc[c] \in Holding
    PROVE  /\ pc[c] # "waiting" => FrameReady(c)
           /\ pc[c] = "waiting" /\ tstate[awaited[c]] \in Ended => FrameReady(c)
<1>1. ptr[c] = KeyOf[c] /\ KeyOf[c] \in Keys
  BY FramesAssumption DEF ResolveInv, FramesOK, FrameAt
<1>2. ptr[c] # NoKey
  BY <1>1, NullAssumption
<1> QED
  BY <1>2 DEF Holding, FrameReady

\* A task that is computing or about to record is the one its record captured.
LEMMA WorkingIsCaptured ==
    ASSUME CapturedInv, NEW t \in Tasks, tstate[t] \in {"computing", "recording"}
    PROVE  Captured(t)
<1>1. tstate[t] \in Using /\ tstate[t] \in Usable /\ tstate[t] # "recorded"
  BY DEF Using, Usable, Active
<1>2. /\ t[1] \in Clients /\ t = Current(t[1]) /\ pc[t[1]] \in Holding
      /\ KeyOf[t[1]] \in Keys /\ ptr[t[1]] = KeyOf[t[1]] /\ state[KeyOf[t[1]]] = "LOADING"
  BY <1>1, UsingFacts DEF CapturedInv
<1>3. task[KeyOf[t[1]]] = t[1]
  BY <1>1, <1>2 DEF CapturedInv, TasksCaptured
<1> QED
  BY <1>2, <1>3, NullAssumption DEF Captured

\* A frame of an argument can begin while its parent's task computes, unless it has no
\* runs left.
LEMMA ArgumentBegins ==
    ASSUME ResolveInv, NEW t \in Tasks, tstate[t] = "computing", NEW s \in Subs(t[1]),
           pc[s] \in {"idle", "delay"}
    PROVE  FrameReady(s) \/ Exhausted(s)
<1>1. t[1] \in Clients /\ t = Current(t[1])
  BY UsingFacts DEF Using, Active
<1>2. s \in Clients /\ ParentOf[s] = t[1]
  BY DEF Subs
<1>3. MayBegin(s)
  BY <1>1, <1>2 DEF MayBegin
<1>4. ptr[s] = NoKey
  BY <1>2 DEF ResolveInv, FramesOK, FrameAt, Holding
<1>5. run[s] \in 0 .. MaxRuns /\ MaxRuns \in Nat
  BY <1>2, FramesAssumption DEF ResolveInv, ResolveTypeOK
<1>6. run[s] < MaxRuns \/ run[s] = MaxRuns
  BY <1>5
<1> QED
  BY <1>3, <1>4, <1>6 DEF FrameReady, Exhausted

\* Some natural number is the least of a nonempty set of them.
LEMMA LeastRank ==
    ASSUME NEW S \in SUBSET Nat, S # {}
    PROVE  \E n \in S : \A m \in S : n <= m
<1> DEFINE Less == {p \in Nat \X Nat : p[1] < p[2]}
<1>1. IsWellFoundedOn(Less, Nat)
  BY NatLessThanWellFounded, Zenon DEF OpToRel
<1> HIDE DEF Less
<1>2. PICK n \in S : \A m \in S : <<m, n>> \notin Less
  BY <1>1, WFMin
<1>3. ASSUME NEW m \in S PROVE n <= m
  <2>1. <<m, n>> \in Less <=> m < n
    BY DEF Less
  <2> QED
    BY <1>2, <2>1
<1> QED
  BY <1>3

\* Of the waiting frames below a given one, one of the least rank waits for a task that
\* has work to do or for a frame that is not waiting.
LEMMA SomeoneGoesOn ==
    ASSUME NEW Rank, Ranks(Rank), CapturedInv
    PROVE  NoDeadlock(Rank)
<1> SUFFICES ASSUME NEW c \in Clients, pc[c] \in Holding, ~GoesOn(c, Rank)
             PROVE  FALSE
  BY DEF NoDeadlock
<1>0. ResolveInv /\ ResolveTypeOK
  BY DEF CapturedInv, ResolveInv
<1>r. \A d \in Clients : KeyOf[d] \in Keys /\ Rank[KeyOf[d]] \in Nat
  BY FramesAssumption DEF Ranks
<1>1. \A d \in Clients :
         Rank[KeyOf[d]] <= Rank[KeyOf[c]] /\ (d \in Roots => pc[d] # "idle") =>
            ~FrameReady(d) /\ ~Exhausted(d)
  BY DEF GoesOn
<1>2. \A t \in Tasks : Rank[KeyOf[t[1]]] <= Rank[KeyOf[c]] => ~TaskReady(t)
  BY DEF GoesOn
<1>3. PICK W : W = {d \in Clients : pc[d] = "waiting" /\ Rank[KeyOf[d]] <= Rank[KeyOf[c]]}
  OBVIOUS
<1>4. c \in W
  BY <1>0, <1>1, <1>3, <1>r, HoldingIsReady DEF Holding
<1>5. PICK S : S = {Rank[KeyOf[d]] : d \in W}
  OBVIOUS
<1>6. S \in SUBSET Nat /\ S # {}
  BY <1>3, <1>4, <1>5, <1>r
<1>7. PICK n \in S : \A m \in S : n <= m
  BY <1>6, LeastRank
<1>8. PICK d \in W : Rank[KeyOf[d]] = n
  BY <1>5, <1>7
<1>9. d \in Clients /\ pc[d] = "waiting" /\ Rank[KeyOf[d]] <= Rank[KeyOf[c]]
  BY <1>3, <1>8
<1>10. PICK t : t = awaited[d]
  OBVIOUS
<1>11. /\ t \in Tasks /\ KeyOf[t[1]] = KeyOf[d] /\ t[1] \in Clients
       /\ tstate[t] \in TaskStates /\ tstate[t] \notin {"none", "created"}
  BY <1>0, <1>9, <1>10, TaskFacts DEF ResolveInv, AwaitedOK, AwaitAt, ResolveTypeOK
<1>12. tstate[t] \notin Ended
  BY <1>0, <1>1, <1>9, <1>10, HoldingIsReady DEF Holding
<1>13. tstate[t] \in {"computing", "recording"}
  BY <1>2, <1>9, <1>11, <1>12 DEF TaskReady, TaskStates, Ended
<1>14. Captured(t)
  BY <1>11, <1>13, WorkingIsCaptured
<1>15. tstate[t] = "computing" /\ ~ArgsEnded(t[1])
  BY <1>2, <1>9, <1>11, <1>13, <1>14 DEF TaskReady
<1>16. PICK s \in Subs(t[1]) : pc[s] \notin {"done", "failed"}
  BY <1>15 DEF ArgsEnded
<1>17. s \in Clients /\ s \notin Roots
  BY <1>11, RootFacts
<1>18. Rank[KeyOf[s]] < Rank[KeyOf[d]] /\ Rank[KeyOf[s]] <= Rank[KeyOf[c]]
  <2>1. Rank[KeyOf[s]] < Rank[KeyOf[t[1]]]
    BY <1>11 DEF Ranks
  <2> QED
    BY <1>9, <1>11, <1>17, <1>r, <2>1
<1>19. pc[s] \in {"idle", "delay"} \cup Holding
  BY <1>0, <1>16, <1>17 DEF ResolveTypeOK, FrameStates, Holding
<1>20. ~FrameReady(s) /\ ~Exhausted(s)
  BY <1>1, <1>17, <1>18
<1>21. pc[s] = "waiting"
  BY <1>0, <1>11, <1>15, <1>16, <1>17, <1>19, <1>20, HoldingIsReady, ArgumentBegins
<1>22. s \in W /\ Rank[KeyOf[s]] \in S
  BY <1>3, <1>5, <1>17, <1>18, <1>21
<1> QED
  BY <1>7, <1>8, <1>9, <1>17, <1>18, <1>22, <1>r

\* Frames that share tasks never wait for each other in a circle: as long as a frame is
\* in resolve_request_cached(), some frame or task at or below its request in the tree of
\* requests can take a step, however trees share requests, fail and are retried.
THEOREM ResolutionHasNoDeadlock ==
    ASSUME RetriedAlone, NEW Rank, Ranks(Rank)
    PROVE  ResolveSpec => []NoDeadlock(Rank)
<1>1. CapturedInv => NoDeadlock(Rank)
  BY SomeoneGoesOn
<1> QED
  BY <1>1, CapturedInvariant, PTL

-----------------------------------------------------------------------------
\* Dispatch: where resolve_request() goes

\* A context that a class may have: remotely() and is_async() tell what it
\* implements, and it has no root before it is prepared.
ContextFits(ctx) ==
    /\ ctx \in [intfs : SUBSET STRING, async : BOOLEAN, prepared : BOOLEAN, remotely : BOOLEAN,
                local : Nat, remote : Nat, roots : Seq(Nat)]
    /\ (IF ctx.remotely THEN "remote" ELSE "local") \in ctx.intfs
    /\ ctx.async <=> "async" \in ctx.intfs
    /\ ctx.local \in 0 .. Len(ctx.roots) /\ ctx.remote \in 0 .. Len(ctx.roots)
    /\ ~ctx.prepared => ctx.local = 0 /\ ctx.remote = 0
    /\ {"local", "remote"} \subseteq ctx.intfs \/ (ctx.remotely <=> "remote" \in ctx.intfs)

\* A static type by which a caller may know the context.
TypeFits(T, ctx) ==
    /\ T.final \in BOOLEAN /\ T.intfs \subseteq ctx.intfs
    /\ T.final => T.intfs = ctx.intfs

\* The way that the context asks for.
WantedWay(ctx) == IF ctx.remotely THEN "remote" ELSE "local"

\* One more tree in a root, if there is one more.
OneMore(builds) == IF builds THEN 1 ELSE 0

\* A try t of a resolution goes where the context says.  It throws instead if
\* the request is a proxy or the constraints ask for the other way, and then it
\* has left the context alone.
GoesWhereWanted(t, ctx, is_proxy, c) ==
    /\ t.way \in {WantedWay(ctx), "throws"}
    /\ t.way = "throws" =>
          /\ t.ctx = ctx
          /\ \/ is_proxy /\ ~ctx.remotely
             \/ c \cap {"remote", "local"} \notin {{}, {WantedWay(ctx)}}

\* It runs on the root that calls on the context are passed on to.
RunsOnItsRoot(t) == t.way # "throws" => t.root = get_async_root(t.ctx)

\* Only the first try builds a tree, in the root it runs on; for a context that
\* can be used again this is a new one.
BuildsOnce(t, ctx, retrying) ==
    /\ t.builds => ~retrying /\ t.way = "local"
    /\ \A k \in 1 .. Len(ctx.roots) :
          t.ctx.roots[k] = ctx.roots[k] + OneMore(t.builds /\ k = t.root)
    /\ t.builds /\ "local_owner" \in ctx.intfs =>
          t.root = Len(ctx.roots) + 1 /\ t.ctx.roots[t.root] = 1

\* The context stays one of its class.
KeepsContext(t, ctx) ==
    /\ ContextFits(t.ctx) /\ t.ctx.intfs = ctx.intfs
    /\ t.ctx.remotely = ctx.remotely /\ t.ctx.async = ctx.async

\* Contexts are made so, whatever their class implements.
LEMMA NewContextFits ==
    ASSUME NEW intfs \in SUBSET STRING, NEW proxied \in BOOLEAN, intfs \cap {"local", "remote"} # {}
    PROVE  ContextFits(NewContext(intfs, proxied))
<1> DEFINE ctx == NewContext(intfs, proxied)
<1>1. /\ ctx.intfs = intfs /\ ctx.async = ("async" \in intfs) /\ ctx.prepared = IsRoot(intfs)
      /\ ctx.remotely = IF {"local", "remote"} \subseteq intfs THEN proxied ELSE "remote" \in intfs
      /\ ctx.local = IF IsRoot(intfs) /\ "local" \in intfs THEN 1 ELSE 0
      /\ ctx.remote = IF IsRoot(intfs) /\ "remote" \in intfs THEN 1 ELSE 0
      /\ ctx.roots = IF IsRoot(intfs) THEN <<0>> ELSE <<>>
  BY DEF NewContext
<1>2. ctx.roots \in Seq(Nat) /\ Len(ctx.roots) = IF IsRoot(intfs) THEN 1 ELSE 0
  BY <1>1
<1>3. ctx \in [intfs : SUBSET STRING, async : BOOLEAN, prepared : BOOLEAN, remotely : BOOLEAN,
               local : Nat, remote : Nat, roots : Seq(Nat)]
  <2>1. ctx.async \in BOOLEAN /\ ctx.prepared \in BOOLEAN /\ ctx.remotely \in BOOLEAN
    <3>1. \A x : (x \in intfs) \in BOOLEAN
      OBVIOUS
    <3>2. IsRoot(intfs) \in BOOLEAN
      BY DEF IsRoot
    <3> QED
      BY <1>1, <3>1, <3>2, Zenon
  <2>2. ctx.local \in Nat /\ ctx.remote \in Nat
    BY <1>1
  <2>3. ctx = [intfs |-> intfs, async |-> ctx.async, prepared |-> ctx.prepared,
               remotely |-> ctx.remotely, local |-> ctx.local, remote |-> ctx.remote,
               roots |-> ctx.roots]
    BY DEF NewContext
  <2> QED
    BY <2>1, <2>2, <2>3, <1>2
<1> HIDE DEF ctx
<1>4. (IF ctx.remotely THEN "remote" ELSE "local") \in ctx.intfs
  BY <1>1
<1>5. ctx.local \in 0 .. Len(ctx.roots) /\ ctx.remote \in 0 .. Len(ctx.roots)
  BY <1>1, <1>2
<1>6. ~ctx.prepared => ctx.local = 0 /\ ctx.remote = 0
  BY <1>1
<1>7. {"local", "remote"} \subseteq ctx.intfs \/ (ctx.remotely <=> "remote" \in ctx.intfs)
  BY <1>1
<1> QED
  BY <1>1, <1>3, <1>4, <1>5, <1>6, <1>7 DEF ContextFits, ctx

\* A cast to the chosen interface fails only if the context asks for the other.
LEMMA CastFollowsContext ==
    ASSUME NEW ctx, ContextFits(ctx), NEW T, TypeFits(T, ctx)
    PROVE  /\ cast_ctx_to_ref(Intf({"remote"}), T, ctx) <=> ctx.remotely
           /\ cast_ctx_to_ref(Intf({"local"}), T, ctx) <=> ~ctx.remotely
<1>1. /\ ctx.remotely \in BOOLEAN
      /\ (IF ctx.remotely THEN "remote" ELSE "local") \in ctx.intfs
      /\ {"local", "remote"} \subseteq ctx.intfs \/ (ctx.remotely <=> "remote" \in ctx.intfs)
  BY DEF ContextFits
<1>2. /\ Intf({"remote"}).intfs = {"remote"} /\ Intf({"local"}).intfs = {"local"}
  BY DEF Intf
<1>3. /\ RemoteContext(Intf({"remote"})) /\ ~LocalContext(Intf({"remote"}))
      /\ ~SyncContext(Intf({"remote"})) /\ ~AsyncContext(Intf({"remote"}))
      /\ LocalContext(Intf({"local"})) /\ ~RemoteContext(Intf({"local"}))
      /\ ~SyncContext(Intf({"local"})) /\ ~AsyncContext(Intf({"local"}))
  BY <1>2 DEF RemoteContext, LocalContext, SyncContext, AsyncContext
<1>4. DefinitelyRemoteContext(T) => ctx.remotely
  BY <1>1 DEF DefinitelyRemoteContext, RemoteContext, LocalContext, TypeFits
<1>5. DefinitelyLocalContext(T) => ~ctx.remotely
  BY <1>1 DEF DefinitelyLocalContext, RemoteContext, LocalContext, TypeFits
<1>6. throw_on_ctx_mismatch(Intf({"remote"}), T, ctx) <=> ~ctx.remotely
  BY <1>3, <1>4, <1>5 DEF throw_on_ctx_mismatch
<1>7. throw_on_ctx_mismatch(Intf({"local"}), T, ctx) <=> ctx.remotely
  BY <1>3, <1>4, <1>5 DEF throw_on_ctx_mismatch
<1>8. /\ ctx.remotely => cast_ctx_base(Intf({"remote"}), T, ctx)
      /\ ~ctx.remotely => cast_ctx_base(Intf({"local"}), T, ctx)
  BY <1>1, <1>2 DEF cast_ctx_base
<1> QED
  BY <1>6, <1>7, <1>8 DEF cast_ctx_to_ref

\* Which casts to owners and roots succeed.
LEMMA CastsToRoots ==
    ASSUME NEW ctx, ContextFits(ctx)
    PROVE  /\ cast_ctx_to_ptr(Intf(local_async_ctx_owner_intf), Intf({"local"}), ctx)
                 <=> "local_owner" \in ctx.intfs
           /\ cast_ctx_to_ptr(Intf(remote_async_ctx_owner_intf), Intf({"remote"}), ctx)
                 <=> "remote_owner" \in ctx.intfs
<1>1. /\ Intf({"remote"}).intfs = {"remote"} /\ Intf({"local"}).intfs = {"local"}
      /\ Intf(local_async_ctx_owner_intf).intfs = {"local_owner"}
      /\ Intf(remote_async_ctx_owner_intf).intfs = {"remote_owner"}
  BY DEF Intf, local_async_ctx_owner_intf, remote_async_ctx_owner_intf
<1>2. \A D \in {Intf(local_async_ctx_owner_intf), Intf(remote_async_ctx_owner_intf)} :
         ~RemoteContext(D) /\ ~LocalContext(D) /\ ~SyncContext(D) /\ ~AsyncContext(D)
  BY <1>1 DEF RemoteContext, LocalContext, SyncContext, AsyncContext
<1>3. \A D \in {Intf(local_async_ctx_owner_intf), Intf(remote_async_ctx_owner_intf)} :
         \A S : ~throw_on_ctx_mismatch(D, S, ctx)
  BY <1>2 DEF throw_on_ctx_mismatch
<1> QED
  BY <1>1, <1>3 DEF cast_ctx_to_ptr, cast_ctx_base

\* What preparing and populating a root changes.
LEMMA PreparesNewRoot ==
    ASSUME NEW ctx, ContextFits(ctx)
    PROVE  /\ ~ctx.remotely =>
                 LET new == prepare_for_local_resolution(ctx)
                 IN  /\ new = [ctx EXCEPT !.prepared = TRUE, !.local = Len(ctx.roots) + 1,
                                          !.roots = Append(ctx.roots, 0)]
                     /\ ContextFits(new)
           /\ ctx.remotely =>
                 LET new == prepare_for_remote_resolution(ctx)
                 IN  /\ new = [ctx EXCEPT !.prepared = TRUE, !.remote = Len(ctx.roots) + 1,
                                          !.roots = Append(ctx.roots, 0)]
                     /\ ContextFits(new)
<1>1. /\ ctx \in [intfs : SUBSET STRING, async : BOOLEAN, prepared : BOOLEAN, remotely : BOOLEAN,
                  local : Nat, remote : Nat, roots : Seq(Nat)]
      /\ ctx.local \in 0 .. Len(ctx.roots) /\ ctx.remote \in 0 .. Len(ctx.roots)
      /\ Len(ctx.roots) \in Nat
  BY DEF ContextFits
<1>2. /\ Append(ctx.roots, 0) \in Seq(Nat) /\ Len(Append(ctx.roots, 0)) = Len(ctx.roots) + 1
  BY <1>1
<1>3. ASSUME ~ctx.remotely
      PROVE  LET new == prepare_for_local_resolution(ctx)
             IN  /\ new = [ctx EXCEPT !.prepared = TRUE, !.local = Len(ctx.roots) + 1,
                                      !.roots = Append(ctx.roots, 0)]
                 /\ ContextFits(new)
  <2> DEFINE new == prepare_for_local_resolution(ctx)
  <2>1. new = [ctx EXCEPT !.prepared = TRUE, !.local = Len(ctx.roots) + 1,
                          !.roots = Append(ctx.roots, 0)]
    BY <1>1, <1>3 DEF prepare_for_local_resolution
  <2>2. new \in [intfs : SUBSET STRING, async : BOOLEAN, prepared : BOOLEAN, remotely : BOOLEAN,
                 local : Nat, remote : Nat, roots : Seq(Nat)]
    <3>1. Len(ctx.roots) + 1 \in Nat
      BY <1>1
    <3>2. new = [intfs |-> ctx.intfs, async |-> ctx.async, prepared |-> TRUE,
                 remotely |-> ctx.remotely, local |-> Len(ctx.roots) + 1,
                 remote |-> ctx.remote, roots |-> Append(ctx.roots, 0)]
      BY <2>1, <1>1
    <3> QED
      BY <3>1, <3>2, <1>1, <1>2
  <2>3. /\ new.intfs = ctx.intfs /\ new.async = ctx.async /\ new.prepared = TRUE
        /\ new.remotely = ctx.remotely /\ new.local = Len(ctx.roots) + 1
        /\ new.remote = ctx.remote /\ new.roots = Append(ctx.roots, 0)
    BY <2>1, <1>1
  <2> HIDE DEF new
  <2>4. new.local \in 0 .. Len(new.roots) /\ new.remote \in 0 .. Len(new.roots)
    BY <2>3, <1>1, <1>2
  <2>5. ContextFits(new)
    BY <2>2, <2>3, <2>4 DEF ContextFits
  <2> QED
    BY <2>1, <2>5 DEF new
<1>4. ASSUME ctx.remotely
      PROVE  LET new == prepare_for_remote_resolution(ctx)
             IN  /\ new = [ctx EXCEPT !.prepared = TRUE, !.remote = Len(ctx.roots) + 1,
                                      !.roots = Append(ctx.roots, 0)]
                 /\ ContextFits(new)
  <2> DEFINE new == prepare_for_remote_resolution(ctx)
  <2>1. new = [ctx EXCEPT !.prepared = TRUE, !.remote = Len(ctx.roots) + 1,
                          !.roots = Append(ctx.roots, 0)]
    BY <1>1, <1>4 DEF prepare_for_remote_resolution
  <2>2. new \in [intfs : SUBSET STRING, async : BOOLEAN, prepared : BOOLEAN, remotely : BOOLEAN,
                 local : Nat, remote : Nat, roots : Seq(Nat)]
    <3>1. Len(ctx.roots) + 1 \in Nat
      BY <1>1
    <3>2. new = [intfs |-> ctx.intfs, async |-> ctx.async, prepared |-> TRUE,
                 remotely |-> ctx.remotely, local |-> ctx.local,
                 remote |-> Len(ctx.roots) + 1, roots |-> Append(ctx.roots, 0)]
      BY <2>1, <1>1
    <3> QED
      BY <3>1, <3>2, <1>1, <1>2
  <2>3. /\ new.intfs = ctx.intfs /\ new.async = ctx.async /\ new.prepared = TRUE
        /\ new.remotely = ctx.remotely /\ new.remote = Len(ctx.roots) + 1
        /\ new.local = ctx.local /\ new.roots = Append(ctx.roots, 0)
    BY <2>1, <1>1
  <2> HIDE DEF new
  <2>4. new.local \in 0 .. Len(new.roots) /\ new.remote \in 0 .. Len(new.roots)
    BY <2>3, <1>1, <1>2
  <2>5. ContextFits(new)
    BY <2>2, <2>3, <2>4 DEF ContextFits
  <2> QED
    BY <2>1, <2>5 DEF new
<1> QED
  BY <1>3, <1>4

\* Populating a root builds one tree in it and changes nothing else.
LEMMA PopulatesOneRoot ==
    ASSUME NEW ctx, ContextFits(ctx), NEW root \in Nat
    PROVE  LET new == Populated(ctx, root)
           IN  /\ ContextFits(new)
               /\ new.intfs = ctx.intfs /\ new.async = ctx.async /\ new.prepared = ctx.prepared
               /\ new.remotely = ctx.remotely /\ new.local = ctx.local /\ new.remote = ctx.remote
               /\ Len(new.roots) = Len(ctx.roots)
               /\ \A k \in 1 .. Len(ctx.roots) :
                     new.roots[k] = ctx.roots[k] + OneMore(k = root)
<1> DEFINE new == Populated(ctx, root)
<1>1. ctx \in [intfs : SUBSET STRING, async : BOOLEAN, prepared : BOOLEAN, remotely : BOOLEAN,
               local : Nat, remote : Nat, roots : Seq(Nat)]
  BY DEF ContextFits
<1>2. DOMAIN ctx.roots = 1 .. Len(ctx.roots) /\ \A k \in 1 .. Len(ctx.roots) : ctx.roots[k] \in Nat
  BY <1>1
<1>3. CASE root \in DOMAIN ctx.roots
  <2>1. new = [ctx EXCEPT !.roots = [ctx.roots EXCEPT ![root] = @ + 1]]
    BY <1>3, <1>1 DEF Populated
  <2>2. /\ [ctx.roots EXCEPT ![root] = @ + 1] \in Seq(Nat)
        /\ Len([ctx.roots EXCEPT ![root] = @ + 1]) = Len(ctx.roots)
    BY <1>1, <1>2, <1>3
  <2>3. new \in [intfs : SUBSET STRING, async : BOOLEAN, prepared : BOOLEAN, remotely : BOOLEAN,
                 local : Nat, remote : Nat, roots : Seq(Nat)]
    BY <2>1, <2>2, <1>1
  <2>4. /\ new.intfs = ctx.intfs /\ new.async = ctx.async /\ new.prepared = ctx.prepared
        /\ new.remotely = ctx.remotely /\ new.local = ctx.local /\ new.remote = ctx.remote
        /\ new.roots = [ctx.roots EXCEPT ![root] = @ + 1]
    BY <2>1, <1>1
  <2> HIDE DEF new
  <2>5. Len(new.roots) = Len(ctx.roots)
    BY <2>2, <2>4
  <2>6. \A k \in 1 .. Len(ctx.roots) : new.roots[k] = ctx.roots[k] + OneMore(k = root)
    BY <2>4, <1>1, <1>2, <1>3 DEF OneMore
  <2>7. ContextFits(new)
    BY <2>3, <2>4, <2>5 DEF ContextFits
  <2> QED
    BY <2>4, <2>5, <2>6, <2>7 DEF new
<1>4. CASE root \notin DOMAIN ctx.roots
  <2>1. new = ctx
    BY <1>4 DEF Populated
  <2>2. \A k \in 1 .. Len(ctx.roots) : ctx.roots[k] = ctx.roots[k] + OneMore(k = root)
    BY <1>2, <1>4 DEF OneMore
  <2> QED
    BY <2>1, <2>2
<1> QED
  BY <1>3, <1>4

\* A local resolution.
LEMMA LocalTry ==
    ASSUME NEW ctx, ContextFits(ctx), ~ctx.remotely, NEW retrying \in BOOLEAN, NEW c
    PROVE  LET t == resolve_request_local(ctx, retrying, c)
           IN  t.way = "local" /\ RunsOnItsRoot(t) /\ BuildsOnce(t, ctx, retrying) /\ KeepsContext(t, ctx)
<1> DEFINE t == resolve_request_local(ctx, retrying, c)
           L == Intf({"local"})
           prepares == PreparesRoot(ctx, retrying, c)
           owner == cast_ctx_to_ptr(Intf(local_async_ctx_owner_intf), L, ctx)
           new == IF prepares /\ owner THEN prepare_for_local_resolution(ctx) ELSE ctx
           populates == prepares
                        /\ (owner \/ cast_ctx_to_ptr(Intf(root_local_async_context_intf), L, ctx))
           last == IF populates THEN Populated(new, new.local) ELSE new
<1>1. t = [ctx |-> last, way |-> "local", root |-> new.local, builds |-> populates]
  BY DEF resolve_request_local
<1>2. populates => ~retrying
  BY DEF PreparesRoot
<1>3. owner <=> "local_owner" \in ctx.intfs
  BY CastsToRoots
<1>4. /\ t.ctx = last /\ t.way = "local" /\ t.root = new.local /\ t.builds = populates
  BY <1>1
<1> HIDE DEF t, prepares, owner
<1>5. /\ ctx.roots \in Seq(Nat) /\ Len(ctx.roots) \in Nat /\ ctx.local \in Nat /\ ctx.remotely \in BOOLEAN
      /\ ctx.prepared \in BOOLEAN /\ (~ctx.prepared => ctx.local = 0)
      /\ ctx \in [intfs : SUBSET STRING, async : BOOLEAN, prepared : BOOLEAN, remotely : BOOLEAN,
                  local : Nat, remote : Nat, roots : Seq(Nat)]
  BY DEF ContextFits
<1>6. /\ ContextFits(new) /\ new.intfs = ctx.intfs /\ new.remotely = ctx.remotely
      /\ new.async = ctx.async /\ new.local \in Nat
      /\ (~new.prepared => new.local = 0)
      /\ Len(new.roots) \in Nat /\ Len(ctx.roots) <= Len(new.roots)
      /\ \A k \in 1 .. Len(ctx.roots) : new.roots[k] = ctx.roots[k]
      /\ prepares /\ owner => /\ new.local = Len(ctx.roots) + 1 /\ Len(new.roots) = Len(ctx.roots) + 1
                              /\ new.roots[Len(ctx.roots) + 1] = 0
  <2>1. CASE prepares /\ owner
    <3>1. /\ new = [ctx EXCEPT !.prepared = TRUE, !.local = Len(ctx.roots) + 1,
                               !.roots = Append(ctx.roots, 0)]
          /\ ContextFits(new)
      BY <2>1, PreparesNewRoot
    <3>2. /\ new.intfs = ctx.intfs /\ new.remotely = ctx.remotely /\ new.async = ctx.async
          /\ new.prepared = TRUE /\ new.local = Len(ctx.roots) + 1
          /\ new.roots = Append(ctx.roots, 0)
      BY <3>1, <1>5
    <3> HIDE DEF new
    <3>3. /\ Len(new.roots) = Len(ctx.roots) + 1
          /\ \A k \in 1 .. Len(ctx.roots) : new.roots[k] = ctx.roots[k]
          /\ new.roots[Len(ctx.roots) + 1] = 0
      BY <3>2, <1>5
    <3> QED
      BY <3>1, <3>2, <3>3, <1>5
  <2>2. CASE ~(prepares /\ owner)
    <3>1. new = ctx
      BY <2>2
    <3> HIDE DEF new
    <3> QED
      BY <3>1, <2>2, <1>5
  <2> QED
    BY <2>1, <2>2
<1> HIDE DEF new
<1>7. /\ ContextFits(last) /\ last.intfs = new.intfs /\ last.remotely = new.remotely
      /\ last.async = new.async /\ last.local = new.local /\ last.prepared = new.prepared
      /\ \A k \in 1 .. Len(new.roots) :
            last.roots[k] = new.roots[k] + OneMore(populates /\ k = new.local)
  <2>1. CASE populates
    <3>1. last = Populated(new, new.local)
      BY <2>1
    <3> HIDE DEF last
    <3> QED
      BY <2>1, <3>1, <1>6, PopulatesOneRoot DEF OneMore
  <2>2. CASE ~populates
    <3>1. last = new /\ new.roots \in Seq(Nat)
      BY <2>2, <1>6 DEF ContextFits
    <3>2. \A k \in 1 .. Len(new.roots) : new.roots[k] \in Nat
      BY <3>1
    <3> HIDE DEF last, populates
    <3> QED
      BY <2>2, <3>1, <3>2, <1>6 DEF OneMore
  <2> QED
    BY <2>1, <2>2
<1>8. populates /\ owner => prepares
  OBVIOUS
<1> HIDE DEF last, populates
<1>9. RunsOnItsRoot(t)
  BY <1>4, <1>6, <1>7 DEF RunsOnItsRoot, get_async_root
<1>10. BuildsOnce(t, ctx, retrying)
  <2>1. \A k \in 1 .. Len(ctx.roots) : last.roots[k] = ctx.roots[k] + OneMore(populates /\ k = new.local)
    BY <1>5, <1>6, <1>7
  <2>2. ASSUME populates, owner PROVE new.local = Len(ctx.roots) + 1 /\ last.roots[new.local] = 1
    <3>1. new.local = Len(ctx.roots) + 1 /\ new.local \in 1 .. Len(new.roots) /\ new.roots[new.local] = 0
      BY <2>2, <1>5, <1>6, <1>8
    <3> QED
      BY <3>1, <2>2, <1>7 DEF OneMore
  <2> QED
    BY <2>1, <2>2, <1>2, <1>3, <1>4 DEF BuildsOnce
<1>11. KeepsContext(t, ctx)
  BY <1>4, <1>6, <1>7 DEF KeepsContext
<1> QED
  BY <1>4, <1>9, <1>10, <1>11 DEF t

\* A remote resolution.
LEMMA RemoteTry ==
    ASSUME NEW ctx, ContextFits(ctx), ctx.remotely, NEW retrying \in BOOLEAN
    PROVE  LET t == resolve_request_remote(ctx)
           IN  t.way = "remote" /\ RunsOnItsRoot(t) /\ BuildsOnce(t, ctx, retrying) /\ KeepsContext(t, ctx)
<1> DEFINE t == resolve_request_remote(ctx)
           owner == cast_ctx_to_ptr(Intf(remote_async_ctx_owner_intf), Intf({"remote"}), ctx)
           new == IF owner THEN prepare_for_remote_resolution(ctx) ELSE ctx
<1>1. /\ t.ctx = new /\ t.way = "remote" /\ t.root = new.remote /\ t.builds = FALSE
  BY DEF resolve_request_remote
<1> HIDE DEF t, owner
<1>2. /\ ctx.roots \in Seq(Nat) /\ Len(ctx.roots) \in Nat /\ ctx.remote \in Nat
      /\ ctx.prepared \in BOOLEAN /\ (~ctx.prepared => ctx.remote = 0)
      /\ ctx \in [intfs : SUBSET STRING, async : BOOLEAN, prepared : BOOLEAN, remotely : BOOLEAN,
                  local : Nat, remote : Nat, roots : Seq(Nat)]
  BY DEF ContextFits
<1>3. /\ ContextFits(new) /\ new.intfs = ctx.intfs /\ new.remotely = ctx.remotely
      /\ new.async = ctx.async /\ (~new.prepared => new.remote = 0)
      /\ \A k \in 1 .. Len(ctx.roots) : new.roots[k] = ctx.roots[k] /\ ctx.roots[k] \in Nat
  <2>1. CASE owner
    <3>1. /\ new = [ctx EXCEPT !.prepared = TRUE, !.remote = Len(ctx.roots) + 1,
                               !.roots = Append(ctx.roots, 0)]
          /\ ContextFits(new)
      BY <2>1, PreparesNewRoot
    <3>2. /\ new.intfs = ctx.intfs /\ new.remotely = ctx.remotely /\ new.async = ctx.async
          /\ new.prepared = TRUE /\ new.roots = Append(ctx.roots, 0)
      BY <3>1, <1>2
    <3> HIDE DEF new
    <3>3. \A k \in 1 .. Len(ctx.roots) : new.roots[k] = ctx.roots[k] /\ ctx.roots[k] \in Nat
      BY <3>2, <1>2
    <3> QED
      BY <3>1, <3>2, <3>3
  <2>2. CASE ~owner
    <3>1. new = ctx /\ \A k \in 1 .. Len(ctx.roots) : ctx.roots[k] \in Nat
      BY <2>2, <1>2
    <3> HIDE DEF new
    <3> QED
      BY <3>1, <1>2
  <2> QED
    BY <2>1, <2>2
<1> HIDE DEF new
<1>4. RunsOnItsRoot(t)
  BY <1>1, <1>3 DEF RunsOnItsRoot, get_async_root
<1>5. BuildsOnce(t, ctx, retrying)
  BY <1>1, <1>3 DEF BuildsOnce, OneMore
<1>6. KeepsContext(t, ctx)
  BY <1>1, <1>3 DEF KeepsContext
<1> QED
  BY <1>1, <1>4, <1>5, <1>6 DEF t

\* Whatever interfaces a class implements, whatever a caller knows of it and
\* whatever roots earlier resolutions made: one try of resolve_request() goes
\* where the context says or throws before it prepares anything, runs on the
\* root that the context passes calls on to, and builds a tree at most once.
\* The context can then be used for the next try or the next resolution.
THEOREM DispatchFollowsEveryContext ==
    ASSUME NEW ctx, ContextFits(ctx), NEW T, TypeFits(T, ctx), NEW is_proxy \in BOOLEAN,
           NEW retrying \in BOOLEAN, NEW c
    PROVE  LET t == resolve_request_one_try(T, ctx, is_proxy, retrying, c)
           IN  /\ GoesWhereWanted(t, ctx, is_proxy, c)
               /\ RunsOnItsRoot(t) /\ BuildsOnce(t, ctx, retrying) /\ KeepsContext(t, ctx)
<1> DEFINE t == resolve_request_one_try(T, ctx, is_proxy, retrying, c)
           remote == is_proxy \/ "remote" \in c \/ ("local" \notin c /\ ctx.remotely)
           dest == Intf(IF remote THEN {"remote"} ELSE {"local"})
<1>1. t = IF ~cast_ctx_to_ref(dest, T, ctx)
             THEN [ctx |-> ctx, way |-> "throws", root |-> 0, builds |-> FALSE]
          ELSE IF remote THEN resolve_request_remote(ctx)
          ELSE resolve_request_local(ctx, retrying, c)
  BY DEF resolve_request_one_try
<1>2. ctx.remotely \in BOOLEAN /\ ctx.roots \in Seq(Nat)
  BY DEF ContextFits
<1>3. cast_ctx_to_ref(dest, T, ctx) <=> (remote <=> ctx.remotely)
  <2>1. CASE remote
    BY <2>1, <1>2, CastFollowsContext
  <2>2. CASE ~remote
    BY <2>2, <1>2, CastFollowsContext
  <2> QED
    BY <2>1, <2>2
<1> HIDE DEF t, dest
<1>4. CASE remote /\ ctx.remotely
  <2>1. t = resolve_request_remote(ctx)
    BY <1>1, <1>3, <1>4
  <2>2. t.way = "remote" /\ RunsOnItsRoot(t) /\ BuildsOnce(t, ctx, retrying) /\ KeepsContext(t, ctx)
    BY <2>1, <1>4, RemoteTry
  <2> QED
    BY <2>2, <1>4 DEF GoesWhereWanted, WantedWay, t
<1>5. CASE ~remote /\ ~ctx.remotely
  <2>1. t = resolve_request_local(ctx, retrying, c)
    BY <1>1, <1>3, <1>5
  <2>2. t.way = "local" /\ RunsOnItsRoot(t) /\ BuildsOnce(t, ctx, retrying) /\ KeepsContext(t, ctx)
    BY <2>1, <1>5, LocalTry
  <2> QED
    BY <2>2, <1>5 DEF GoesWhereWanted, WantedWay, t
<1>6. CASE ~(remote <=> ctx.remotely)
  <2>1. t.ctx = ctx /\ t.way = "throws" /\ t.builds = FALSE
    BY <1>1, <1>3, <1>6
  <2>2. \/ is_proxy /\ ~ctx.remotely
        \/ c \cap {"remote", "local"} \notin {{}, {WantedWay(ctx)}}
    <3>1. CASE ctx.remotely
      <4>1. "local" \in c
        BY <3>1, <1>6
      <4> QED
        BY <4>1, <3>1 DEF WantedWay
    <3>2. CASE ~ctx.remotely /\ ~is_proxy
      <4>1. "remote" \in c
        BY <3>2, <1>6
      <4> QED
        BY <4>1, <3>2 DEF WantedWay
    <3> QED
      BY <3>1, <3>2
  <2>3. GoesWhereWanted(t, ctx, is_proxy, c)
    BY <2>1, <2>2 DEF GoesWhereWanted
  <2>4. RunsOnItsRoot(t) /\ KeepsContext(t, ctx)
    BY <2>1 DEF RunsOnItsRoot, KeepsContext
  <2>5. BuildsOnce(t, ctx, retrying)
    <3>1. \A k \in 1 .. Len(ctx.roots) : ctx.roots[k] \in Nat
      BY <1>2
    <3> QED
      BY <2>1, <3>1 DEF BuildsOnce, OneMore
  <2> QED
    BY <2>3, <2>4, <2>5 DEF t
<1> QED
  BY <1>2, <1>4, <1>5, <1>6

\* Default constraints never make a resolution throw, unless the request is a
\* proxy and the context local.
THEOREM DefaultsNeverThrow ==
    ASSUME NEW ctx, ContextFits(ctx), NEW T, TypeFits(T, ctx), NEW is_proxy \in BOOLEAN,
           NEW retrying \in BOOLEAN, is_proxy => ctx.remotely
    PROVE  resolve_request_one_try(T, ctx, is_proxy, retrying, DefaultResolutionConstraints(T)).way
             = WantedWay(ctx)
<1> DEFINE c == DefaultResolutionConstraints(T)
           t == resolve_request_one_try(T, ctx, is_proxy, retrying, c)
<1>1. GoesWhereWanted(t, ctx, is_proxy, c)
  BY DispatchFollowsEveryContext
<1>2. /\ "remote" \in c <=> DefinitelyRemoteContext(T)
      /\ "local" \in c <=> DefinitelyLocalContext(T)
  BY DEF DefaultResolutionConstraints
<1>3. /\ ctx.remotely \in BOOLEAN
      /\ (IF ctx.remotely THEN "remote" ELSE "local") \in ctx.intfs
      /\ {"local", "remote"} \subseteq ctx.intfs \/ (ctx.remotely <=> "remote" \in ctx.intfs)
  BY DEF ContextFits
<1>4. DefinitelyRemoteContext(T) => ctx.remotely
  BY <1>3 DEF DefinitelyRemoteContext, RemoteContext, LocalContext, TypeFits
<1>5. DefinitelyLocalContext(T) => ~ctx.remotely
  BY <1>3 DEF DefinitelyLocalContext, RemoteContext, LocalContext, TypeFits
<1> HIDE DEF c, t
<1>6. c \cap {"remote", "local"} \in {{}, {WantedWay(ctx)}}
  <2>1. CASE ctx.remotely
    <3>1. "local" \notin c
      BY <2>1, <1>2, <1>5
    <3> QED
      BY <3>1, <2>1 DEF WantedWay
  <2>2. CASE ~ctx.remotely
    <3>1. "remote" \notin c
      BY <2>2, <1>2, <1>4
    <3> QED
      BY <3>1, <2>2 DEF WantedWay
  <2> QED
    BY <2>1, <2>2
<1>7. t.way = WantedWay(ctx)
  BY <1>1, <1>6 DEF GoesWhereWanted
<1> QED
  BY <1>7 DEF t, c
=============================================================================
