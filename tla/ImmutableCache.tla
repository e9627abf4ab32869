--------------------------- MODULE ImmutableCache ---------------------------
(***************************************************************************)
(* The in-memory ("immutable") cache of cradle,                            *)
(* src/cradle/inner/caching/immutable.                                     *)
(*                                                                         *)
(* The cache has two levels.  The Action Cache (AC) has one record per     *)
(* request key; the Content Addressable Storage (CAS) has one record per   *)
(* value digest, shared by every AC record whose request has that value.   *)
(* Clients refer to an AC record through an immutable_cache_ptr and may    *)
(* also hold a cache_record_lock on it.  An AC record nobody refers to     *)
(* sits in an LRU eviction list, from which records are dropped when the   *)
(* unlocked part of the CAS is larger than a configured limit.             *)
(*                                                                         *)
(* Each action is one critical section of the cache mutex.                 *)
(***************************************************************************)
EXTENDS Integers, Sequences, SequencesExt, FiniteSets, FiniteSetsExt

CONSTANTS
    Keys,             \* request keys (captured_id)
    Digests,          \* digests of the values requests resolve to
    Clients,          \* a client holds at most one ptr and one lock
    DeepSize,         \* deep_size() of the value with a given digest
    UnusedSizeLimit,  \* immutable_cache_config::unused_size_limit
    NoKey, NoDigest, NoClient

ASSUME FiniteAssumption ==
    IsFiniteSet(Keys) /\ IsFiniteSet(Digests) /\ IsFiniteSet(Clients)
ASSUME SizeAssumption ==
    DeepSize \in [Digests -> Nat] /\ UnusedSizeLimit \in Nat
ASSUME NullAssumption ==
    NoKey \notin Keys /\ NoDigest \notin Digests /\ NoClient \notin Clients

VARIABLES
    \* The AC records.  The fields of a key that has no record have the
    \* values that a new record gets.
    records,            \* keys that have an AC record
    ref_count,          \* ptrs and locks referring to the record
    lock_count,         \* locks referring to the record
    state,              \* LOADING, READY or FAILED
    cas_record,         \* digest of the CAS record referred to, or NoDigest
    task,               \* client whose ptr the record's shared_task captured;
                        \* NoClient once that ptr is gone
    eviction_list,      \* keys of unused records, least recently used first
    \* The CAS.
    cas_map,            \* digests that have a CAS record
    cas_ref_count,      \* AC records referring to the CAS record
    cas_lock_count,     \* locked AC records referring to the CAS record
    total_size,
    total_locked_size,
    \* The clients.
    ptr,                \* key of the record a client's ptr refers to
    lock                \* key of the record a client has locked

ac_vars     == <<records, ref_count, lock_count, state, cas_record, task,
                 eviction_list>>
cas_vars    == <<cas_map, cas_ref_count, cas_lock_count, total_size,
                 total_locked_size>>
client_vars == <<ptr, lock>>
vars        == <<ac_vars, cas_vars, client_vars>>

EntryStates == {"LOADING", "READY", "FAILED"}

TypeOK ==
    /\ records \subseteq Keys
    /\ ref_count \in [Keys -> Nat]
    /\ lock_count \in [Keys -> Nat]
    /\ state \in [Keys -> EntryStates]
    /\ cas_record \in [Keys -> Digests \cup {NoDigest}]
    /\ task \in [Keys -> Clients \cup {NoClient}]
    /\ eviction_list \in Seq(Keys)
    /\ cas_map \subseteq Digests
    /\ cas_ref_count \in [Digests -> Nat]
    /\ cas_lock_count \in [Digests -> Nat]
    /\ total_size \in Nat
    /\ total_locked_size \in Nat
    /\ ptr \in [Clients -> Keys \cup {NoKey}]
    /\ lock \in [Clients -> Keys \cup {NoKey}]

Init ==
    /\ records = {}
    /\ ref_count = [k \in Keys |-> 0]
    /\ lock_count = [k \in Keys |-> 0]
    /\ state = [k \in Keys |-> "LOADING"]
    /\ cas_record = [k \in Keys |-> NoDigest]
    /\ task = [k \in Keys |-> NoClient]
    /\ eviction_list = <<>>
    /\ cas_map = {}
    /\ cas_ref_count = [d \in Digests |-> 0]
    /\ cas_lock_count = [d \in Digests |-> 0]
    /\ total_size = 0
    /\ total_locked_size = 0
    /\ ptr = [c \in Clients |-> NoKey]
    /\ lock = [c \in Clients |-> NoKey]

-----------------------------------------------------------------------------
(* Sizes.  A value of size n occupies the n cells <<digest, 1..n>>, so     *)
(* that the size of a set of CAS records is the number of cells it has.    *)

Cells(S) == UNION {{d} \X (1 .. DeepSize[d]) : d \in S}
SizeOf(S) == Cardinality(Cells(S))

-----------------------------------------------------------------------------
(* The eviction loop.  It drops records from the front of the list until   *)
(* the list is empty or total_size - total_locked_size is small enough.    *)

\* The CAS records that lose their last reference when the first n records
\* of the list are dropped.
Freed_by_any_referrer(list, n) ==
    {d \in cas_map : \E i \in 1..n : cas_record[list[i]] = d}
Freed(list, n) ==
    {d \in cas_map :
        cas_ref_count[d] = Cardinality({i \in 1..n : cas_record[list[i]] = d})}

\* How many records the loop drops.
NumEvicted(list, locked_size, desired_size) ==
    Min({n \in 0..Len(list) :
            \/ n = Len(list)
            \/ total_size - SizeOf(Freed(list, n)) - locked_size
                   <= desired_size})

\* Runs the loop, with list and locked_size the values of eviction_list and
\* total_locked_size when it starts.
reduce_memory_cache_size_impl(list, locked_size, desired_size) ==
    LET n       == NumEvicted(list, locked_size, desired_size)
        evicted == {list[i] : i \in 1..n}
        freed   == Freed(list, n)
    IN  /\ records' = records \ evicted
        /\ eviction_list' = SubSeq(list, n + 1, Len(list))
        /\ state' = [k \in Keys |->
                        IF k \in evicted THEN "LOADING" ELSE state[k]]
        /\ cas_record' = [k \in Keys |->
                        IF k \in evicted THEN NoDigest ELSE cas_record[k]]
        /\ cas_ref_count' = [d \in Digests |-> cas_ref_count[d]
                        - Cardinality({i \in 1..n : cas_record[list[i]] = d})]
        /\ cas_map' = cas_map \ freed
        /\ total_size' = total_size - SizeOf(freed)

-----------------------------------------------------------------------------
(* Reference and lock counting.                                            *)

add_ref_keeps_evictable(k) ==
    /\ ref_count' = [ref_count EXCEPT ![k] = @ + 1]
    /\ UNCHANGED eviction_list
add_ref_to_cache_record(k) ==
    /\ ref_count' = [ref_count EXCEPT ![k] = @ + 1]
    /\ eviction_list' = RemoveFirst(eviction_list, k)

del_ref_without_reducing(k, locked_size) ==
    /\ ref_count' = [ref_count EXCEPT ![k] = @ - 1]
    /\ eviction_list' = IF ref_count[k] = 1 THEN Append(eviction_list, k)
                                            ELSE eviction_list
    /\ UNCHANGED <<records, state, cas_record, cas_ref_count, cas_map,
                   total_size>>
del_ref_from_cache_record(k, locked_size) ==
    /\ ref_count' = [ref_count EXCEPT ![k] = @ - 1]
    /\ IF ref_count[k] = 1
       THEN reduce_memory_cache_size_impl(
                Append(eviction_list, k), locked_size, UnusedSizeLimit)
       ELSE UNCHANGED <<records, eviction_list, state, cas_record,
                        cas_ref_count, cas_map, total_size>>

\* The CAS record's lock count and total_locked_size, when the CAS record of
\* digest d gains or loses a locked referrer.
cas_add_lock(d) ==
    /\ cas_lock_count' = [cas_lock_count EXCEPT ![d] = @ + 1]
    /\ total_locked_size' = IF cas_lock_count[d] = 0
                            THEN total_locked_size + DeepSize[d]
                            ELSE total_locked_size

cas_del_lock_every_time(d) ==
    /\ cas_lock_count' = [cas_lock_count EXCEPT ![d] = @ - 1]
    /\ total_locked_size' = total_locked_size - DeepSize[d]
cas_del_lock(d) ==
    /\ cas_lock_count' = [cas_lock_count EXCEPT ![d] = @ - 1]
    /\ total_locked_size' = IF cas_lock_count[d] = 1
                            THEN total_locked_size - DeepSize[d]
                            ELSE total_locked_size

add_lock_to_cache_record(k) ==
    /\ lock_count' = [lock_count EXCEPT ![k] = @ + 1]
    /\ IF lock_count[k] = 0 /\ cas_record[k] # NoDigest
       THEN cas_add_lock(cas_record[k])
       ELSE UNCHANGED <<cas_lock_count, total_locked_size>>

del_lock_from_cache_record(k) ==
    /\ lock_count' = [lock_count EXCEPT ![k] = @ - 1]
    /\ IF lock_count[k] = 1 /\ cas_record[k] # NoDigest
       THEN cas_del_lock(cas_record[k])
       ELSE UNCHANGED <<cas_lock_count, total_locked_size>>

-----------------------------------------------------------------------------
(* The operations.                                                         *)

\* Whether a ptr for key k gets a new task: there is no record or it FAILED.
NeedsTask_unless_loading(k) == k \notin records \/ state[k] # "LOADING"
NeedsTask_unless_ready(k) == k \notin records \/ state[k] # "READY"
NeedsTask(k) == k \notin records \/ state[k] = "FAILED"

\* Client c creates an immutable_cache_ptr for key k.  A missing record is
\* created; a new or FAILED record gets a task that captures c's ptr.
acquire_cache_record(c, k) ==
    /\ ptr[c] = NoKey
    /\ ptr' = [ptr EXCEPT ![c] = k]
    /\ records' = records \cup {k}
    /\ IF NeedsTask(k)
       THEN /\ task' = [task EXCEPT ![k] = c]
            /\ state' = [state EXCEPT ![k] = "LOADING"]
       ELSE UNCHANGED <<task, state>>
    /\ add_ref_to_cache_record(k)
    /\ UNCHANGED <<lock_count, cas_record, cas_vars, lock>>

\* Client c destroys its ptr.  A task that captured it, and did not run to
\* its end, is left with a dangling reference.
release_ptr(c) ==
    LET k == ptr[c] IN
    /\ k # NoKey
    /\ ptr' = [ptr EXCEPT ![c] = NoKey]
    /\ del_ref_from_cache_record(k, total_locked_size)
    /\ task' = [x \in Keys |->
                   IF x \notin records' \/ (x = k /\ task[k] = c)
                   THEN NoClient ELSE task[x]]
    /\ UNCHANGED <<lock_count, cas_lock_count, total_locked_size, lock>>

\* Client c, holding a ptr, puts a lock on the same record.
lock_record(c) ==
    LET k == ptr[c] IN
    /\ k # NoKey
    /\ lock[c] = NoKey
    /\ lock' = [lock EXCEPT ![c] = k]
    /\ add_ref_to_cache_record(k)
    /\ add_lock_to_cache_record(k)
    /\ UNCHANGED <<records, state, cas_record, task, cas_map, cas_ref_count,
                   total_size, ptr>>

\* Client c destroys its lock.
unlock_record(c) ==
    LET k == lock[c] IN
    /\ k # NoKey
    /\ lock' = [lock EXCEPT ![c] = NoKey]
    /\ del_lock_from_cache_record(k)
    /\ del_ref_from_cache_record(k, total_locked_size')
    /\ task' = [x \in Keys |-> IF x \notin records' THEN NoClient ELSE task[x]]
    /\ UNCHANGED ptr

\* The task that captured c's ptr has computed the value with digest d.
record_value_untyped(c, d) ==
    LET k == ptr[c] IN
    /\ k # NoKey
    /\ task[k] = c
    /\ state[k] = "LOADING"
    /\ state' = [state EXCEPT ![k] = "READY"]
    /\ cas_record' = [cas_record EXCEPT ![k] = d]
    /\ cas_ref_count' = [cas_ref_count EXCEPT ![d] = @ + 1]
    /\ cas_map' = cas_map \cup {d}
    /\ total_size' = IF d \in cas_map THEN total_size
                                      ELSE total_size + DeepSize[d]
    /\ IF lock_count[k] > 0
       THEN cas_add_lock(d)
       ELSE UNCHANGED <<cas_lock_count, total_locked_size>>
    /\ UNCHANGED <<records, ref_count, lock_count, task, eviction_list,
                   client_vars>>

\* The task that captured c's ptr has failed.
record_failure(c) ==
    LET k == ptr[c] IN
    /\ k # NoKey
    /\ task[k] = c
    /\ state[k] = "LOADING"
    /\ state' = [state EXCEPT ![k] = "FAILED"]
    /\ UNCHANGED <<records, ref_count, lock_count, cas_record, task,
                   eviction_list, cas_vars, client_vars>>

\* An explicit request to drop what is not in use.
clear_unused_entries ==
    /\ reduce_memory_cache_size_impl(eviction_list, total_locked_size, 0)
    /\ task' = [x \in Keys |-> IF x \notin records' THEN NoClient ELSE task[x]]
    /\ UNCHANGED <<ref_count, lock_count, cas_lock_count, total_locked_size,
                   client_vars>>

Next ==
    \/ \E c \in Clients, k \in Keys : acquire_cache_record(c, k)
    \/ \E c \in Clients : release_ptr(c)
    \/ \E c \in Clients : lock_record(c)
    \/ \E c \in Clients : unlock_record(c)
    \/ \E c \in Clients, d \in Digests : record_value_untyped(c, d)
    \/ \E c \in Clients : record_failure(c)
    \/ clear_unused_entries

Spec == Init /\ [][Next]_vars

-----------------------------------------------------------------------------
(* Properties.                                                             *)

\* The clients whose ptr or lock (f) refers to the record of key k.
Holders(f, k) == {c \in Clients : f[c] = k}

\* The AC records whose value is the CAS record of digest d, and the locked
\* ones among them.
Referrers(d) == {k \in Keys : cas_record[k] = d}
LockedReferrers(d) == {k \in Keys : cas_record[k] = d /\ lock_count[k] > 0}

\* The CAS records that a locked AC record refers to, and those that no AC
\* record in use refers to.
LockedDigests == {d \in Digests : cas_lock_count[d] > 0}
UnusedDigests == {d \in cas_map : \A k \in Referrers(d) : ref_count[k] = 0}

\* Reference counting: a record's ref_count is the number of ptrs and locks
\* that refer to it and its lock_count the number of locks (internals.h:36-44),
\* whatever the order in which clients acquire, lock, unlock and release.
RefCountsExact ==
    \A k \in Keys :
        /\ ref_count[k] = Cardinality(Holders(ptr, k))
                          + Cardinality(Holders(lock, k))
        /\ lock_count[k] = Cardinality(Holders(lock, k))

\* The eviction list has each unused record exactly once and nothing else:
\* a record in use can never be evicted and an unused one is never forgotten
\* (internals.h:36-41).
EvictionListExact ==
    /\ ToSet(eviction_list) = {k \in records : ref_count[k] = 0}
    /\ IsInjective(eviction_list)

\* What refers to a record keeps it alive: no ptr or lock dangles after an
\* eviction, and no READY or FAILED state outlives its record.
NoDanglingRecord ==
    \A k \in Keys \ records :
        /\ Holders(ptr, k) = {} /\ Holders(lock, k) = {}
        /\ state[k] = "LOADING"

\* The value of every READY record is in the CAS, although the CAS record may
\* be shared with records that were evicted: get_value() never reads freed
\* memory (ptr.h:138-145, internals.cpp:36-44).
ReadyHasValue ==
    \A k \in Keys :
        /\ state[k] = "READY" <=> cas_record[k] # NoDigest
        /\ cas_record[k] # NoDigest => cas_record[k] \in cas_map

\* The CAS has the values of the AC records and no others, each with the
\* number of records it is shared by and counted once in the total size
\* (internals.h:103-110, 303-308).
CasRefsExact ==
    /\ \A d \in Digests :
        /\ cas_ref_count[d] = Cardinality(Referrers(d))
        /\ d \in cas_map <=> Referrers(d) # {}
    /\ total_size = SizeOf(cas_map)

\* A value is locked once, however many locked records refer to it and
\* however many locks they have, and its size is in total_locked_size exactly
\* while it is locked, so total_size - total_locked_size cannot wrap
\* (internals.h:103-110, 310-323).
CasLocksExact ==
    /\ \A d \in Digests : cas_lock_count[d] = Cardinality(LockedReferrers(d))
    /\ total_locked_size = SizeOf(LockedDigests)

\* The memory taken by values that no client uses is within the limit
\* (cache.h:69-71), although eviction compares the limit with the size of all
\* unlocked values, used ones included, and runs only when a record's last
\* reference goes.
UnusedWithinLimit == SizeOf(UnusedDigests) <= UnusedSizeLimit

\* A value that a client holds through a ptr or a lock stays what it was until
\* the client lets go: it is not evicted, retried or replaced, whatever other
\* clients do (lock.h:16-37).
HeldValueUnchanged ==
    \A c \in Clients, k \in Keys :
        /\ state[k] = "READY"
        /\ \/ ptr[c] = k /\ ptr'[c] = k
           \/ lock[c] = k /\ lock'[c] = k
        => /\ k \in records'
           /\ state'[k] = "READY"
           /\ cas_record'[k] = cas_record[k]
HeldValueIsStable == [][HeldValueUnchanged]_vars
=============================================================================
