---- MODULE Services ----
(***************************************************************************)
(* The services of a CRADLE process that resolves requests on behalf of    *)
(* others: an rpclib server (its handler threads and its thread guard) or  *)
(* a loopback service (the caller's own threads). Both lean on the same    *)
(* resources: the table of cache record locks, the collection of shared    *)
(* libraries, the registry of resolvers, the tasklets and the directory of *)
(* blob files. Asynchronous resolutions are in AsyncServer; here a         *)
(* resolution is synchronous and keeps its thread.                         *)
(***************************************************************************)
EXTENDS Naturals, Sequences, FiniteSets, FiniteSetsExt, SequencesExt

CONSTANTS
    NumCalls,       \* how many calls clients make
    Ops,            \* what a call may ask for (records, see OpKinds)
    Dlls, Uuids,    \* shared libraries and request uuids
    Preloaded,      \* the library that is loaded already
    UuidsOf,        \* the uuids a library's catalog registers, in order
    HandlerThreads, \* rpclib's handler_pool_size_
    MaxFiles,       \* bound on the blob files that are written
    MaxRestarts,    \* bound on the restarts of the server process
    NoOp            \* the operation of a call not yet made

Calls == 1..NumCalls  \* numbered in the order in which they are made
OpKinds == {"resolve", "load", "unload", "infos", "clear", "store"}

ASSUME ServicesAssumption ==
    /\ NumCalls \in Nat /\ HandlerThreads \in Nat \ {0, 1} /\ Preloaded \in Dlls
    /\ MaxFiles \in Nat /\ MaxRestarts \in Nat
    /\ UuidsOf \in [Dlls -> Seq(Uuids)]
    /\ NoOp \notin Ops
    /\ \A o \in Ops : o.kind \in OpKinds /\ o.dll \in Dlls /\ o.uuid \in Uuids

VARIABLES
    service,     \* "rpclib" or "loopback"
    pc, op,      \* per call: where it is, and what it asks for
    queue,       \* calls that wait for a handler thread
    freeThreads, \* thread_pool_guard::num_free_threads_
    lockTable,   \* the keys of cache_record_locks_
    nextLock,    \* next_remote_record_id_
    lockOf,      \* per call: its record_id (0: none)
    dllMutex,    \* the calls inside dll_collection (at most one)
    controllers, \* per library: its catalog's id (0: not loaded)
    nextCat,     \* the next catalog_id
    entries,     \* seri_registry::entries_: catalog ids, most recent first
    catOf,       \* per call: the catalog it registers, or the entry it refers to
    registered,  \* per loading call: how many uuids it has registered
    tracker,     \* per call: the placeholder tasklet of its client
    tasklet,     \* per call: the tasklet of its resolution
    files,       \* blob files that exist, with the call that wrote them
    nextFile,    \* blob_file_directory::next_file_id_
    blobOf,      \* per call: the blob file its value refers to (0: none)
    crashed,     \* undefined behaviour has ended the process
    restarts

locking  == <<freeThreads, lockTable, nextLock, lockOf>>
library  == <<dllMutex, controllers, nextCat, entries, registered>>
blobs    == <<files, nextFile, blobOf>>
tracking == <<tracker, tasklet>>
vars == <<service, pc, op, queue, locking, library, catOf, tracking, blobs, crashed,
          restarts>>

\* A call in one of these places occupies a handler thread
OnThread == {"begin", "lock", "locking", "prepare", "find", "found", "run", "file",
             "complete", "open", "register", "erase", "erasing"}
Ended == {"answered", "refused", "failed", "released", "lost"}

At(place) == {c \in Calls : pc[c] = place}
Busy == {c \in Calls : pc[c] \in OnThread}
Moves(c, place) == pc' = [pc EXCEPT ![c] = place]

\* The guard is told of one thread less than the pool has
PoolGuard == HandlerThreads - 1

\* What may follow a data race or the use of a deleted object
MayCrash(bad) == crashed' \in (IF bad THEN BOOLEAN ELSE {FALSE})

-----------------------------------------------------------------------------
(* Handler threads and their guard *)

Init ==
    /\ service \in {"rpclib", "loopback"}
    /\ pc = [c \in Calls |-> "idle"]
    /\ op = [c \in Calls |-> NoOp]
    /\ queue = <<>>
    /\ freeThreads = PoolGuard
    /\ lockTable = {} /\ nextLock = 1
    /\ lockOf = [c \in Calls |-> 0]
    /\ dllMutex = {}
    /\ controllers = [d \in Dlls |-> IF d = Preloaded THEN 1 ELSE 0]
    /\ nextCat = 2
    /\ entries = [u \in Uuids |-> IF Contains(UuidsOf[Preloaded], u) THEN <<1>> ELSE <<>>]
    /\ catOf = [c \in Calls |-> 0]
    /\ registered = [c \in Calls |-> 0]
    /\ tracker = [c \in Calls |-> "none"]
    /\ tasklet = [c \in Calls |-> "none"]
    /\ files = [f \in {} |-> NoOp]
    /\ nextFile = 1
    /\ blobOf = [c \in Calls |-> 0]
    /\ crashed = FALSE
    /\ restarts = 0

\* rpclib queues an incoming call ...
RpcCall(c, place) == service = "rpclib" /\ queue' = Append(queue, c) /\ Moves(c, place)

\* ... and a loopback call starts on the caller's own thread
LoopbackCall(c, place) == service = "loopback" /\ queue' = queue /\ Moves(c, place)

Send(c) ==
    /\ pc[c] = "idle" /\ \A d \in 1..(c - 1) : pc[d] # "idle"
    /\ \E o \in Ops : /\ (o.kind = "clear" => service = "loopback")
                      /\ op' = [op EXCEPT ![c] = o]
    /\ RpcCall(c, "queued") \/ LoopbackCall(c, "begin")
    /\ UNCHANGED <<service, locking, library, catOf, tracking, blobs, crashed, restarts>>

\* A handler thread of srv.async_run(n - 1) or srv.run() takes the next call
Take ==
    /\ queue # <<>> /\ Cardinality(Busy) < HandlerThreads
    /\ LET c == Head(queue) IN Moves(c, IF pc[c] = "queued" THEN "begin" ELSE "erase")
    /\ queue' = Tail(queue)
    /\ UNCHANGED <<service, op, locking, library, catOf, tracking, blobs, crashed, restarts>>

ClaimThreadUnguardedMutant(c) ==
    /\ pc[c] = "begin" /\ op[c].kind = "resolve"
    /\ Moves(c, IF op[c].lock THEN "lock" ELSE "prepare")
    /\ UNCHANGED <<service, op, queue, locking, library, catOf, tracking, blobs, crashed,
                   restarts>>
\* claim_thread(): the guard stops short of the last free handler thread
ClaimThread(c) ==
    /\ pc[c] = "begin" /\ op[c].kind = "resolve"
    /\ IF service = "rpclib" /\ freeThreads = 0
       THEN Moves(c, "refused") /\ freeThreads' = freeThreads
       ELSE /\ Moves(c, IF op[c].lock THEN "lock" ELSE "prepare")
            /\ freeThreads' = IF service = "rpclib" THEN freeThreads - 1 ELSE freeThreads
    /\ UNCHANGED <<service, op, queue, lockTable, nextLock, lockOf, library, catOf, tracking,
                   blobs, crashed, restarts>>

\* ~thread_pool_claim(), on every way out of handle_resolve_sync()
ReleaseThread == freeThreads' = IF service = "rpclib" THEN freeThreads + 1 ELSE freeThreads

\* The error of the guard looks retryable, and the client calls again
Retry(c) ==
    /\ pc[c] = "refused"
    /\ RpcCall(c, "queued")
    /\ UNCHANGED <<service, op, locking, library, catOf, tracking, blobs, crashed, restarts>>

-----------------------------------------------------------------------------
(* Cache record locks *)

\* alloc_cache_record_lock() enters the mutex; a release at work does not hold it
AllocBegins(c) ==
    /\ pc[c] = "lock" /\ At("locking") = {}
    /\ Moves(c, "locking") /\ MayCrash(At("erasing") # {})
    /\ UNCHANGED <<service, op, queue, locking, library, catOf, tracking, blobs, restarts>>

AllocateLock(c) ==
    /\ pc[c] = "locking"
    /\ lockTable' = lockTable \cup {nextLock}
    /\ lockOf' = [lockOf EXCEPT ![c] = nextLock]
    /\ nextLock' = nextLock + 1
    /\ Moves(c, "prepare")
    /\ UNCHANGED <<service, op, queue, freeThreads, library, catOf, tracking, blobs, crashed,
                   restarts>>

\* The client drops the lock it was given with the answer
SendRelease(c) ==
    /\ pc[c] = "answered" /\ lockOf[c] # 0
    /\ RpcCall(c, "relqueued") \/ LoopbackCall(c, "erase")
    /\ UNCHANGED <<service, op, locking, library, catOf, tracking, blobs, crashed, restarts>>

\* release_cache_record_lock() erases without the mutex
EraseBegins(c) ==
    /\ pc[c] = "erase"
    /\ Moves(c, "erasing") /\ MayCrash(At("erasing") \cup At("locking") # {})
    /\ UNCHANGED <<service, op, queue, locking, library, catOf, tracking, blobs, restarts>>

EraseLockAllMutant(c) ==
    /\ pc[c] = "erasing"
    /\ lockTable' = {l \in lockTable : l < lockOf[c]}
    /\ Moves(c, "released")
    /\ UNCHANGED <<service, op, queue, freeThreads, nextLock, lockOf, library, catOf, tracking,
                   blobs, crashed, restarts>>
EraseLock(c) ==
    /\ pc[c] = "erasing"
    /\ lockTable' = lockTable \ {lockOf[c]}
    /\ Moves(c, "released")
    /\ UNCHANGED <<service, op, queue, freeThreads, nextLock, lockOf, library, catOf, tracking,
                   blobs, crashed, restarts>>

-----------------------------------------------------------------------------
(* A synchronous resolution *)

\* ~coawait_introspection(): the tasklet has finished, whatever the outcome
FinishTasklet(c) == tasklet' = [tasklet EXCEPT ![c] = IF op[c].tasklet THEN "finished" ELSE @]

\* The handler gives up: the claim goes back, the lock that was allocated stays
Fails(c) ==
    /\ Moves(c, "failed") /\ ReleaseThread /\ FinishTasklet(c)
    /\ UNCHANGED <<lockTable, nextLock, lockOf>>

\* The context is made; the client's tasklet is a placeholder, finished from the start
Prepare(c) ==
    /\ pc[c] = "prepare" /\ Moves(c, "find")
    /\ tracker' = [tracker EXCEPT ![c] = IF op[c].tasklet THEN "finished" ELSE @]
    /\ UNCHANGED <<service, op, queue, locking, library, catOf, tasklet, blobs, crashed,
                   restarts>>

\* find_entry() answers with a reference to the front entry and unlocks
FindEntry(c) == catOf' = [catOf EXCEPT ![c] = Head(entries[op[c].uuid])]

\* coawait_introspection starts the tasklet, on behalf of a tracker that may be deleted
StartTasklet(c) ==
    tasklet' = [tasklet EXCEPT ![c] = IF op[c].tasklet THEN "running" ELSE @]

\* find_resolver()
Lookup(c) ==
    /\ pc[c] = "find"
    /\ IF entries[op[c].uuid] = <<>>
       THEN Fails(c) /\ UNCHANGED catOf
       ELSE StartTasklet(c) /\ FindEntry(c) /\ Moves(c, "found") /\ UNCHANGED locking
    /\ MayCrash(tracker[c] = "deleted")
    /\ UNCHANGED <<service, op, queue, library, tracker, blobs, restarts>>

\* The resolver is taken from the entry, which may have been erased in between, and
\* deserializes the request: create_impl() looks the uuid up once more
UseEntry(c) ==
    /\ pc[c] = "found"
    /\ catOf' = [catOf EXCEPT ![c] = 0]
    /\ MayCrash(~Contains(entries[op[c].uuid], catOf[c]))
    /\ IF entries[op[c].uuid] = <<>>
       THEN Fails(c)
       ELSE Moves(c, "run") /\ UNCHANGED <<locking, tasklet>>
    /\ UNCHANGED <<service, op, queue, library, tracker, blobs, restarts>>

\* The function asks for a blob file: a name no file has, and then the file itself
AllocateFile(c) ==
    /\ pc[c] = "run" /\ blobOf[c] = 0 /\ nextFile <= MaxFiles
    /\ blobOf' = [blobOf EXCEPT ![c] = nextFile]
    /\ nextFile' = nextFile + 1
    /\ Moves(c, "file")
    /\ UNCHANGED <<service, op, queue, locking, library, catOf, tracking, files, crashed,
                   restarts>>

\* blob_file_writer's constructor truncates whatever has the name
CreateFile(c) ==
    /\ pc[c] = "file" /\ Moves(c, "run")
    /\ files' = [f \in DOMAIN files \cup {blobOf[c]} |-> IF f = blobOf[c] THEN c ELSE files[f]]
    /\ UNCHANGED <<service, op, queue, locking, library, catOf, tracking, nextFile, blobOf,
                   crashed, restarts>>

\* The resolution comes back, or throws; nothing bounds how long it runs
Return(c) ==
    /\ pc[c] = "run" /\ Moves(c, "complete") /\ FinishTasklet(c)
    /\ UNCHANGED <<service, op, queue, locking, library, catOf, tracker, blobs, crashed,
                   restarts>>
Throw(c) ==
    /\ pc[c] = "run" /\ Fails(c)
    /\ UNCHANGED <<service, op, queue, library, catOf, tracker, blobs, crashed, restarts>>

\* on_value_complete() flushes the tracked files; the response leaves
Complete(c) ==
    /\ pc[c] = "complete"
    /\ Moves(c, "answered") /\ ReleaseThread
    /\ UNCHANGED <<service, op, queue, lockTable, nextLock, lockOf, library, catOf, tracking,
                   blobs, crashed, restarts>>

-----------------------------------------------------------------------------
(* Shared libraries and the registry *)

\* seri_registry::add(): a catalog's second registration of a uuid is ignored
DetectDuplicate(u, cat) == Contains(entries[u], cat)
Add(u, cat) ==
    entries' = [entries EXCEPT ![u] = IF DetectDuplicate(u, cat) THEN @ ELSE <<cat>> \o @]

\* unregister_catalog() as it would be if it looked at the front of each list only
UnregisterFrontMutant(cat) ==
    entries' = [u \in Uuids |-> IF entries[u] # <<>> /\ Head(entries[u]) = cat
                                THEN Tail(entries[u]) ELSE entries[u]]
\* unregister_catalog(): every entry of the catalog goes, of whatever uuid. (Without is
\* a recursive function because TLAPS knows nothing of SelectSeq.)
Without(s, cat) ==
    LET kept[i \in 0..Len(s)] == IF i = 0 THEN <<>>
                                 ELSE IF s[i] = cat THEN kept[i - 1]
                                 ELSE Append(kept[i - 1], s[i])
    IN  kept[Len(s)]
Unregister(cat) == entries' = [u \in Uuids |-> Without(entries[u], cat)]

\* dll_collection::load() takes the mutex; a library that is loaded stays as it is
LoadBegins(c) ==
    /\ pc[c] = "begin" /\ op[c].kind = "load" /\ dllMutex = {}
    /\ IF controllers[op[c].dll] # 0
       THEN Moves(c, "answered") /\ dllMutex' = dllMutex
       ELSE Moves(c, "open") /\ dllMutex' = {c}
    /\ UNCHANGED <<service, op, queue, locking, controllers, nextCat, entries, registered,
                   catOf, tracking, blobs, crashed, restarts>>

\* dll_controller::load(): the file or its capabilities are missing
OpenFails(c) ==
    /\ pc[c] = "open" /\ Moves(c, "failed") /\ dllMutex' = {}
    /\ UNCHANGED <<service, op, queue, locking, controllers, nextCat, entries, registered,
                   catOf, tracking, blobs, crashed, restarts>>

\* create_seri_catalog(): the catalog gets its id
Open(c) ==
    /\ pc[c] = "open" /\ Moves(c, "register")
    /\ catOf' = [catOf EXCEPT ![c] = nextCat]
    /\ nextCat' = nextCat + 1
    /\ UNCHANGED <<service, op, queue, locking, dllMutex, controllers, entries, registered,
                   tracking, blobs, crashed, restarts>>

\* The catalog's constructor registers its resolvers one by one ...
Register(c) ==
    /\ pc[c] = "register" /\ registered[c] < Len(UuidsOf[op[c].dll])
    /\ Add(UuidsOf[op[c].dll][registered[c] + 1], catOf[c])
    /\ registered' = [registered EXCEPT ![c] = @ + 1]
    /\ UNCHANGED <<service, pc, op, queue, locking, dllMutex, controllers, nextCat, catOf,
                   tracking, blobs, crashed, restarts>>

\* The load is over, and its locals are gone
Forgets(c) ==
    /\ catOf' = [catOf EXCEPT ![c] = 0]
    /\ registered' = [registered EXCEPT ![c] = 0]

\* ... and when one of them throws, its destructor takes back the earlier ones
RegisterFails(c) ==
    /\ pc[c] = "register" /\ registered[c] < Len(UuidsOf[op[c].dll])
    /\ Unregister(catOf[c])
    /\ dllMutex' = {} /\ Moves(c, "failed") /\ Forgets(c)
    /\ UNCHANGED <<service, op, queue, locking, controllers, nextCat, tracking, blobs, crashed,
                   restarts>>

LoadEnds(c) ==
    /\ pc[c] = "register" /\ registered[c] = Len(UuidsOf[op[c].dll])
    /\ controllers' = [controllers EXCEPT ![op[c].dll] = catOf[c]]
    /\ dllMutex' = {} /\ Moves(c, "answered") /\ Forgets(c)
    /\ UNCHANGED <<service, op, queue, locking, nextCat, entries, tracking, blobs, crashed,
                   restarts>>

\* dll_collection::unload(): the controller goes, and its catalog with it; the
\* library itself stays mapped, in the trash
Unload(c) ==
    /\ pc[c] = "begin" /\ op[c].kind = "unload" /\ dllMutex = {}
    /\ IF controllers[op[c].dll] = 0
       THEN Moves(c, "failed") /\ UNCHANGED <<entries, controllers>>
       ELSE /\ Unregister(controllers[op[c].dll])
            /\ controllers' = [controllers EXCEPT ![op[c].dll] = 0]
            /\ Moves(c, "answered")
    /\ UNCHANGED <<service, op, queue, locking, dllMutex, nextCat, registered, catOf,
                   tracking, blobs, crashed, restarts>>

-----------------------------------------------------------------------------
(* Tasklets, stored requests, restarts *)

\* get_tasklet_infos() reads the id of every listed tasklet's client
GetTaskletInfos(c) ==
    /\ pc[c] = "begin" /\ op[c].kind = "infos" /\ Moves(c, "answered")
    /\ MayCrash(\E d \in Calls : tasklet[d] \in {"running", "finished"} /\ tracker[d] = "deleted")
    /\ UNCHANGED <<service, op, queue, locking, library, catOf, tracking, blobs, restarts>>

\* clear_info() deletes what is finished: the placeholders of clients always are
ClearInfo(c) ==
    /\ pc[c] = "begin" /\ op[c].kind = "clear" /\ Moves(c, "answered")
    /\ tracker' = [d \in Calls |-> IF tracker[d] = "finished" THEN "deleted" ELSE tracker[d]]
    /\ tasklet' = [d \in Calls |-> IF tasklet[d] = "finished" THEN "deleted" ELSE tasklet[d]]
    /\ UNCHANGED <<service, op, queue, locking, library, catOf, blobs, crashed, restarts>>

\* A request is written to the storage before the call is answered
StoreRequest(c) ==
    /\ pc[c] = "begin" /\ op[c].kind = "store" /\ Moves(c, "answered")
    /\ UNCHANGED <<service, op, queue, locking, library, catOf, tracking, blobs, crashed,
                   restarts>>

\* scan_directory(): a number above that of every blob file there is
ScanDirectoryMutant == Max(DOMAIN files \cup {1})
ScanDirectory == Max(DOMAIN files \cup {0}) + 1

\* The server process stops, or has crashed, and a new one starts: its tables are
\* empty, the blob files are still there, and every connection is lost
Restart ==
    /\ service = "rpclib" /\ restarts < MaxRestarts
    /\ restarts' = restarts + 1 /\ crashed' = FALSE
    /\ LET lost == {c \in Calls : pc[c] \notin (Ended \cup {"idle"}) \/ lockOf[c] # 0}
       IN  /\ pc' = [c \in Calls |-> IF c \in lost THEN "lost" ELSE pc[c]]
           /\ op' = [c \in Calls |-> IF c \in lost THEN NoOp ELSE op[c]]
           /\ blobOf' = [c \in Calls |-> IF c \in lost THEN 0 ELSE blobOf[c]]
    /\ queue' = <<>>
    /\ freeThreads' = PoolGuard
    /\ lockTable' = {} /\ nextLock' = 1
    /\ lockOf' = [c \in Calls |-> 0]
    /\ dllMutex' = {} /\ controllers' = [d \in Dlls |-> 0] /\ nextCat' = 1
    /\ entries' = [u \in Uuids |-> <<>>]
    /\ catOf' = [c \in Calls |-> 0] /\ registered' = [c \in Calls |-> 0]
    /\ tracker' = [c \in Calls |-> "none"] /\ tasklet' = [c \in Calls |-> "none"]
    /\ nextFile' = ScanDirectory
    /\ UNCHANGED <<service, files>>

-----------------------------------------------------------------------------

\* Steps of a handler thread that the code takes by itself
ThreadStep(c) ==
    \/ ClaimThread(c) \/ AllocBegins(c) \/ AllocateLock(c) \/ EraseBegins(c) \/ EraseLock(c)
    \/ Prepare(c) \/ Lookup(c) \/ UseEntry(c) \/ CreateFile(c) \/ Complete(c)
    \/ LoadBegins(c) \/ Open(c) \/ OpenFails(c) \/ Register(c) \/ RegisterFails(c)
    \/ LoadEnds(c) \/ Unload(c) \/ GetTaskletInfos(c) \/ ClearInfo(c) \/ StoreRequest(c)

\* Steps of a function and of a client: nothing says that they are ever taken
OtherStep(c) ==
    \/ Send(c) \/ Retry(c) \/ SendRelease(c)
    \/ AllocateFile(c) \/ Return(c) \/ Throw(c)

Next ==
    \/ ~crashed /\ (Take \/ \E c \in Calls : ThreadStep(c) \/ OtherStep(c))
    \/ Restart

Spec == Init /\ [][Next]_vars
        /\ WF_vars(~crashed /\ Take)
        /\ \A c \in Calls : WF_vars(~crashed /\ ThreadStep(c))

-----------------------------------------------------------------------------
(* Properties *)

\* A call that is not a resolution is answered although every resolution may run for
\* ever: claim_thread() keeps a handler thread free of them, and a client can always
\* cancel, release a lock or unload a library.
PingAnswered ==
    \A c \in Calls :
        (pc[c] = "relqueued" \/ (pc[c] = "queued" /\ op[c].kind # "resolve"))
            ~> (pc[c] \in Ended \/ crashed)

\* Outside of undefined behaviour, the locks in the table are those of the calls that
\* got one, each its own, until the client releases it: a resolution that fails after
\* alloc_cache_record_lock() keeps its lock for good, and no other lock ever leaks.
LocksExact ==
    LET kept == {c \in Calls : lockOf[c] # 0 /\ pc[c] # "released"}
    IN  ~crashed => /\ lockTable = {lockOf[c] : c \in kept}
                    /\ \A c, d \in kept : c # d => lockOf[c] # lockOf[d]

\* The registry holds, for each uuid, the entries of the loaded libraries that offer it
\* and of the one that is being loaded as far as it got, each once and the latest first:
\* a failed load and an unload leave nothing behind and take nothing of another library.
RegistryExact ==
    \A u \in Uuids :
        LET loaded  == {controllers[d] : d \in {e \in Dlls : controllers[e] # 0
                                                        /\ Contains(UuidsOf[e], u)}}
            loading == {catOf[c] : c \in {d \in At("register") :
                            \E i \in 1..registered[d] : UuidsOf[op[d].dll][i] = u}}
        IN  /\ ToSet(entries[u]) = loaded \cup loading
            /\ \A i, j \in DOMAIN entries[u] : i < j => entries[u][i] > entries[u][j]

\* A blob file that an answered value refers to keeps the contents its call wrote, also
\* when the server restarts in the same directory: no later writer gets its name.
AnsweredBlobIntact ==
    \A c \in Calls : (pc[c] = "answered" /\ blobOf[c] # 0) =>
        blobOf[c] \in DOMAIN files /\ files[blobOf[c]] = c

\* The shapes of the variables
ServicesTypeOK ==
    /\ service \in {"rpclib", "loopback"}
    /\ pc \in [Calls -> OnThread \cup Ended \cup {"idle", "queued", "relqueued"}]
    /\ op \in [Calls -> Ops \cup {NoOp}]
    /\ queue \in Seq(Calls)
    /\ freeThreads \in 0..(HandlerThreads - 1)
    /\ dllMutex \in SUBSET Calls /\ Cardinality(dllMutex) <= 1
    /\ entries \in [Uuids -> Seq(Nat)]
    /\ tracker \in [Calls -> {"none", "finished", "deleted"}]
    /\ tasklet \in [Calls -> {"none", "running", "finished", "deleted"}]
    /\ crashed \in BOOLEAN
====
