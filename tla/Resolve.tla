------------------------------ MODULE Resolve ------------------------------
(***************************************************************************)
(* Local resolution of cached requests (inner/resolve/resolve_impl.h and   *)
(* resolve_request.h) on top of the memory cache.                          *)
(*                                                                         *)
(* A client of the cache is a coroutine frame of resolve_request_cached(): *)
(* it creates a ptr, possibly puts a lock on the record, awaits the        *)
(* record's shared_task, reads the value and destroys the ptr.  A frame    *)
(* whose ptr gave the record its task also owns that task: the task refers *)
(* to the frame's ptr, context and request.  The task runs when some frame *)
(* first awaits it, not necessarily its owner; it looks in the secondary   *)
(* cache, resolves the subrequests in frames of their own, calls the       *)
(* request's function and records the outcome.  A retryable request is     *)
(* resolved again, with the same lock, after a retryable failure.          *)
(***************************************************************************)
EXTENDS ImmutableCache

CONSTANTS
    KeyOf,        \* the request each frame resolves
    ParentOf,     \* the frame whose request this one's is an argument of
    WantsLock,    \* frames that are given a lock_ptr
    FullyCached,  \* requests that use the secondary cache too
    CanFail,      \* requests whose function may throw a retryable exception
    ValueOf,      \* the digest of the value of a request
    MaxAttempts,  \* backoff_retrier_base::max_attempts_, or 1
    MaxRuns,      \* bound on how often a frame starts resolving
    NoTask

Tasks == Clients \X (0 .. MaxRuns)  \* the task made in a frame's n-th run
Subs(c) == {s \in Clients : ParentOf[s] = c}
Roots == {c \in Clients : ParentOf[c] = NoClient}

ASSUME FramesAssumption ==
    /\ KeyOf \in [Clients -> Keys]
    /\ ParentOf \in [Clients -> Clients \cup {NoClient}]
    /\ ValueOf \in [Keys -> Digests]
    /\ WantsLock \subseteq Roots
    /\ MaxAttempts \in Nat \ {0} /\ MaxRuns \in Nat

VARIABLES
    pc,        \* where a frame is
    run,       \* how often a frame started resolving
    attempt,   \* the attempt counter of resolve_request_with_retry()
    rec_task,  \* the task object that a record has
    tstate,    \* how far each task is
    awaited,   \* the task that a frame awaits
    result,    \* the value that a frame returned
    stored     \* the requests whose value is in the secondary cache

resolve_vars == <<pc, run, attempt, rec_task, tstate, awaited, result, stored>>
all_vars     == <<vars, resolve_vars>>

FrameStates == {"idle", "locking", "ensure", "waiting", "throwing",
                "delay", "done", "failed"}
TaskStates  == {"none", "created", "reading", "computing", "recording",
                "recorded", "failing", "succeeded", "failed"}
Active      == {"reading", "computing", "recording", "recorded", "failing"}
Ended       == {"succeeded", "failed"}

ResolveTypeOK ==
    /\ pc \in [Clients -> FrameStates]
    /\ run \in [Clients -> 0 .. MaxRuns]
    /\ attempt \in [Clients -> 0 .. MaxAttempts - 1]
    /\ rec_task \in [Keys -> Tasks \cup {NoTask}]
    /\ tstate \in [Tasks -> TaskStates]
    /\ awaited \in [Clients -> Tasks \cup {NoTask}]
    /\ result \in [Clients -> Digests \cup {NoDigest}]
    /\ stored \subseteq FullyCached

ResolveInit ==
    /\ Init
    /\ pc = [c \in Clients |-> "idle"]
    /\ run = [c \in Clients |-> 0]
    /\ attempt = [c \in Clients |-> 0]
    /\ rec_task = [k \in Keys |-> NoTask]
    /\ tstate = [t \in Tasks |-> "none"]
    /\ awaited = [c \in Clients |-> NoTask]
    /\ result = [c \in Clients |-> NoDigest]
    /\ stored = {}

\* The task that a frame's present run may have made.
Current(c) == <<c, run[c]>>

-----------------------------------------------------------------------------
(* A frame of resolve_request_cached().                                    *)

\* The frame may begin: a root at any time, a subrequest's frame when the
\* task of its parent has come to resolving the arguments.
MayBegin(c) ==
    \/ pc[c] = "delay"
    \/ /\ pc[c] = "idle"
       /\ \/ c \in Roots
          \/ \E p \in Clients :
                p = ParentOf[c] /\ tstate[Current(p)] = "computing"

\* Creates the ptr, and the record's task if the cache asks for one.
create_ptr(c) ==
    LET k == KeyOf[c]
        t == <<c, run[c] + 1>>
    IN  /\ MayBegin(c)
        /\ run[c] < MaxRuns
        /\ acquire_cache_record(c, k)
        /\ run' = [run EXCEPT ![c] = @ + 1]
        /\ attempt' = [attempt EXCEPT ![c] = IF pc[c] = "delay" THEN @ + 1 ELSE 0]
        /\ IF NeedsTask(k)
           THEN /\ rec_task' = [rec_task EXCEPT ![k] = t]
                /\ tstate' = [tstate EXCEPT ![t] = "created"]
           ELSE UNCHANGED <<rec_task, tstate>>
        /\ pc' = [pc EXCEPT ![c] = IF c \in WantsLock THEN "locking"
                                                      ELSE "ensure"]
        /\ UNCHANGED <<awaited, result, stored>>

\* lock_ptr->set_record().  If the lock_ptr has a record already, it throws
\* logic_error; the second local_locked_cache_record, made and destroyed
\* meanwhile, leaves the counts as they were.
set_record(c) ==
    /\ pc[c] = "locking"
    /\ IF lock[c] = NoKey
       THEN /\ lock_record(c)
            /\ pc' = [pc EXCEPT ![c] = "ensure"]
       ELSE /\ pc' = [pc EXCEPT ![c] = "throwing"]
            /\ UNCHANGED vars
    /\ UNCHANGED <<run, attempt, rec_task, tstate, awaited, result, stored>>

\* co_await ptr.ensure_value_task().  The first frame to await the task runs
\* it, until its first suspension; its subrequests' frames start afresh.
ensure_value_task(c) ==
    LET t == rec_task[KeyOf[c]] IN
    /\ pc[c] = "ensure"
    /\ awaited' = [awaited EXCEPT ![c] = t]
    /\ IF tstate[t] = "created"
       THEN /\ tstate' = [tstate EXCEPT ![t] =
                   IF KeyOf[c] \in FullyCached THEN "reading" ELSE "computing"]
            /\ pc' = [s \in Clients |-> IF s = c THEN "waiting"
                                        ELSE IF s \in Subs(t[1]) THEN "idle"
                                        ELSE pc[s]]
       ELSE /\ pc' = [pc EXCEPT ![c] = "waiting"]
            /\ UNCHANGED tstate
    /\ UNCHANGED <<vars, run, attempt, rec_task, result, stored>>

get_value_when_ready(c) ==
    /\ pc[c] = "waiting"
    /\ state[KeyOf[c]] = "READY"
    /\ result' = [result EXCEPT ![c] = cas_record[KeyOf[c]]]
    /\ release_ptr(c)
    /\ awaited' = [awaited EXCEPT ![c] = NoTask]
    /\ pc' = [pc EXCEPT ![c] = "done"]
    /\ UNCHANGED <<run, attempt, rec_task, tstate, stored>>
get_value_in_owner(c) ==
    /\ pc[c] = "waiting"
    /\ tstate[awaited[c]] = "succeeded" /\ awaited[c][1] = c
    /\ result' = [result EXCEPT ![c] = cas_record[KeyOf[c]]]
    /\ release_ptr(c)
    /\ awaited' = [awaited EXCEPT ![c] = NoTask]
    /\ pc' = [pc EXCEPT ![c] = "done"]
    /\ UNCHANGED <<run, attempt, rec_task, tstate, stored>>
\* The awaited task succeeded: the frame returns the record's value and
\* destroys its ptr.
get_value(c) ==
    /\ pc[c] = "waiting"
    /\ tstate[awaited[c]] = "succeeded"
    /\ result' = [result EXCEPT ![c] = cas_record[KeyOf[c]]]
    /\ release_ptr(c)
    /\ awaited' = [awaited EXCEPT ![c] = NoTask]
    /\ pc' = [pc EXCEPT ![c] = "done"]
    /\ UNCHANGED <<run, attempt, rec_task, tstate, stored>>

\* backoff_retrier_base::attempt_retry() lets the request be tried again.
RetriesLeft(c) == attempt[c] + 1 < MaxAttempts

\* The awaited task failed: the exception destroys the ptr.  The request's
\* retrier lets it through after the last attempt.
rethrow(c) ==
    /\ pc[c] = "waiting"
    /\ tstate[awaited[c]] = "failed"
    /\ release_ptr(c)
    /\ awaited' = [awaited EXCEPT ![c] = NoTask]
    /\ pc' = [pc EXCEPT ![c] = IF RetriesLeft(c) THEN "delay" ELSE "failed"]
    /\ UNCHANGED <<run, attempt, rec_task, tstate, result, stored>>

\* A logic_error is not retried: the frame destroys its ptr and fails.
throw_logic_error(c) ==
    /\ pc[c] = "throwing"
    /\ release_ptr(c)
    /\ pc' = [pc EXCEPT ![c] = "failed"]
    /\ UNCHANGED <<run, attempt, rec_task, tstate, awaited, result, stored>>

\* The caller of resolve_request() destroys its cache_record_lock.
destroy_lock(c) ==
    /\ pc[c] \in {"done", "failed"}
    /\ unlock_record(c)
    /\ UNCHANGED resolve_vars

-----------------------------------------------------------------------------
(* The task resolve_request_on_memory_cache_miss().                        *)

\* secondary_cached_blob() looks the value up.  A stored value may not be
\* found (yet): storing is asynchronous and entries are evicted.
secondary_read(t) ==
    /\ tstate[t] = "reading"
    /\ \/ KeyOf[t[1]] \in stored /\ tstate' = [tstate EXCEPT ![t] = "recording"]
       \/ tstate' = [tstate EXCEPT ![t] = "computing"]
    /\ UNCHANGED <<vars, pc, run, attempt, rec_task, awaited, result, stored>>

\* The arguments are resolved by when_all(), which waits for all of them even
\* if some fail.
ArgsEnded(c) == \A s \in Subs(c) : pc[s] \in {"done", "failed"}
ArgsFailed(c) == \E s \in Subs(c) : pc[s] = "failed"

\* All arguments are resolved and the function returns its value, which goes
\* to the secondary cache.
compute_value(t) ==
    LET k == KeyOf[t[1]] IN
    /\ tstate[t] = "computing"
    /\ ArgsEnded(t[1]) /\ ~ArgsFailed(t[1])
    /\ tstate' = [tstate EXCEPT ![t] = "recording"]
    /\ stored' = IF k \in FullyCached THEN stored \cup {k} ELSE stored
    /\ UNCHANGED <<vars, pc, run, attempt, rec_task, awaited, result>>

\* The value goes into the memory cache.
record_value(t) ==
    /\ tstate[t] = "recording"
    /\ record_value_untyped(t[1], ValueOf[KeyOf[t[1]]])
    /\ tstate' = [tstate EXCEPT ![t] = "recorded"]
    /\ UNCHANGED <<pc, run, attempt, rec_task, awaited, result, stored>>

\* An argument failed, or the function threw: ptr.record_failure().
fail(t) ==
    LET c == t[1] IN
    /\ tstate[t] = "computing"
    /\ ArgsEnded(c)
    /\ KeyOf[c] \in CanFail \/ ArgsFailed(c)
    /\ record_failure(c)
    /\ tstate' = [tstate EXCEPT ![t] = "failing"]
    /\ UNCHANGED <<pc, run, attempt, rec_task, awaited, result, stored>>

\* The task's coroutine reaches its final suspension point.
final_suspend(t) ==
    /\ tstate[t] \in {"recorded", "failing"}
    /\ tstate' = [tstate EXCEPT ![t] =
                     IF @ = "recorded" THEN "succeeded" ELSE "failed"]
    /\ UNCHANGED <<vars, pc, run, attempt, rec_task, awaited, result, stored>>

-----------------------------------------------------------------------------

FrameStep(c) ==
    \/ create_ptr(c) \/ set_record(c) \/ ensure_value_task(c)
    \/ get_value(c) \/ rethrow(c) \/ throw_logic_error(c)

TaskStep(t) ==
    \/ secondary_read(t) \/ compute_value(t) \/ record_value(t)
    \/ fail(t) \/ final_suspend(t)

clear_cache == clear_unused_entries /\ UNCHANGED resolve_vars

ResolveNext ==
    \/ \E c \in Clients : FrameStep(c) \/ destroy_lock(c)
    \/ \E t \in Tasks : TaskStep(t)
    \/ clear_cache

\* A coroutine that can go on does: threads are available and functions
\* return.
ResolveSpec ==
    /\ ResolveInit /\ [][ResolveNext]_all_vars
    /\ \A c \in Clients : WF_all_vars(FrameStep(c))
    /\ \A t \in Tasks : WF_all_vars(TaskStep(t))

-----------------------------------------------------------------------------
(* Requests that are retried with a lock.                                  *)

\* A set of requests that never fail, and whose arguments never do.
Reliable(K) ==
    \A c \in Clients : KeyOf[c] \in K =>
        KeyOf[c] \notin CanFail /\ \A s \in Subs(c) : KeyOf[s] \in K
CannotFail == {k \in Keys : \E K \in SUBSET Keys : k \in K /\ Reliable(K)}

\* A frame that is given a lock and may be retried is the only one that
\* resolves its request.  If it were not, the second attempt would give the
\* record a task, find the lock taken and throw, and another frame would run
\* that task after its ptr, context and request are gone (resolve_impl.h:142).
RetriedAlone ==
    \A c \in WantsLock :
        \/ MaxAttempts = 1
        \/ KeyOf[c] \in CannotFail
        \/ \A d \in Clients : KeyOf[d] = KeyOf[c] => d = c

-----------------------------------------------------------------------------
(* Properties.                                                             *)

\* ctx, req and ptr outlive the task that refers to them (resolve_impl.h:100,
\* ptr.cpp:8), although any frame may run it: the owner is still in the run
\* that made the task until the task is over.  A task that has recorded its
\* failure only rethrows, and refers to none of them any more.
OwnerOutlivesTask ==
    \A t \in Tasks :
        tstate[t] \in Active \ {"failing"} =>
            ptr[t[1]] = KeyOf[t[1]] /\ run[t[1]] = t[2]

\* A request is being computed at most once at any time, however many frames
\* and trees ask for it.
ComputedOnce ==
    \A t, u \in Tasks :
        /\ KeyOf[t[1]] = KeyOf[u[1]]
        /\ tstate[t] \in Active \ {"failing"} /\ tstate[u] \in Active \ {"failing"}
        => t = u

\* A resolution that succeeds returns the value of its request, whoever
\* computed it and whatever was evicted meanwhile.
ReturnsValue ==
    \A c \in Clients : pc[c] = "done" => result[c] = ValueOf[KeyOf[c]]

\* A client that holds a lock after resolving its request finds the result in
\* the cache when it resolves it again (lock.h:20-22).
LockedResultReady ==
    \A c \in Clients :
        pc[c] = "done" /\ lock[c] # NoKey
            => lock[c] = KeyOf[c] /\ state[KeyOf[c]] = "READY"

\* Frames that share the tasks of cache records do so safely: a task runs
\* only while what it refers to exists, every frame returns the value of its
\* own request, and a locked result stays in the cache.
SharedSafely ==
    ResolveTypeOK /\ OwnerOutlivesTask /\ ReturnsValue /\ LockedResultReady

\* Frames that share tasks never wait for each other forever: each root
\* resolution that begins comes to an end.
EveryResolutionEnds ==
    \A c \in Roots : run[c] > 0 ~> pc[c] \in {"done", "failed"}
=============================================================================
