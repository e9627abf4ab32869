------------------------------ MODULE Contexts -------------------------------
(***************************************************************************)
(* Contexts as resolve_request() sees them: the interfaces that a class     *)
(* implements, the casts between them, the choice between local and remote  *)
(* resolution, retries, and the roots that a context which can be used more *)
(* than once makes for each resolution.                                     *)
(***************************************************************************)
EXTENDS Naturals, Sequences, FiniteSets

-----------------------------------------------------------------------------
(* Interfaces and classes *)

\* An interface with the ones that it extends
local_async_context_intf == {"local", "async", "local_async"}
root_local_async_context_intf == local_async_context_intf \cup {"root_local_async"}
remote_async_context_intf == {"remote", "async", "remote_async"}
caching_context_intf == {"local", "caching"}
introspective_context_intf == {"introspective"}
local_sync_context_intf == {"local", "sync"}
local_async_ctx_owner_intf == {"local_owner"}
remote_async_ctx_owner_intf == {"remote_owner"}

sync_context_base ==
    local_sync_context_intf \cup {"remote"} \cup caching_context_intf \cup introspective_context_intf
local_async_context_base ==
    local_async_context_intf \cup caching_context_intf \cup introspective_context_intf
root_local_async_context_base == local_async_context_base \cup root_local_async_context_intf
proxy_async_context_base == remote_async_context_intf
atst_context ==
    root_local_async_context_intf \cup remote_async_context_intf
        \cup local_async_ctx_owner_intf \cup remote_async_ctx_owner_intf
async_thinknode_context ==
    root_local_async_context_intf \cup remote_async_context_intf
        \cup local_async_ctx_owner_intf \cup remote_async_ctx_owner_intf

\* A context object: what its class implements, what remotely() and is_async() return,
\* and for an owner whether it is prepared and its roots; roots counts the trees that
\* were built in each root, and the number of the root is its place
IsRoot(intfs) == "async" \in intfs /\ "local_owner" \notin intfs
NewContext(intfs, proxied) ==
    [intfs |-> intfs, async |-> "async" \in intfs, prepared |-> IsRoot(intfs),
     remotely |-> IF {"local", "remote"} \subseteq intfs THEN proxied ELSE "remote" \in intfs,
     local |-> IF IsRoot(intfs) /\ "local" \in intfs THEN 1 ELSE 0,
     remote |-> IF IsRoot(intfs) /\ "remote" \in intfs THEN 1 ELSE 0,
     roots |-> IF IsRoot(intfs) THEN <<0>> ELSE <<>>]

\* A static type is [final, intfs]; the type of a final class tells everything
RemoteContext(T) == "remote" \in T.intfs
LocalContext(T) == "local" \in T.intfs
SyncContext(T) == "sync" \in T.intfs
AsyncContext(T) == "async" \in T.intfs
DefinitelyRemoteContext(T) == T.final /\ RemoteContext(T) /\ ~LocalContext(T)
DefinitelyLocalContext(T) == T.final /\ LocalContext(T) /\ ~RemoteContext(T)
DefinitelySyncContext(T) == T.final /\ SyncContext(T) /\ ~AsyncContext(T)
DefinitelyAsyncContext(T) == T.final /\ AsyncContext(T) /\ ~SyncContext(T)
ValidContext(T) ==
    T.final => (RemoteContext(T) \/ LocalContext(T)) /\ (SyncContext(T) \/ AsyncContext(T))

-----------------------------------------------------------------------------
(* Casts *)

Intf(intfs) == [final |-> FALSE, intfs |-> intfs]

throw_on_ctx_mismatch(Dest, Src, ctx) ==
    \/ /\ RemoteContext(Dest) /\ ~LocalContext(Dest) /\ ~DefinitelyRemoteContext(Src)
       /\ DefinitelyLocalContext(Src) \/ ~ctx.remotely
    \/ /\ LocalContext(Dest) /\ ~RemoteContext(Dest) /\ ~DefinitelyLocalContext(Src)
       /\ DefinitelyRemoteContext(Src) \/ ctx.remotely
    \/ /\ AsyncContext(Dest) /\ ~SyncContext(Dest) /\ ~DefinitelyAsyncContext(Src)
       /\ DefinitelySyncContext(Src) \/ ~ctx.async
    \/ /\ SyncContext(Dest) /\ ~AsyncContext(Dest) /\ ~DefinitelySyncContext(Src)
       /\ DefinitelyAsyncContext(Src) \/ ctx.async

\* No cast is needed if Src is convertible to Dest, and a dynamic one finds the object's class
cast_ctx_base(Dest, Src, ctx) == Dest.intfs \subseteq Src.intfs \/ Dest.intfs \subseteq ctx.intfs
cast_ctx_to_ptr(Dest, Src, ctx) ==
    ~throw_on_ctx_mismatch(Dest, Src, ctx) /\ cast_ctx_base(Dest, Src, ctx)
cast_ctx_to_ref(Dest, Src, ctx) ==
    ~throw_on_ctx_mismatch(Dest, Src, ctx) /\ cast_ctx_base(Dest, Src, ctx)

-----------------------------------------------------------------------------
(* Constraints *)

\* A set of "remote" or "local", "sync" or "async", and "sub"
ResolutionConstraints(c) ==
    /\ ~({"remote", "local"} \subseteq c) /\ ~({"sync", "async"} \subseteq c)
    /\ ~({"sync", "sub"} \subseteq c)
DefaultResolutionConstraints(T) ==
    {k \in {"remote", "local", "sync", "async"} :
        CASE k = "remote" -> DefinitelyRemoteContext(T) [] k = "local" -> DefinitelyLocalContext(T)
          [] k = "sync" -> DefinitelySyncContext(T) [] k = "async" -> DefinitelyAsyncContext(T)}
MatchingContextConstraints(T, c) ==
    /\ ~("remote" \in c /\ DefinitelyLocalContext(T)) /\ ~("local" \in c /\ DefinitelyRemoteContext(T))
    /\ ~("sync" \in c /\ DefinitelyAsyncContext(T)) /\ ~("async" \in c /\ DefinitelySyncContext(T))
MatchingRequestConstraints(is_proxy, c) == ~(is_proxy /\ "local" \in c)

-----------------------------------------------------------------------------
(* Owners *)

\* Each resolution gets a new root; the owner is prepared once and for all
prepare_for_local_resolution(ctx) ==
    IF ctx.remotely THEN [ctx EXCEPT !.prepared = TRUE]
    ELSE [ctx EXCEPT !.prepared = TRUE, !.local = Len(ctx.roots) + 1, !.roots = Append(@, 0)]
prepare_for_remote_resolution(ctx) ==
    IF ~ctx.remotely THEN [ctx EXCEPT !.prepared = TRUE]
    ELSE [ctx EXCEPT !.prepared = TRUE, !.remote = Len(ctx.roots) + 1, !.roots = Append(@, 0)]

\* The root that calls on the owner are passed on to; 0 if they wait or throw
get_async_root(ctx) == IF ~ctx.prepared THEN 0 ELSE IF ctx.remotely THEN ctx.remote ELSE ctx.local

-----------------------------------------------------------------------------
(* Resolution: the context afterwards, and the way that was taken with the root *)

Populated(ctx, root) ==
    IF root \in DOMAIN ctx.roots THEN [ctx EXCEPT !.roots[root] = @ + 1] ELSE ctx

\* An async root is prepared and populated on the first try
PreparesRoot_always(ctx, retrying, c) == "sub" \notin c /\ "sync" \notin c /\ ("async" \in c \/ ctx.async)
PreparesRoot(ctx, retrying, c) ==
    "sub" \notin c /\ "sync" \notin c /\ ("async" \in c \/ ctx.async) /\ ~retrying

resolve_request_local(ctx, retrying, c) ==
    LET L == Intf({"local"})
        prepares == PreparesRoot(ctx, retrying, c)
        owner == cast_ctx_to_ptr(Intf(local_async_ctx_owner_intf), L, ctx)
        new == IF prepares /\ owner THEN prepare_for_local_resolution(ctx) ELSE ctx
        populates == prepares /\ (owner \/ cast_ctx_to_ptr(Intf(root_local_async_context_intf), L, ctx))
    IN  [ctx |-> IF populates THEN Populated(new, new.local) ELSE new,
         way |-> "local", root |-> new.local, builds |-> populates]

resolve_request_remote(ctx) ==
    LET new == IF cast_ctx_to_ptr(Intf(remote_async_ctx_owner_intf), Intf({"remote"}), ctx)
               THEN prepare_for_remote_resolution(ctx) ELSE ctx
    IN  [ctx |-> new, way |-> "remote", root |-> new.remote, builds |-> FALSE]

resolve_request_one_try(T, ctx, is_proxy, retrying, c) ==
    LET remote == is_proxy \/ "remote" \in c \/ ("local" \notin c /\ ctx.remotely)
        dest == Intf(IF remote THEN {"remote"} ELSE {"local"})
    IN  IF ~cast_ctx_to_ref(dest, T, ctx) THEN [ctx |-> ctx, way |-> "throws", root |-> 0, builds |-> FALSE]
        ELSE IF remote THEN resolve_request_remote(ctx)
        ELSE resolve_request_local(ctx, retrying, c)

\* A retrier takes up to max_attempts attempts, and only for some kinds of exceptions
handle_exception(retrier, kind, attempt) ==
    /\ kind = (IF retrier.proxy THEN "remote_error" ELSE "http_request_failure")
    /\ attempt + 1 < retrier.max_attempts

\* The tries of one resolution, whose outcomes are given: <<>> or an exception each
resolve_request_with_retry(T, ctx, is_proxy, retrier, c, outcomes) ==
    LET try[i \in 1..Len(outcomes)] ==
            LET before == IF i = 1 THEN ctx ELSE try[i - 1].ctx
                failed == IF i = 1 THEN "" ELSE IF try[i - 1].way = "throws" THEN "logic_error"
                          ELSE outcomes[i - 1]
            IN  IF i > 1 /\ (failed \in {"ok", "none"} \/ ~handle_exception(retrier, failed, i - 2))
                THEN [ctx |-> before, way |-> "none", root |-> 0, builds |-> FALSE]
                ELSE resolve_request_one_try(T, before, is_proxy, i > 1, c)
    IN  SelectSeq(try, LAMBDA t : t.way # "none")
=============================================================================
