---------------------------- MODULE AsyncServer ----------------------------
(***************************************************************************)
(* Asynchronous resolution on a server: a client (inner/resolve/remote.cpp *)
(* and the root proxy context of inner/requests/context_base.cpp) submits  *)
(* a request, polls, fetches the response and finally lets go of what the  *)
(* server keeps for it.  On the server (rpclib/server/handlers.cpp),       *)
(* handler threads serve the calls, and a worker thread resolves the       *)
(* request, which is what AsyncContext models.                             *)
(*                                                                         *)
(* Calls that change the server's state are sent, handled and answered in  *)
(* separate steps, and the client may stop waiting before the answer is    *)
(* there; calls that only read are one step.  Second threads of the client *)
(* request cancellation and look at the contexts of the tree.              *)
(***************************************************************************)
EXTENDS AsyncContext

CONSTANTS
    NeedLock,     \* whether the client asks for a record lock
    MaxTimeouts   \* bound: how many calls the client gives up on

ASSUME ServerAssumption ==
    /\ UsingResult = TRUE
    /\ NeedLock \in BOOLEAN
    /\ MaxTimeouts \in Nat

VARIABLES
    \* The server.
    worker,       \* where resolve_async() is
    built,        \* contexts that are in the tree
    db,           \* contexts that are in the async_db
    result,       \* result_ of the root: "empty" or "value"
    record_id,    \* whether cache_record_id_ of the root is set
    flushed,      \* whether on_value_complete() was called
    record_lock,  \* cache_record_locks_: "none", "held" or "released"
    \* The connection.
    calls,        \* calls sent and not yet handled
    answers,      \* answers not yet received
    timeouts,     \* calls given up on
    \* The client.
    client,       \* where its resolve_async() is
    outcome,      \* what that function returned or threw
    response,     \* the response it fetched
    promise,      \* remote_id_promise_: "unset", "id" or "exception"
    remote_id,    \* whether remote_id_ is set
    canceller,    \* a thread that requests cancellation
    subs,         \* the subs_ that ensure_subs() has found
    client_lock   \* whether the client has a remote_locked_cache_record

server_vars == <<worker, built, db, result, record_id, flushed, record_lock>>
rpc_vars == <<calls, answers, timeouts>>
client_vars == <<client, outcome, response, promise, remote_id, canceller,
                 subs, client_lock>>
async_vars == <<ctx_vars, server_vars, rpc_vars, client_vars>>

ServerTypeOK ==
    /\ CtxTypeOK
    /\ worker \in {"none", "queued", "building", "resolving", "setting_id",
                   "flushing", "complete"}
    /\ built \subseteq Ctxs /\ db \subseteq built
    /\ result \in {"empty", "value"}
    /\ record_id \in BOOLEAN /\ flushed \in BOOLEAN
    /\ record_lock \in {"none", "held", "released"}
    /\ calls \subseteq {"submit", "cancel", "finish", "release"}
    /\ answers \subseteq {"submit", "submit_error", "cancel", "finish", "release"}
    /\ timeouts \in 0..MaxTimeouts
    /\ client \in {"idle", "submitting", "polling", "fetching", "returned",
                   "finishing", "releasing", "gone", "terminated"}
    /\ outcome \in {"none", "value", "cancelled", "failed", "bad_id", "error"}
    /\ response \in [result : {"none", "empty", "value"}, record_id : BOOLEAN,
                     flushed : BOOLEAN]
    /\ promise \in {"unset", "id", "exception"}
    /\ remote_id \in BOOLEAN
    /\ canceller \in {"idle", "waiting", "calling", "done"}
    /\ subs \in {{"unknown"}} \cup SUBSET Ctxs
    /\ client_lock \in BOOLEAN

AsyncInit ==
    /\ CtxInit
    /\ worker = "none" /\ built = {} /\ db = {}
    /\ result = "empty" /\ record_id = FALSE /\ flushed = FALSE
    /\ record_lock = "none"
    /\ calls = {} /\ answers = {} /\ timeouts = 0
    /\ client = "idle" /\ outcome = "none"
    /\ response = [result |-> "none", record_id |-> FALSE, flushed |-> FALSE]
    /\ promise = "unset" /\ remote_id = FALSE
    /\ canceller = "idle" /\ subs = {"unknown"} /\ client_lock = FALSE

-----------------------------------------------------------------------------
(* Calls.                                                                  *)

Send(call) == calls' = calls \cup {call}
Handles(call) ==
    /\ call \in calls
    /\ calls' = calls \ {call}
    /\ answers' = answers \cup {call}
    /\ UNCHANGED timeouts
Receives(call) ==
    /\ call \in answers
    /\ answers' = answers \ {call}
    /\ UNCHANGED <<calls, timeouts>>

\* do_rpc_call() throws; the server may still handle the call.
GivesUp ==
    /\ timeouts < MaxTimeouts
    /\ timeouts' = timeouts + 1
    /\ UNCHANGED <<calls, answers>>

-----------------------------------------------------------------------------
(* The server's handlers.                                                  *)

\* Makes the root context, registers it, allocates a record lock and puts
\* resolve_async() on a queue.
handle_submit_async ==
    /\ Handles("submit")
    /\ worker' = "queued"
    /\ built' = {Root} /\ db' = {Root}
    /\ record_lock' = IF NeedLock THEN "held" ELSE "none"
    /\ UNCHANGED <<ctx_vars, result, record_id, flushed, client_vars>>

\* It throws, because of the configuration for instance.
handle_submit_async_error ==
    /\ "submit" \in calls
    /\ calls' = calls \ {"submit"}
    /\ answers' = answers \cup {"submit_error"}
    /\ UNCHANGED <<ctx_vars, server_vars, timeouts, client_vars>>

\* The token of the tree is set, and set once.
handle_request_cancellation ==
    /\ Handles("cancel")
    /\ IF Root \in db /\ ~cancel_requested
       THEN request_cancellation
       ELSE UNCHANGED ctx_vars
    /\ UNCHANGED <<server_vars, client_vars>>

remove_tree_node == {Root}
\* remove_tree() erases the contexts that are in the tree at that time.
remove_tree == built

handle_finish_async ==
    /\ Handles("finish")
    /\ db' = IF Root \in db THEN db \ remove_tree ELSE db
    /\ UNCHANGED <<ctx_vars, worker, built, result, record_id, flushed,
                   record_lock, client_vars>>

handle_release_cache_record_lock ==
    /\ Handles("release")
    /\ record_lock' = "released"
    /\ UNCHANGED <<ctx_vars, worker, built, db, result, record_id, flushed,
                   client_vars>>

-----------------------------------------------------------------------------
(* The server's worker thread.                                             *)

Keep_async == <<calls, answers, timeouts, client_vars>>

\* A thread of the pool deserializes the request; if it cannot, or if the
\* request is unknown, it catches what is thrown.
worker_starts ==
    /\ worker = "queued"
    /\ \/ worker' = "building" /\ UNCHANGED ctx_vars
       \/ /\ worker' = "complete"
          /\ status' = Stored(Root, "FAILED")
          /\ exc' = [exc EXCEPT ![Root] = "error"]
          /\ UNCHANGED <<cpc, cancel_requested, not_running, on_parent,
                         delegate, cancelling>>
    /\ UNCHANGED <<built, db, result, record_id, flushed, record_lock, Keep_async>>

\* The tree builder adds one context to its parent and registers it.
make_sub_ctx(x) ==
    /\ worker = "building"
    /\ x \in Ctxs \ built
    /\ ParentOf[x] \in built
    /\ built' = built \cup {x}
    /\ db' = db \cup {x}
    /\ UNCHANGED <<ctx_vars, worker, result, record_id, flushed, record_lock,
                   Keep_async>>

tree_complete ==
    /\ worker = "building"
    /\ built = Ctxs
    /\ worker' = "resolving"
    /\ UNCHANGED <<ctx_vars, built, db, result, record_id, flushed,
                   record_lock, Keep_async>>

\* The coroutines of the tree, on the worker's thread and others.
resolve_step ==
    /\ worker = "resolving"
    /\ (\E x \in ReqCtxs : Step(x)) \/ await_result
    /\ UNCHANGED <<server_vars, Keep_async>>

delegate_step ==
    /\ \E x \in Contained : cancel_delegate(x)
    /\ UNCHANGED <<server_vars, Keep_async>>

\* The request is resolved.  set_result() insists on AWAITING_RESULT; what it
\* throws otherwise is caught like any other error.
set_result ==
    /\ worker = "resolving"
    /\ cpc[Root] = "ok"
    /\ IF status[Root] = "AWAITING_RESULT"
       THEN /\ result' = "value"
            /\ status' = Stored(Root, "FINISHED")
            /\ worker' = "setting_id"
            /\ UNCHANGED exc
       ELSE /\ status' = Stored(Root, "FAILED")
            /\ exc' = [exc EXCEPT ![Root] = "error"]
            /\ worker' = "complete"
            /\ UNCHANGED result
    /\ UNCHANGED <<cpc, cancel_requested, not_running, on_parent,
                   delegate, cancelling, built, db, record_id, flushed,
                   record_lock, Keep_async>>

set_cache_record_id ==
    /\ worker = "setting_id"
    /\ record_id' = NeedLock
    /\ worker' = "flushing"
    /\ UNCHANGED <<ctx_vars, built, db, result, flushed, record_lock, Keep_async>>

on_value_complete ==
    /\ worker = "flushing"
    /\ flushed' = TRUE
    /\ worker' = "complete"
    /\ UNCHANGED <<ctx_vars, built, db, result, record_id, record_lock,
                   Keep_async>>

worker_catches_uncaught ==
    /\ worker = "resolving"
    /\ cpc[Root] = "threw"
    /\ worker' = "complete"
    /\ UNCHANGED <<ctx_vars, built, db, result, record_id, flushed,
                   record_lock, Keep_async>>
worker_catches ==
    /\ worker = "resolving"
    /\ cpc[Root] = "threw"
    /\ status' = Stored(Root, StatusOf(exc[Root]))
    /\ worker' = "complete"
    /\ UNCHANGED <<cpc, exc, cancel_requested, not_running, on_parent,
                   delegate, cancelling, built, db, result, record_id, flushed,
                   record_lock, Keep_async>>

Work ==
    \/ worker_starts \/ (\E x \in Ctxs : make_sub_ctx(x)) \/ tree_complete
    \/ resolve_step \/ set_result \/ set_cache_record_id \/ on_value_complete
    \/ worker_catches

-----------------------------------------------------------------------------
(* The client's resolving thread.                                          *)

Keep_server == <<ctx_vars, server_vars>>

submit_async ==
    /\ client = "idle"
    /\ client' = "submitting"
    /\ Send("submit")
    /\ UNCHANGED <<Keep_server, answers, timeouts, outcome, response, promise,
                   remote_id, canceller, subs, client_lock>>

set_remote_id ==
    /\ client = "submitting"
    /\ Receives("submit")
    /\ promise' = "id"
    /\ client' = "polling"
    /\ UNCHANGED <<Keep_server, outcome, response, remote_id, canceller, subs,
                   client_lock>>

fail_remote_id_silently ==
    /\ client = "submitting"
    /\ Receives("submit_error") \/ GivesUp
    /\ client' = "returned"
    /\ outcome' = "error"
    /\ UNCHANGED <<Keep_server, response, promise, remote_id, canceller, subs,
                   client_lock>>
\* An error or no answer: the waiting threads of the client get the exception too.
fail_remote_id ==
    /\ client = "submitting"
    /\ Receives("submit_error") \/ GivesUp
    /\ promise' = "exception"
    /\ client' = "returned"
    /\ outcome' = "error"
    /\ UNCHANGED <<Keep_server, response, remote_id, canceller, subs,
                   client_lock>>

\* What wait_until_async_status_matches() does with a status.
Polled(s) ==
    CASE s = "FINISHED"  -> <<"fetching", outcome>>
      [] s = "CANCELLED" -> <<"returned", "cancelled">>
      [] s = "FAILED"    -> <<"returned", "failed">>
      [] OTHER           -> <<"polling", outcome>>

get_async_status ==
    /\ client = "polling"
    /\ LET next == IF Root \in db THEN Polled(status[Root])
                                  ELSE <<"returned", "bad_id">>
       IN  /\ client' = next[1]
           /\ outcome' = next[2]
    /\ UNCHANGED <<Keep_server, rpc_vars, response, promise, remote_id,
                   canceller, subs, client_lock>>

\* get_result() insists on FINISHED.  A client that asked for a lock does not
\* accept a response without a record id.
get_async_response ==
    /\ client = "fetching"
    /\ client' = "returned"
    /\ IF Root \in db /\ status[Root] = "FINISHED"
       THEN /\ response' = [result |-> result, record_id |-> record_id,
                            flushed |-> flushed]
            /\ outcome' = IF NeedLock /\ ~record_id THEN "error" ELSE "value"
            /\ client_lock' = (NeedLock /\ record_id)
       ELSE /\ outcome' = IF Root \in db THEN "error" ELSE "bad_id"
            /\ UNCHANGED <<response, client_lock>>
    /\ UNCHANGED <<Keep_server, rpc_vars, promise, remote_id, canceller, subs>>

\* A poll or fetch is not answered in time.
client_gives_up ==
    /\ client \in {"polling", "fetching"}
    /\ GivesUp
    /\ client' = "returned"
    /\ outcome' = "error"
    /\ UNCHANGED <<Keep_server, response, promise, remote_id, canceller, subs,
                   client_lock>>

\* The client destroys its context.  finish_remote() goes by remote_id_.
finish_remote ==
    /\ client = "returned"
    /\ canceller \in {"idle", "done"}
    /\ IF remote_id
       THEN client' = "finishing" /\ Send("finish")
       ELSE client' = "releasing" /\ UNCHANGED calls
    /\ UNCHANGED <<Keep_server, answers, timeouts, outcome, response, promise,
                   remote_id, canceller, subs, client_lock>>

\* finish_remote() swallows an exception.
remote_finished ==
    /\ client = "finishing"
    /\ Receives("finish") \/ GivesUp
    /\ client' = "releasing"
    /\ UNCHANGED <<Keep_server, outcome, response, promise, remote_id,
                   canceller, subs, client_lock>>

\* The client destroys its lock, if it has one.
release_lock ==
    /\ client = "releasing"
    /\ IF client_lock
       THEN Send("release") /\ client_lock' = FALSE /\ UNCHANGED client
       ELSE /\ "release" \notin calls \cup answers
            /\ client' = "gone"
            /\ UNCHANGED <<calls, client_lock>>
    /\ UNCHANGED <<Keep_server, answers, timeouts, outcome, response, promise,
                   remote_id, canceller, subs>>

\* ~remote_locked_cache_record() is noexcept but lets exceptions out.
lock_released ==
    /\ client = "releasing"
    /\ "release" \in calls \cup answers
    /\ \/ Receives("release") /\ client' = "gone"
       \/ GivesUp /\ client' = "terminated"
    /\ UNCHANGED <<Keep_server, outcome, response, promise, remote_id,
                   canceller, subs, client_lock>>

Resolve ==
    \/ set_remote_id \/ fail_remote_id \/ get_async_status \/ get_async_response
    \/ finish_remote \/ remote_finished \/ release_lock \/ lock_released

-----------------------------------------------------------------------------
(* Other threads of the client.                                            *)

\* request_cancellation_coro() waits for the remote id, then makes the call.
request_cancellation_coro ==
    /\ canceller = "idle"
    /\ client \in {"submitting", "polling", "fetching", "returned"}
    /\ canceller' = "waiting"
    /\ UNCHANGED <<Keep_server, rpc_vars, client, outcome, response, promise,
                   remote_id, subs, client_lock>>

wait_on_remote_id ==
    /\ canceller = "waiting"
    /\ \/ /\ promise = "id"
          /\ remote_id' = TRUE
          /\ canceller' = "calling"
          /\ Send("cancel")
       \/ /\ promise = "exception"
          /\ canceller' = "done"
          /\ UNCHANGED <<calls, remote_id>>
    /\ UNCHANGED <<Keep_server, answers, timeouts, client, outcome, response,
                   promise, subs, client_lock>>

cancellation_requested ==
    /\ canceller = "calling"
    /\ Receives("cancel") \/ GivesUp
    /\ canceller' = "done"
    /\ UNCHANGED <<Keep_server, client, outcome, response, promise, remote_id,
                   subs, client_lock>>

Cancel == wait_on_remote_id \/ cancellation_requested

SubsAvailable(s) == s # "CREATED"

\* get_num_subs() on the root: waits until the root's status shows that the
\* tree has been built, then asks for its subs.
ensure_subs ==
    /\ client \in {"polling", "fetching", "returned"}
    /\ promise = "id"
    /\ subs = {"unknown"}
    /\ Root \in db
    /\ SubsAvailable(status[Root])
    /\ subs' = Subs(Root) \cap built
    /\ remote_id' = TRUE
    /\ UNCHANGED <<Keep_server, rpc_vars, client, outcome, response, promise,
                   canceller, client_lock>>

-----------------------------------------------------------------------------

Handle ==
    \/ handle_submit_async \/ handle_submit_async_error
    \/ handle_request_cancellation
    \/ handle_finish_async \/ handle_release_cache_record_lock

AsyncNext ==
    \/ Handle
    \/ Work \/ delegate_step
    \/ submit_async \/ Resolve \/ client_gives_up
    \/ request_cancellation_coro \/ Cancel
    \/ ensure_subs

\* The server has threads for its handlers and its workers, functions return,
\* and threads of the client go on unless they wait.
AsyncSpec ==
    /\ AsyncInit /\ [][AsyncNext]_async_vars
    /\ WF_async_vars(Handle)
    /\ WF_async_vars(Work)
    /\ WF_async_vars(Resolve)
    /\ WF_async_vars(Cancel)

-----------------------------------------------------------------------------
(* Properties.                                                             *)

\* A client that submitted a request gets a value or an exception in the end,
\* whatever fails, is cancelled or times out, and whatever the statuses of the
\* contexts are; an answered poll never leaves it polling for ever.
ClientEnds == client = "submitting" ~> client \in {"gone", "terminated"}

\* A thread that waits for the remote id gets it or an exception
\* (context_base.cpp:749-765).
WaitersWake == canceller = "waiting" ~> canceller = "done"

\* As long as the client has not called finish_async, the server knows the
\* root context under the id that it gave to the client.
IdStaysKnown == outcome # "bad_id"

\* What the client is told is what happened on the server: a cancellation was
\* requested, or something threw.
OutcomeTruthful ==
    /\ outcome = "cancelled" => cancel_requested
    /\ outcome = "failed" => \E x \in ReqCtxs : exc[x] = "error"

\* While the client holds its remote lock, the server holds the record's lock
\* on its behalf, whatever happens to the context tree (seri_lock.h:17-20).
LockedForClient == client_lock => record_lock = "held"

\* A client that asks for the subcontexts gets all of them, or none if the
\* request could not be read, although the tree is being built meanwhile
\* (proxy.h:110-111).
SubsSeenComplete ==
    subs \in {{"unknown"}, Subs(Root)} \/ (subs = {} /\ built = {Root})

\* Once a finish_async() was answered and the worker is done, nothing of the
\* tree is left in the database, provided that no call timed out: a client
\* that gave up may remove a tree that is still being built.
NothingLeftBehind ==
    (/\ remote_id /\ timeouts = 0
     /\ client \in {"releasing", "gone"} /\ worker = "complete") => db = {}

\* Whatever the client learns is true of what happens on the server: the
\* outcome of its request, the contexts of the tree, the id of its root.
AnswersTruthful == IdStaysKnown /\ OutcomeTruthful /\ SubsSeenComplete

\* The server keeps for the client what the client relies on and no more: the
\* lock while the client has it, the context tree until it is finished.
HeldExactly == ServerTypeOK /\ LockedForClient /\ NothingLeftBehind
=============================================================================
