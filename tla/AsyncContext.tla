---------------------------- MODULE AsyncContext ----------------------------
(***************************************************************************)
(* Asynchronous local resolution: the tree of local_async_context_base     *)
(* objects (inner/requests/context_base.cpp) that shows how far a request  *)
(* tree is, and the coroutines of function_request_impl                    *)
(* (inner/requests/function.h) that resolve it.                            *)
(*                                                                         *)
(* A context has a status, which its coroutine stores and any thread       *)
(* reads.  The contexts of a tree share a cancellation flag.  A context    *)
(* whose function runs in a contained process has a delegate, to which a   *)
(* cancellation request is forwarded by the thread that makes it.          *)
(***************************************************************************)
EXTENDS Integers, FiniteSets

CONSTANTS
    Ctxs,         \* the contexts of one tree
    Root,
    ReqCtxs,      \* contexts of requests; the others are of plain values
    ParentOf,     \* the parent of a context; that of Root is Root itself
    Below,        \* all contexts below a given one
    Cached,       \* requests resolved through the memory cache
    Contained,    \* requests whose function runs in a contained process
    CanFail,      \* requests whose function may throw
    Cancellable,  \* requests whose function polls for cancellation
    UsingResult   \* whether using_result() was called on the root

Subs(x) == {y \in Ctxs \ {Root} : ParentOf[y] = x}
ReqSubs(x) == Subs(x) \cap ReqCtxs

ASSUME TreeAssumption ==
    /\ IsFiniteSet(Ctxs)
    /\ Root \in ReqCtxs /\ ReqCtxs \subseteq Ctxs /\ Contained \subseteq ReqCtxs
    /\ ParentOf \in [Ctxs -> ReqCtxs]
    /\ Below \in [Ctxs -> SUBSET Ctxs]
    /\ \A x \in Ctxs :
        /\ Below[x] = Subs(x) \cup UNION {Below[y] : y \in Subs(x)}
        /\ Below[x] = {y \in Ctxs \ {Root} : ParentOf[y] = x \/ ParentOf[y] \in Below[x]}
        /\ x \notin Below[x] /\ \A y \in Below[x] : Below[y] \subseteq Below[x]
    /\ UsingResult \in BOOLEAN

VARIABLES
    status,            \* async_status of each context
    cpc,               \* where the coroutine of a request is
    exc,               \* what it has thrown: "none", "error" or "cancelled"
    cancel_requested,  \* the tree's cancellation token
    not_running,       \* num_subs_not_running_
    on_parent,         \* contexts that continue on their parent's thread
    delegate,          \* contexts that have a living delegate
    cancelling         \* contexts whose cancel_delegate() is at work

ctx_vars == <<status, cpc, exc, cancel_requested, not_running, on_parent,
              delegate, cancelling>>

Statuses == {"CREATED", "SUBS_RUNNING", "SELF_RUNNING", "CANCELLED",
             "AWAITING_RESULT", "FINISHED", "FAILED"}
Final == {"CANCELLED", "FINISHED", "FAILED"}

CtxTypeOK ==
    /\ status \in [Ctxs -> Statuses]
    /\ cpc \in [ReqCtxs -> {"idle", "subs", "self", "mailbox", "closing",
                            "returning", "mailbox2", "ok", "threw"}]
    /\ exc \in [ReqCtxs -> {"none", "error", "cancelled"}]
    /\ cancel_requested \in BOOLEAN
    /\ not_running \in [ReqCtxs -> Nat]
    /\ on_parent \subseteq ReqCtxs
    /\ delegate \subseteq Contained
    /\ cancelling \subseteq Contained

\* add_sub() counts the subcontexts that are of requests.
NumReqSubs(x) == Cardinality(ReqSubs(x))

CtxInit ==
    /\ status = [x \in Ctxs |-> IF x \in ReqCtxs THEN "CREATED" ELSE "FINISHED"]
    /\ cpc = [x \in ReqCtxs |-> "idle"]
    /\ exc = [x \in ReqCtxs |-> "none"]
    /\ cancel_requested = FALSE
    /\ not_running = [x \in ReqCtxs |-> NumReqSubs(x)]
    /\ on_parent = {}
    /\ delegate = {}
    /\ cancelling = {}

-----------------------------------------------------------------------------
(* Storing a status.                                                       *)

AlmostFinished_or_final(s) == s = "AWAITING_RESULT" \/ s \in Final
AlmostFinished(s) == s \in {"AWAITING_RESULT", "FINISHED"}

\* local_async_context_base::update_status(): on the way to AWAITING_RESULT or
\* FINISHED, first makes the subcontexts FINISHED, recursively, down to those
\* that are (almost) finished already.
Stored_own_only(x, s) == [status EXCEPT ![x] = s]
Stored(x, s) ==
    [y \in Ctxs |->
        IF y = x THEN s
        ELSE IF /\ y \in Below[x]
                /\ AlmostFinished(s)
                /\ \A z \in {x} \cup Below[x] :
                       y \in Below[z] => ~AlmostFinished(status[z])
             THEN "FINISHED"
             ELSE status[y]]

\* The coroutine of x moves to p; what it stores is given separately.
MovesTo(x, p) == cpc' = [cpc EXCEPT ![x] = p]
Throws(x, e) == MovesTo(x, "threw") /\ exc' = [exc EXCEPT ![x] = e]

\* The status that the catch clauses store for an exception.
StatusOf_cancelled(e) == IF e = "none" THEN "FAILED" ELSE "CANCELLED"
StatusOf(e) == IF e = "cancelled" THEN "CANCELLED" ELSE "FAILED"

-----------------------------------------------------------------------------
(* The coroutine of a request.                                             *)

MayBegin(x) == x # Root => cpc[ParentOf[x]] = "subs"

\* Its resolution begins, and so does that of its arguments.
run_subs(x) ==
    /\ cpc[x] = "idle"
    /\ MayBegin(x)
    /\ status' = Stored(x, "SUBS_RUNNING")
    /\ MovesTo(x, "subs")
    /\ UNCHANGED <<exc, cancel_requested, not_running, on_parent, delegate,
                   cancelling>>

\* A cached request has its value already, or awaits the task of another
\* tree, which succeeds or fails.
from_cache(x) ==
    /\ x \in Cached
    /\ cpc[x] = "idle"
    /\ MayBegin(x)
    /\ \/ MovesTo(x, "returning") /\ UNCHANGED exc
       \/ x \in CanFail /\ Throws(x, "error")
    /\ UNCHANGED <<status, cancel_requested, not_running, on_parent, delegate,
                   cancelling>>

Ended(x) == cpc[x] \in {"ok", "threw"}

\* Whether the sub that starts running now should reschedule: the last one
\* continues on its parent's thread.
decide_reschedule_sub(p) == not_running[p] > 1

\* All arguments are there.  reschedule_if_opportune() picks the thread.
run_self(x) ==
    /\ cpc[x] = "subs"
    /\ \A y \in ReqSubs(x) : cpc[y] = "ok"
    /\ x \notin Contained
    /\ status' = Stored(x, "SELF_RUNNING")
    /\ MovesTo(x, "self")
    /\ IF x = Root
       THEN UNCHANGED <<not_running, on_parent>>
       ELSE /\ not_running' = [not_running EXCEPT ![ParentOf[x]] = @ - 1]
            /\ on_parent' = IF decide_reschedule_sub(ParentOf[x])
                            THEN on_parent ELSE on_parent \cup {x}
    /\ UNCHANGED <<exc, cancel_requested, delegate, cancelling>>

\* In contained mode, the controller sets a delegate.  A cancellation that
\* was requested before is forwarded and acted upon at once.
run_contained(x) ==
    /\ cpc[x] = "subs"
    /\ \A y \in ReqSubs(x) : cpc[y] = "ok"
    /\ x \in Contained
    /\ IF cancel_requested
       THEN /\ status' = [Stored(x, "SELF_RUNNING") EXCEPT ![x] = "CANCELLED"]
            /\ Throws(x, "cancelled")
            /\ UNCHANGED delegate
       ELSE /\ status' = Stored(x, "SELF_RUNNING")
            /\ MovesTo(x, "self")
            /\ delegate' = delegate \cup {x}
            /\ UNCHANGED exc
    /\ UNCHANGED <<cancel_requested, not_running, on_parent, cancelling>>

subs_threw_if_all(x) ==
    /\ cpc[x] = "subs"
    /\ \A y \in ReqSubs(x) : cpc[y] = "threw"
    /\ \E y \in ReqSubs(x) :
        /\ Throws(x, exc[y])
        /\ status' = IF x \in Contained THEN status
                                        ELSE Stored(x, StatusOf(exc[y]))
    /\ UNCHANGED <<cancel_requested, not_running, on_parent, delegate,
                   cancelling>>
\* Some argument threw.  when_all() waits for the others, then rethrows;
\* resolve_async_contained() has no catch clause that stores a status.
subs_threw(x) ==
    /\ cpc[x] = "subs"
    /\ \A y \in ReqSubs(x) : Ended(y)
    /\ \E y \in ReqSubs(x) :
        /\ cpc[y] = "threw"
        /\ Throws(x, exc[y])
        /\ status' = IF x \in Contained THEN status
                                        ELSE Stored(x, StatusOf(exc[y]))
    /\ UNCHANGED <<cancel_requested, not_running, on_parent, delegate,
                   cancelling>>

\* The function throws, possibly because of a cancellation request.
function_throws(x) ==
    /\ cpc[x] = "self"
    /\ \/ x \in CanFail /\ Throws(x, "error")
       \/ x \in Cancellable /\ cancel_requested /\ Throws(x, "cancelled")
    /\ status' = IF x \in Contained THEN status
                                    ELSE Stored(x, StatusOf(exc'[x]))
    /\ delegate' = delegate \ {x}
    /\ UNCHANGED <<cancel_requested, not_running, on_parent, cancelling>>

\* Where the coroutine goes when its function is done, and when the status
\* is stored: the delegate of a contained function lives a little longer, and
\* a cached request stores its status once more.
AfterStatus(x) == IF x \in Contained THEN "closing"
                  ELSE IF x \in Cached THEN "returning" ELSE "ok"

\* The function returned: the status is FINISHED.  On a root that is used as
\* a mailbox, it is overwritten by AWAITING_RESULT right away.
NextOnRoot(x, mailbox, otherwise) ==
    IF x = Root /\ UsingResult THEN mailbox ELSE otherwise

function_returns(x) ==
    /\ cpc[x] = "self"
    /\ status' = Stored(x, "FINISHED")
    /\ MovesTo(x, NextOnRoot(x, "mailbox", AfterStatus(x)))
    /\ UNCHANGED <<exc, cancel_requested, not_running, on_parent, delegate,
                   cancelling>>

\* The contained function's controller, and thereby the delegate, goes.
close_contained(x) ==
    /\ cpc[x] = "closing"
    /\ MovesTo(x, IF x \in Cached THEN "returning" ELSE "ok")
    /\ delegate' = delegate \ {x}
    /\ UNCHANGED <<status, exc, cancel_requested, not_running, on_parent,
                   cancelling>>

\* resolve_request_cached() stores FINISHED too.
cached_returns(x) ==
    /\ cpc[x] = "returning"
    /\ status' = Stored(x, "FINISHED")
    /\ MovesTo(x, NextOnRoot(x, "mailbox2", "ok"))
    /\ UNCHANGED <<exc, cancel_requested, not_running, on_parent, delegate,
                   cancelling>>

\* The second half of root_local_async_context_base::update_status().
await_result ==
    /\ cpc[Root] \in {"mailbox", "mailbox2"}
    /\ status' = Stored(Root, "AWAITING_RESULT")
    /\ MovesTo(Root, IF cpc[Root] = "mailbox" THEN AfterStatus(Root) ELSE "ok")
    /\ UNCHANGED <<exc, cancel_requested, not_running, on_parent, delegate,
                   cancelling>>

-----------------------------------------------------------------------------
(* Cancellation.                                                           *)

\* Sets the token and runs the callbacks registered on it.
request_cancellation ==
    /\ ~cancel_requested
    /\ cancel_requested' = TRUE
    /\ cancelling' = delegate
    /\ UNCHANGED <<status, cpc, exc, not_running, on_parent, delegate>>

\* cancel_delegate() has passed the request on to the contained process.
cancel_delegate(x) ==
    /\ x \in cancelling
    /\ cancelling' = cancelling \ {x}
    /\ status' = Stored(x, "CANCELLED")
    /\ UNCHANGED <<cpc, exc, cancel_requested, not_running, on_parent, delegate>>

-----------------------------------------------------------------------------

Step(x) ==
    \/ run_subs(x) \/ from_cache(x) \/ run_self(x) \/ run_contained(x)
    \/ subs_threw(x) \/ function_throws(x) \/ function_returns(x)
    \/ close_contained(x) \/ cached_returns(x)

CtxNext ==
    \/ \E x \in ReqCtxs : Step(x)
    \/ await_result
    \/ request_cancellation
    \/ \E x \in Contained : cancel_delegate(x)

\* Functions return and threads go on.
CtxSpec ==
    /\ CtxInit /\ [][CtxNext]_ctx_vars
    /\ \A x \in ReqCtxs : WF_ctx_vars(Step(x))
    /\ WF_ctx_vars(await_result)

-----------------------------------------------------------------------------
(* Properties.                                                             *)

\* If a context is AWAITING_RESULT or FINISHED, all its subcontexts are
\* FINISHED, also when the result came from the cache and they never ran
\* (context_base.cpp:383-385).  The exception are contexts of contained
\* requests after a cancellation request: cancel_delegate() may store
\* CANCELLED over FINISHED (context_base.cpp:482).
FinishedDownTheTree ==
    \A x \in Ctxs : AlmostFinished(status[x]) =>
        \A y \in Subs(x) : \/ status[y] = "FINISHED"
                           \/ y \in Contained /\ cancel_requested

\* CANCELLED, FINISHED and FAILED are final: once a task has one of these, its
\* status does not change any more (types.h:12-13).  There are two exceptions:
\* a root that is used as a mailbox goes from FINISHED to AWAITING_RESULT
\* (context_base.cpp:495), and for a contained request the canceller and the
\* coroutine store a status each.
FinalStatusIsFinal ==
    [][\A x \in Ctxs : status[x] \in Final =>
        \/ status'[x] = status[x]
        \/ x = Root /\ UsingResult /\ status[x] = "FINISHED"
                    /\ status'[x] = "AWAITING_RESULT"
        \/ x \in Contained /\ cancel_requested]_ctx_vars

\* The status that a tree ends with tells how its resolution ended, whatever
\* the order in which its parts ended: FINISHED or AWAITING_RESULT if the root
\* has its value (unless it is contained and a canceller came late), CANCELLED
\* only if that was requested, FAILED only if some function threw.
RootStatusTellsOutcome ==
    /\ cpc[Root] = "ok" => \/ AlmostFinished(status[Root])
                           \/ Root \in Contained /\ cancel_requested
    /\ status[Root] = "CANCELLED" => cancel_requested
    /\ status[Root] = "FAILED" => \E x \in ReqCtxs : exc[x] = "error"

\* Of the subrequests of a request, only the last one to run continues on the
\* parent's thread (context_base.cpp:349-350), so that the others run in
\* parallel with it.
OneSubOnParentThread ==
    \A x \in ReqCtxs : Cardinality(on_parent \cap ReqSubs(x)) <= 1

\* A tree of contexts is consistent, whatever the order in which its requests
\* start, end, fail and are cancelled: statuses agree between parents and
\* subcontexts and with the outcome, and subrequests run in parallel.
TreeConsistent ==
    /\ CtxTypeOK
    /\ FinishedDownTheTree /\ RootStatusTellsOutcome /\ OneSubOnParentThread

\* Every resolution that begins ends, whatever fails or is cancelled.
ResolutionEnds == cpc[Root] # "idle" ~> Ended(Root)
=============================================================================
