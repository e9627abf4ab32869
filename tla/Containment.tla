----------------------------- MODULE Containment -----------------------------
(***************************************************************************)
(* Contained calls: functions resolved in a server process of their own    *)
(* (creq_controller.cpp, creq_context.cpp, contained_proxy_pool.cpp,       *)
(* ephemeral_port_owner.cpp, rpclib/client/proxy.cpp).                     *)
(*                                                                         *)
(* A contained call takes a proxy from the pool, or makes one, which       *)
(* allocates a port and starts a server that listens on it; loads the DLL  *)
(* there, submits the request, polls its status and fetches the result.    *)
(* A proxy whose call succeeded goes back to the pool; another one is      *)
(* destroyed with its server.  The call may be cancelled at any time and   *)
(* servers may die, or not start.                                          *)
(***************************************************************************)
EXTENDS Integers, Sequences, FiniteSets

CONSTANTS
    Calls,       \* contained calls
    NoCall,      \* nobody holds the pool's mutex
    RangeSize,   \* number of ephemeral ports
    MaxFaults    \* bound on the number of servers that die or do not start

Ports  == 0 .. RangeSize - 1   \* relative to first_number_
NoPort == RangeSize

ASSUME RangeIsPositive ==
    RangeSize \in Nat \ {0} /\ NoCall \notin Calls /\ MaxFaults \in Nat

VARIABLES
    inUse,      \* in_use_: ports allocated
    nextPort,   \* next_number_
    pool,       \* available_proxies_: the ports of the proxies in it
    holder,     \* the call that holds the pool's mutex
    server,     \* Port -> the process listening, or about to listen, on it
    child,      \* ports whose proxy has a valid child_
    contexts,   \* Port -> contexts in its server: call -> status
    step,       \* Call -> where it stands
    port,       \* Call -> port of its proxy
    asked,      \* calls whose cancellation was requested
    delegated,  \* calls whose context has the creq_context as its delegate
    cancelled,  \* cancelled_ of the creq_context
    remoteId,   \* calls whose remote_id_ is set
    succeeded,  \* succeeded_
    faults

cvars == <<inUse, nextPort, pool, holder, server, child, contexts, step, port, asked,
           delegated, cancelled, remoteId, succeeded, faults>>

Steps == {"idle", "queued", "pinging", "awaiting_server", "have_proxy", "delegating",
          "loading", "submitting", "submitted", "polling", "fetching", "finishing",
          "freeing", "done", "failed"}
Statuses == {"none", "running", "cancelling", "finished", "cancelled", "error"}

ports   == <<inUse, nextPort>>
pools   == <<pool, holder>>
servers == <<server, child, contexts>>
flags   == <<asked, delegated, cancelled, remoteId, succeeded>>

Goto(c, s) == step' = [step EXCEPT ![c] = s]

-----------------------------------------------------------------------------
\* ephemeral_port_owner

increase(n) == (n + 1) % RangeSize

\* The first unused port, from the next one on; NoPort if there is none.
find_unused_number ==
    LET free == Ports \ inUse
        distance(n) == (n + RangeSize - nextPort) % RangeSize
    IN  IF free = {} THEN NoPort
        ELSE CHOOSE n \in free : \A k \in free : distance(n) <= distance(k)

-----------------------------------------------------------------------------
\* A call gets its proxy.  alloc_proxy holds the pool's mutex, also while a new
\* proxy starts its server.

\* creq_controller::resolve makes a creq_context.
resolve(c) ==
    /\ step[c] = "idle"
    /\ Goto(c, "queued")
    /\ UNCHANGED <<ports, pool, holder, servers, port, flags, faults>>

\* A proxy from the pool.
reuse_proxy(c) ==
    /\ step[c] = "queued" /\ holder = NoCall /\ pool # <<>>
    /\ port' = [port EXCEPT ![c] = Head(pool)]
    /\ pool' = Tail(pool)
    /\ Goto(c, "have_proxy")
    /\ UNCHANGED <<ports, holder, servers, flags, faults>>

\* A new proxy: alloc_port throws if all ports are in use.
alloc_port(c) ==
    LET p == find_unused_number
    IN  /\ step[c] = "queued" /\ holder = NoCall /\ pool = <<>>
        /\ IF p = NoPort
             THEN Goto(c, "failed") /\ UNCHANGED <<ports, holder, port>>
             ELSE /\ inUse' = inUse \cup {p}
                  /\ nextPort' = increase(p)
                  /\ port' = [port EXCEPT ![c] = p]
                  /\ holder' = c
                  /\ Goto(c, "pinging")
        /\ UNCHANGED <<pool, servers, flags, faults>>

\* Whether a server answers on a port.
server_is_running(p) == server[p] \in {"own", "foreign"}

\* ensure_server: whatever answers the ping is taken for the server; otherwise
\* a process is started, which may be impossible.
ensure_server(c) ==
    LET p == port[c]
    IN  /\ step[c] = "pinging"
        /\ \/ /\ server_is_running(p)
              /\ Goto(c, "have_proxy")
              /\ holder' = NoCall
              /\ UNCHANGED <<server, port, faults>>
           \/ /\ ~server_is_running(p)
              /\ server' = [server EXCEPT ![p] = "starting"]
              /\ Goto(c, "awaiting_server")
              /\ UNCHANGED <<holder, port, faults>>
           \/ /\ ~server_is_running(p) /\ faults < MaxFaults
              /\ faults' = faults + 1
              /\ Goto(c, "failed")
              /\ holder' = NoCall
              /\ port' = [port EXCEPT ![c] = NoPort]
              /\ UNCHANGED server
        /\ UNCHANGED <<ports, pool, child, contexts, flags>>

\* Mutant: there is no timeout.
wait_for_ever(c) ==
    /\ step[c] = "awaiting_server"
    /\ server_is_running(port[c])
    /\ child' = child \cup {port[c]}
    /\ Goto(c, "have_proxy")
    /\ holder' = NoCall
    /\ UNCHANGED <<ports, pool, server, port, contexts, flags, faults>>

\* start_server: the server answers; or it did not in time, and the process is
\* terminated.  The constructor throws, so that nobody frees the port.
wait_until_server_running(c) ==
    LET p == port[c]
    IN  /\ step[c] = "awaiting_server"
        /\ IF server_is_running(p)
             THEN /\ child' = child \cup {p}
                  /\ Goto(c, "have_proxy")
                  /\ UNCHANGED <<server, port>>
             ELSE /\ server[p] = "none"
                  /\ Goto(c, "failed")
                  /\ port' = [port EXCEPT ![c] = NoPort]
                  /\ UNCHANGED <<server, child>>
        /\ holder' = NoCall
        /\ UNCHANGED <<ports, pool, contexts, flags, faults>>

-----------------------------------------------------------------------------
\* The call on the server

\* An RPC call of c is answered if the server runs.
Answers(c) == server_is_running(port[c])

\* An exception leaves resolve(): the creq_context is destroyed.
Throws(c) == Goto(c, "finishing")

\* The creq_context becomes the delegate; a cancellation that was requested
\* before is passed on at once.
set_delegate(c) ==
    /\ step[c] = "have_proxy"
    /\ delegated' = delegated \cup {c}
    /\ cancelled' = IF c \in asked THEN cancelled \cup {c} ELSE cancelled
    /\ Goto(c, "delegating")
    /\ UNCHANGED <<ports, pool, holder, servers, port, asked, remoteId, succeeded, faults>>

throw_if_cancelled(c) ==
    /\ step[c] = "delegating"
    /\ IF c \in cancelled THEN Throws(c) ELSE Goto(c, "loading")
    /\ UNCHANGED <<ports, pool, holder, servers, port, flags, faults>>

load_shared_library(c) ==
    /\ step[c] = "loading"
    /\ IF Answers(c) THEN Goto(c, "submitting") ELSE Throws(c)
    /\ UNCHANGED <<ports, pool, holder, servers, port, flags, faults>>

SetContext(c, status) == contexts' = [contexts EXCEPT ![port[c]][c] = status]

submit_async(c) ==
    /\ step[c] = "submitting"
    /\ IF Answers(c)
         THEN SetContext(c, "running") /\ Goto(c, "submitted")
         ELSE Throws(c) /\ UNCHANGED contexts
    /\ UNCHANGED <<ports, pool, holder, server, child, port, flags, faults>>

\* A cancellation request reaches the context on the server.
Cancel(c) == IF contexts[port[c]][c] = "running"
             THEN SetContext(c, "cancelling") ELSE UNCHANGED contexts

\* Mutant: a cancellation that came first is not passed on.
set_remote_id_only(c) ==
    /\ step[c] = "submitted"
    /\ remoteId' = remoteId \cup {c}
    /\ Goto(c, "polling")
    /\ UNCHANGED <<ports, pool, holder, servers, port, asked, delegated, cancelled,
                   succeeded, faults>>

\* The id is known; a cancellation that came first is passed on now.
set_remote_id(c) ==
    /\ step[c] = "submitted"
    /\ remoteId' = remoteId \cup {c}
    /\ IF c \in cancelled
         THEN IF Answers(c) THEN Cancel(c) /\ Goto(c, "polling")
                            ELSE Throws(c) /\ UNCHANGED contexts
         ELSE Goto(c, "polling") /\ UNCHANGED contexts
    /\ UNCHANGED <<ports, pool, holder, server, child, port, asked, delegated, cancelled,
                   succeeded, faults>>

\* wait_until_async_finished: a cancelled or failed resolution throws, and so
\* does a poll that is not answered.
get_async_status(c) ==
    LET status == contexts[port[c]][c]
    IN  /\ step[c] = "polling"
        /\ \/ /\ ~Answers(c) \/ status \in {"cancelled", "error", "none"}
              /\ Throws(c)
           \/ /\ Answers(c) /\ status = "finished"
              /\ Goto(c, "fetching")
        /\ UNCHANGED <<ports, pool, holder, servers, port, flags, faults>>

get_async_response(c) ==
    /\ step[c] = "fetching"
    /\ succeeded' = IF Answers(c) THEN succeeded \cup {c} ELSE succeeded
    /\ Throws(c)
    /\ UNCHANGED <<ports, pool, holder, servers, port, asked, delegated, cancelled,
                   remoteId, faults>>

\* Somebody cancels the call.  Once it has a delegate the request goes to the
\* server, if its id is known; an error there is only logged.
request_cancellation(c) ==
    /\ c \notin asked /\ step[c] \notin {"done", "failed"}
    /\ asked' = asked \cup {c}
    /\ IF c \in delegated
         THEN /\ cancelled' = cancelled \cup {c}
              /\ IF c \in remoteId /\ Answers(c) THEN Cancel(c) ELSE UNCHANGED contexts
         ELSE UNCHANGED <<cancelled, contexts>>
    /\ UNCHANGED <<ports, pool, holder, server, child, step, port, delegated, remoteId,
                   succeeded, faults>>

-----------------------------------------------------------------------------
\* ~creq_context

\* Mutant: the context on the server is left.
finish_nothing(c) ==
    /\ step[c] = "finishing"
    /\ delegated' = delegated \ {c}
    /\ Goto(c, "freeing")
    /\ UNCHANGED <<ports, pool, holder, servers, port, asked, cancelled, remoteId,
                   succeeded, faults>>

\* finish_async, if the id is known; errors are only logged.  The context's
\* delegate has expired.
finish_remote(c) ==
    /\ step[c] = "finishing"
    /\ IF c \in remoteId /\ Answers(c) THEN SetContext(c, "none") ELSE UNCHANGED contexts
    /\ delegated' = delegated \ {c}
    /\ Goto(c, "freeing")
    /\ UNCHANGED <<ports, pool, holder, server, child, port, asked, cancelled, remoteId,
                   succeeded, faults>>

\* Mutant: the process is left running.
stop_nothing(p) == UNCHANGED <<server, contexts>> /\ child' = child \ {p}

\* What runs on port p once its proxy is destroyed: stop_server ends the
\* process if the proxy started it.
stop_server(p) ==
    /\ server' = IF p \in child THEN [server EXCEPT ![p] = "none"] ELSE server
    /\ contexts' = IF p \in child THEN [contexts EXCEPT ![p] = [d \in Calls |-> "none"]]
                   ELSE contexts
    /\ child' = child \ {p}

\* The proxy goes back to the pool, or is destroyed and its port freed.
free_proxy(c) ==
    LET p == port[c]
    IN  /\ step[c] = "freeing" /\ holder = NoCall
        /\ IF c \in succeeded
             THEN pool' = Append(pool, p) /\ UNCHANGED <<inUse, servers>>
             ELSE inUse' = inUse \ {p} /\ stop_server(p) /\ UNCHANGED pool
        /\ port' = [port EXCEPT ![c] = NoPort]
        /\ Goto(c, IF c \in succeeded THEN "done" ELSE "failed")
        /\ UNCHANGED <<nextPort, holder, flags, faults>>

-----------------------------------------------------------------------------
\* The servers

\* A started process listens, or ends.
server_starts(p) ==
    /\ server[p] = "starting"
    /\ \/ server' = [server EXCEPT ![p] = "own"] /\ UNCHANGED faults
       \/ /\ faults < MaxFaults /\ faults' = faults + 1
          /\ server' = [server EXCEPT ![p] = "none"]
    /\ UNCHANGED <<ports, pool, holder, child, contexts, step, port, flags>>

\* The function of a context ends; a cancelled one sees that when it polls.
function_ends(p, c) ==
    /\ server_is_running(p) /\ contexts[p][c] \in {"running", "cancelling"}
    /\ \E s \in {"finished", "error"} \cup
                (IF contexts[p][c] = "cancelling" THEN {"cancelled"} ELSE {}) :
          contexts' = [contexts EXCEPT ![p][c] = s]
    /\ UNCHANGED <<ports, pool, holder, server, child, step, port, flags, faults>>

\* A server dies.
server_dies(p) ==
    /\ server[p] = "own" /\ faults < MaxFaults
    /\ faults' = faults + 1
    /\ server' = [server EXCEPT ![p] = "none"]
    /\ contexts' = [contexts EXCEPT ![p] = [c \in Calls |-> "none"]]
    /\ UNCHANGED <<ports, pool, holder, child, step, port, flags>>

-----------------------------------------------------------------------------
\* Another program's server may listen on one of the ports.
CInit ==
    /\ inUse = {} /\ nextPort = 0 /\ pool = <<>> /\ holder = NoCall
    /\ server \in {s \in [Ports -> {"none", "foreign"}] :
                      \A p \in Ports : s[p] = "foreign" => p = RangeSize - 1}
    /\ child = {}
    /\ contexts = [p \in Ports |-> [c \in Calls |-> "none"]]
    /\ step = [c \in Calls |-> "idle"]
    /\ port = [c \in Calls |-> NoPort]
    /\ asked = {} /\ delegated = {} /\ cancelled = {} /\ remoteId = {} /\ succeeded = {}
    /\ faults = 0

CallSteps(c) ==
    \/ reuse_proxy(c) \/ alloc_port(c) \/ ensure_server(c) \/ wait_until_server_running(c)
    \/ set_delegate(c) \/ throw_if_cancelled(c) \/ load_shared_library(c)
    \/ submit_async(c) \/ set_remote_id(c) \/ get_async_status(c) \/ get_async_response(c)
    \/ finish_remote(c) \/ free_proxy(c)

ServerSteps(p) == server_starts(p) \/ \E c \in Calls : function_ends(p, c)

CNext ==
    \/ \E c \in Calls : CallSteps(c) \/ resolve(c) \/ request_cancellation(c)
    \/ \E p \in Ports : ServerSteps(p) \/ server_dies(p)

\* The coroutine of a call and the server processes keep running.
CSpec == /\ CInit /\ [][CNext]_cvars
         /\ \A c \in Calls : WF_cvars(CallSteps(c))
         /\ \A p \in Ports : WF_cvars(ServerSteps(p))

-----------------------------------------------------------------------------
\* Properties

\* The types of the variables.
ContainmentTypeOK ==
    /\ inUse \subseteq Ports /\ nextPort \in Ports /\ pool \in Seq(Ports)
    /\ holder \in Calls \cup {NoCall}
    /\ server \in [Ports -> {"none", "starting", "own", "foreign"}] /\ child \subseteq Ports
    /\ contexts \in [Ports -> [Calls -> Statuses]]
    /\ step \in [Calls -> Steps] /\ port \in [Calls -> Ports \cup {NoPort}]
    /\ \A s \in {asked, delegated, cancelled, remoteId, succeeded} : s \subseteq Calls
    /\ faults \in 0 .. MaxFaults

\* The proxies that exist: those of calls, and those in the pool.
Owners(p) == {c \in Calls : port[c] = p} \cup {<<"pool", i>> : i \in {j \in DOMAIN pool : pool[j] = p}}

\* A port has one proxy at most, and a server process that was started has its
\* proxy: none is left behind when a call fails, is cancelled or loses its
\* server, and none is shared by two calls.
OneOwnerPerServer ==
    \A p \in Ports :
       /\ Cardinality(Owners(p)) <= 1
       /\ server[p] \in {"starting", "own"} => Owners(p) # {}
       /\ Owners(p) # {} => p \in inUse

\* A server in the pool has no resolution of an earlier call left.
PooledServersClean ==
    \A i \in DOMAIN pool : \A c \in Calls : contexts[pool[i]][c] = "none"

\* A cancellation is not lost between the moment when it is requested and the
\* moment when the id of the remote context becomes known: a call that polls
\* does not wait for a function that was never told.
CancellationArrives ==
    \A c \in Calls :
       step[c] = "polling" /\ c \in asked /\ Answers(c) => contexts[port[c]][c] # "running"

\* Every contained call ends: whichever servers die or fail to start, and while
\* other calls hold the pool's mutex to start theirs.
CallEnds == \A c \in Calls : step[c] = "queued" ~> step[c] \in {"done", "failed"}
=============================================================================
