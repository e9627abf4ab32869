-------------------------- MODULE ContainmentProofs --------------------------
(* Machine-checked proofs about Containment, for every set of calls, every *)
(* number of ports and any number of servers that die or do not start.     *)
EXTENDS Containment, FiniteSetTheorems, SequenceTheorems, WellFoundedInduction, TLAPS

-----------------------------------------------------------------------------
(* The inductive invariant.                                                *)

\* Steps of a call that has no proxy, and of one whose proxy is being made.
NoProxySteps == {"idle", "queued", "done", "failed"}
StartSteps   == {"pinging", "awaiting_server"}

\* Steps of a call whose creq_context is the delegate of its context, and of one
\* that may have left a context on the server.
DelegateSteps == {"delegating", "loading", "submitting", "submitted", "polling",
                  "fetching", "finishing"}
ContextSteps  == {"submitted", "polling", "fetching", "finishing"}

\* A call has a port from the moment it allocates it until it frees it, and the
\* pool's mutex while it starts a server.
StepsAgree ==
    \A c \in Calls : /\ port[c] = NoPort <=> step[c] \in NoProxySteps
                     /\ holder = c <=> step[c] \in StartSteps

\* No two proxies have the same port, and the port of a proxy is allocated.
PortsDistinct ==
    /\ \A c, d \in Calls : port[c] = port[d] /\ port[c] # NoPort => c = d
    /\ \A i, j \in DOMAIN pool : pool[i] = pool[j] => i = j
    /\ \A c \in Calls : \A i \in DOMAIN pool : port[c] # pool[i]
    /\ \A c \in Calls : port[c] # NoPort => port[c] \in inUse
    /\ \A i \in DOMAIN pool : pool[i] \in inUse

\* The server that a call waits for, and the proxy that a server belongs to.
Awaited(p) == \E c \in Calls : port[c] = p /\ step[c] = "awaiting_server"
HasProxy(p) == \/ \E c \in Calls : port[c] = p /\ step[c] \notin StartSteps
               \/ \E i \in DOMAIN pool : pool[i] = p

\* A process that was started is awaited by its call, or is the child of a proxy.
ServersOwned ==
    \A p \in Ports : /\ server[p] = "starting" => Awaited(p)
                     /\ server[p] = "own" => p \in child \/ Awaited(p)
                     /\ p \in child => HasProxy(p)

\* A context lives on a running server, that of its call, which has not finished
\* it yet and which knows its id from "polling" on.
ContextsOwned ==
    \A p \in Ports, c \in Calls :
       contexts[p][c] # "none" => /\ port[c] = p /\ step[c] \in ContextSteps
                                  /\ server_is_running(p)
                                  /\ step[c] = "submitted" \/ c \in remoteId

\* A cancellation reaches the creq_context once that is the delegate, and the
\* context on the server once its id is known.
CancellationForwarded ==
    \A c \in Calls :
       /\ c \in delegated <=> step[c] \in DelegateSteps
       /\ c \in delegated /\ c \in asked => c \in cancelled
       /\ step[c] = "polling" => /\ c \in remoteId
                                 /\ c \in asked => contexts[port[c]][c] # "running"

ContainmentInv ==
    /\ ContainmentTypeOK
    /\ StepsAgree
    /\ PortsDistinct
    /\ ServersOwned
    /\ ContextsOwned
    /\ CancellationForwarded

-----------------------------------------------------------------------------
(* The port owner.                                                         *)

\* A nonempty set of natural numbers has a smallest element.
LEMMA SmallestElement ==
    ASSUME NEW S \in SUBSET Nat, S # {}
    PROVE  \E n \in S : \A m \in S : n <= m
<1> DEFINE R == {p \in Nat \X Nat : p[1] < p[2]}
<1>1. IsWellFoundedOn(R, Nat)
  BY NatLessThanWellFounded, Zenon DEF OpToRel
<1> HIDE DEF R
<1>2. PICK n \in S : \A m \in S : <<m, n>> \notin R
  BY <1>1, WFMin
<1>3. ASSUME NEW m \in S
      PROVE  n <= m
  <2>1. <<m, n>> \in R <=> m < n
    BY DEF R
  <2> QED
    BY <1>2, <2>1
<1> QED
  BY <1>3

\* What a sequence holds once an element is appended.
LEMMA AppendFacts ==
    ASSUME NEW S, NEW q \in Seq(S), NEW e \in S
    PROVE  /\ Append(q, e) \in Seq(S) /\ DOMAIN Append(q, e) = DOMAIN q \cup {Len(q) + 1}
           /\ Len(q) + 1 \notin DOMAIN q /\ Append(q, e)[Len(q) + 1] = e
           /\ \A i \in DOMAIN q : Append(q, e)[i] = q[i]
OBVIOUS

\* A step that sets one status leaves the others, and the type, as they were.
LEMMA ContextsType ==
    ASSUME contexts \in [Ports -> [Calls -> Statuses]], NEW p \in Ports, NEW c \in Calls,
           \/ UNCHANGED contexts
           \/ \E s \in Statuses : contexts' = [contexts EXCEPT ![p][c] = s]
    PROVE  contexts' \in [Ports -> [Calls -> Statuses]]
OBVIOUS

\* Ports are numbered from 0 on, and NoPort is none of them.
LEMMA PortFacts ==
    /\ NoPort \notin Ports
    /\ \A n \in Ports : n \in Nat /\ increase(n) \in Ports
BY RangeIsPositive DEF Ports, NoPort, increase

\* find_unused_number finds a port that nobody uses, if there is one.
LEMMA UnusedIfAny ==
    ASSUME nextPort \in Ports, Ports \ inUse # {}
    PROVE  find_unused_number \in Ports \ inUse
<1> DEFINE free == Ports \ inUse
           distance(n) == (n + RangeSize - nextPort) % RangeSize
           D == {distance(n) : n \in free}
<1>1. free # {}
  OBVIOUS
<1>2. \A n \in free : distance(n) \in Nat
  BY RangeIsPositive DEF Ports
<1>3. D \in SUBSET Nat /\ D # {}
  BY <1>1, <1>2
<1>4. PICK d \in D : \A e \in D : d <= e
  BY <1>3, SmallestElement, Zenon
<1>5. \E n \in free : \A k \in free : distance(n) <= distance(k)
  BY <1>4
<1>6. (CHOOSE n \in free : \A k \in free : distance(n) <= distance(k)) \in free
  BY <1>5, Zenon
<1> QED
  BY <1>1, <1>6, Zenon DEF find_unused_number

\* A number that it finds is that of a port which nobody uses.
LEMMA UnusedNumber ==
    ASSUME nextPort \in Ports, find_unused_number # NoPort
    PROVE  find_unused_number \in Ports \ inUse
<1>1. Ports \ inUse # {}
  BY DEF find_unused_number
<1> QED
  BY <1>1, UnusedIfAny

-----------------------------------------------------------------------------
(* The steps of a call.                                                    *)

\* A call is made.
LEMMA ResolveStep ==
    ASSUME ContainmentInv, NEW c \in Calls, resolve(c)
    PROVE  ContainmentInv'
<1> USE PortFacts, RangeIsPositive DEF ContainmentInv, ContainmentTypeOK, resolve, Goto,
        ports, servers, flags, server_is_running, NoProxySteps, StartSteps,
        DelegateSteps, ContextSteps, Steps, Statuses
<1>1. ContainmentTypeOK'
  BY DEF StepsAgree
<1>2. StepsAgree'
  BY DEF StepsAgree
<1>3. PortsDistinct'
  BY DEF StepsAgree, PortsDistinct
<1>4. ServersOwned'
  BY DEF StepsAgree, PortsDistinct, ServersOwned, Awaited, HasProxy
<1>5. ContextsOwned'
  BY DEF StepsAgree, PortsDistinct, ContextsOwned
<1>6. CancellationForwarded'
  BY DEF StepsAgree, PortsDistinct, ContextsOwned, CancellationForwarded
<1> QED
  BY <1>1, <1>2, <1>3, <1>4, <1>5, <1>6

\* A call takes a proxy from the pool, whose port no other proxy has.
LEMMA ReuseProxyStep ==
    ASSUME ContainmentInv, NEW c \in Calls, reuse_proxy(c)
    PROVE  ContainmentInv'
<1> USE PortFacts, RangeIsPositive DEF ContainmentInv, ContainmentTypeOK, reuse_proxy,
        Goto, ports, servers, flags, server_is_running, NoProxySteps, StartSteps,
        DelegateSteps, ContextSteps, Steps, Statuses
<1>a. /\ Head(pool) = pool[1] /\ 1 \in DOMAIN pool
      /\ \A i \in DOMAIN pool' : i + 1 \in DOMAIN pool /\ pool'[i] = pool[i + 1]
      /\ \A i \in DOMAIN pool : i = 1 \/ (i - 1 \in DOMAIN pool' /\ pool'[i - 1] = pool[i])
  OBVIOUS
<1>1. ContainmentTypeOK'
  BY <1>a DEF StepsAgree
<1>2. StepsAgree'
  BY <1>a DEF StepsAgree
<1>3. PortsDistinct'
  BY <1>a DEF StepsAgree, PortsDistinct
<1>4. ServersOwned'
  <2>1. \A q \in Ports : Awaited(q) => Awaited(q)'
    BY DEF Awaited, StepsAgree
  <2>2. ASSUME NEW q \in Ports, HasProxy(q)
        PROVE  HasProxy(q)'
    <3>1. CASE \E d \in Calls : port[d] = q /\ step[d] \notin StartSteps
      BY <3>1 DEF HasProxy, StepsAgree
    <3>2. ASSUME NEW i \in DOMAIN pool, pool[i] = q
          PROVE  HasProxy(q)'
      <4>1. CASE i = 1
        BY <1>a, <3>2, <4>1 DEF HasProxy
      <4>2. CASE i # 1
        BY <1>a, <3>2, <4>2 DEF HasProxy
      <4> QED
        BY <4>1, <4>2
    <3> QED
      BY <2>2, <3>1, <3>2 DEF HasProxy
  <2> QED
    BY <2>1, <2>2 DEF ServersOwned
<1>5. ContextsOwned'
  BY <1>a DEF StepsAgree, PortsDistinct, ContextsOwned
<1>6. CancellationForwarded'
  BY <1>a DEF StepsAgree, PortsDistinct, ContextsOwned, CancellationForwarded
<1> QED
  BY <1>1, <1>2, <1>3, <1>4, <1>5, <1>6

\* A call allocates a port, or finds none.
LEMMA AllocPortStep ==
    ASSUME ContainmentInv, NEW c \in Calls, alloc_port(c)
    PROVE  ContainmentInv'
<1> USE PortFacts, RangeIsPositive DEF ContainmentInv, ContainmentTypeOK, alloc_port,
        Goto, ports, servers, flags, server_is_running, NoProxySteps, StartSteps,
        DelegateSteps, ContextSteps, Steps, Statuses
<1> DEFINE p == find_unused_number
<1>a. p # NoPort => p \in Ports \ inUse
  BY UnusedNumber
<1>b. \/ /\ UNCHANGED <<inUse, nextPort, holder, port>>
         /\ step' = [step EXCEPT ![c] = "failed"]
      \/ /\ p # NoPort
         /\ inUse' = inUse \cup {p} /\ nextPort' = increase(p)
         /\ port' = [port EXCEPT ![c] = p] /\ holder' = c
         /\ step' = [step EXCEPT ![c] = "pinging"]
  OBVIOUS
<1>c. pool = <<>> /\ step[c] = "queued" /\ holder = NoCall /\ pool' = pool
  OBVIOUS
<1>d. UNCHANGED <<server, child, contexts, asked, delegated, cancelled, remoteId, succeeded,
                  faults>>
  OBVIOUS
<1> HIDE DEF p, alloc_port
<1>1. ContainmentTypeOK'
  <2>1. inUse' \subseteq Ports /\ nextPort' \in Ports
    BY <1>a, <1>b
  <2>2. port' \in [Calls -> Ports \cup {NoPort}]
    BY <1>a, <1>b
  <2>3. holder' \in Calls \cup {NoCall} /\ step' \in [Calls -> Steps]
    BY <1>b
  <2> QED
    BY <1>c, <1>d, <2>1, <2>2, <2>3
<1>2. StepsAgree'
  BY <1>a, <1>b, <1>c, <1>d DEF StepsAgree
<1>3. PortsDistinct'
  <2>1. DOMAIN pool' = {}
    BY <1>c
  <2>2. \A d \in Calls : port'[d] # NoPort => port'[d] = port[d] \/ (d = c /\ port'[d] = p)
    BY <1>b
  <2>3. \A d \in Calls : port[d] # p \/ p = NoPort
    BY <1>a DEF PortsDistinct
  <2>4. \A d \in Calls : port'[d] # NoPort => port'[d] \in inUse'
    BY <1>a, <1>b DEF PortsDistinct
  <2>5. \A d \in Calls : d # c => port'[d] = port[d]
    BY <1>b
  <2>6. \A d, e \in Calls : port'[d] = port'[e] /\ port'[d] # NoPort => d = e
    BY <1>b, <2>2, <2>3, <2>5 DEF PortsDistinct
  <2> QED
    BY <2>1, <2>4, <2>6 DEF PortsDistinct
<1>4. ServersOwned'
  BY <1>a, <1>b, <1>c, <1>d DEF StepsAgree, PortsDistinct, ServersOwned, Awaited, HasProxy
<1>5. ContextsOwned'
  BY <1>a, <1>b, <1>c, <1>d DEF StepsAgree, PortsDistinct, ContextsOwned
<1>6. CancellationForwarded'
  BY <1>a, <1>b, <1>c, <1>d DEF StepsAgree, PortsDistinct, ContextsOwned, CancellationForwarded
<1> QED
  BY <1>1, <1>2, <1>3, <1>4, <1>5, <1>6

\* A call finds a server on its port, starts one or cannot.
LEMMA EnsureServerStep ==
    ASSUME ContainmentInv, NEW c \in Calls, ensure_server(c)
    PROVE  ContainmentInv'
<1> USE PortFacts, RangeIsPositive DEF ContainmentInv, ContainmentTypeOK, ensure_server,
        Goto, server_is_running, ports, flags, NoProxySteps, StartSteps, DelegateSteps,
        ContextSteps, Steps, Statuses
<1>1. ContainmentTypeOK'
  <2>1. port[c] \in Ports
    BY DEF StepsAgree
  <2>2. /\ server' \in [Ports -> {"none", "starting", "own", "foreign"}]
        /\ port' \in [Calls -> Ports \cup {NoPort}] /\ step' \in [Calls -> Steps]
    BY <2>1
  <2>3. faults' \in 0 .. MaxFaults /\ holder' \in Calls \cup {NoCall}
    OBVIOUS
  <2> QED
    BY <2>2, <2>3
<1>2. StepsAgree'
  BY DEF StepsAgree
<1>3. PortsDistinct'
  <2>1. port' = port \/ port' = [port EXCEPT ![c] = NoPort]
    OBVIOUS
  <2>2. UNCHANGED <<pool, inUse>>
    OBVIOUS
  <2>3. \A d \in Calls : port'[d] # NoPort => port'[d] = port[d]
    BY <2>1
  <2>4. \A i \in DOMAIN pool : pool[i] # NoPort
    OBVIOUS
  <2> QED
    BY <2>2, <2>3, <2>4 DEF PortsDistinct
<1>4. ServersOwned'
  BY DEF StepsAgree, PortsDistinct, ServersOwned, Awaited, HasProxy
<1>5. ContextsOwned'
  BY DEF StepsAgree, PortsDistinct, ContextsOwned
<1>6. CancellationForwarded'
  BY DEF StepsAgree, PortsDistinct, ContextsOwned, CancellationForwarded
<1> QED
  BY <1>1, <1>2, <1>3, <1>4, <1>5, <1>6

\* The server a call waits for answers, or the call gives up.
LEMMA WaitUntilServerRunningStep ==
    ASSUME ContainmentInv, NEW c \in Calls, wait_until_server_running(c)
    PROVE  ContainmentInv'
<1> USE PortFacts, RangeIsPositive DEF ContainmentInv, ContainmentTypeOK,
        wait_until_server_running, Goto, server_is_running, ports, flags, NoProxySteps,
        StartSteps, DelegateSteps, ContextSteps, Steps, Statuses
<1>1. ContainmentTypeOK'
  BY DEF StepsAgree
<1>2. StepsAgree'
  BY DEF StepsAgree
<1>3. PortsDistinct'
  <2>1. port' = port \/ port' = [port EXCEPT ![c] = NoPort]
    OBVIOUS
  <2>2. UNCHANGED <<pool, inUse>>
    OBVIOUS
  <2>3. \A d \in Calls : port'[d] # NoPort => port'[d] = port[d]
    BY <2>1
  <2>4. \A i \in DOMAIN pool : pool[i] # NoPort
    OBVIOUS
  <2> QED
    BY <2>2, <2>3, <2>4 DEF PortsDistinct
<1>4. ServersOwned'
  BY DEF StepsAgree, PortsDistinct, ServersOwned, Awaited, HasProxy
<1>5. ContextsOwned'
  BY DEF StepsAgree, PortsDistinct, ContextsOwned
<1>6. CancellationForwarded'
  BY DEF StepsAgree, PortsDistinct, ContextsOwned, CancellationForwarded
<1> QED
  BY <1>1, <1>2, <1>3, <1>4, <1>5, <1>6

\* The creq_context becomes the delegate.
LEMMA SetDelegateStep ==
    ASSUME ContainmentInv, NEW c \in Calls, set_delegate(c)
    PROVE  ContainmentInv'
<1> USE PortFacts, RangeIsPositive DEF ContainmentInv, ContainmentTypeOK, set_delegate,
        Goto, ports, servers, server_is_running, NoProxySteps, StartSteps,
        DelegateSteps, ContextSteps, Steps, Statuses
<1>1. ContainmentTypeOK'
  BY DEF StepsAgree
<1>2. StepsAgree'
  BY DEF StepsAgree
<1>3. PortsDistinct'
  BY DEF StepsAgree, PortsDistinct
<1>4. ServersOwned'
  BY DEF StepsAgree, PortsDistinct, ServersOwned, Awaited, HasProxy
<1>5. ContextsOwned'
  BY DEF StepsAgree, PortsDistinct, ContextsOwned
<1>6. CancellationForwarded'
  BY DEF StepsAgree, PortsDistinct, ContextsOwned, CancellationForwarded
<1> QED
  BY <1>1, <1>2, <1>3, <1>4, <1>5, <1>6

\* A call that was cancelled early ends.
LEMMA ThrowIfCancelledStep ==
    ASSUME ContainmentInv, NEW c \in Calls, throw_if_cancelled(c)
    PROVE  ContainmentInv'
<1> USE PortFacts, RangeIsPositive DEF ContainmentInv, ContainmentTypeOK,
        throw_if_cancelled, Goto, Throws, ports, servers, flags, server_is_running,
        NoProxySteps, StartSteps, DelegateSteps, ContextSteps, Steps, Statuses
<1>1. ContainmentTypeOK'
  BY DEF StepsAgree
<1>2. StepsAgree'
  BY DEF StepsAgree
<1>3. PortsDistinct'
  BY DEF StepsAgree, PortsDistinct
<1>4. ServersOwned'
  BY DEF StepsAgree, PortsDistinct, ServersOwned, Awaited, HasProxy
<1>5. ContextsOwned'
  BY DEF StepsAgree, PortsDistinct, ContextsOwned
<1>6. CancellationForwarded'
  BY DEF StepsAgree, PortsDistinct, ContextsOwned, CancellationForwarded
<1> QED
  BY <1>1, <1>2, <1>3, <1>4, <1>5, <1>6

\* The DLL is loaded on the server.
LEMMA LoadSharedLibraryStep ==
    ASSUME ContainmentInv, NEW c \in Calls, load_shared_library(c)
    PROVE  ContainmentInv'
<1> USE PortFacts, RangeIsPositive DEF ContainmentInv, ContainmentTypeOK,
        load_shared_library, Goto, Throws, Answers, server_is_running, ports, servers,
        flags, NoProxySteps, StartSteps, DelegateSteps, ContextSteps, Steps, Statuses
<1>1. ContainmentTypeOK'
  BY DEF StepsAgree
<1>2. StepsAgree'
  BY DEF StepsAgree
<1>3. PortsDistinct'
  BY DEF StepsAgree, PortsDistinct
<1>4. ServersOwned'
  BY DEF StepsAgree, PortsDistinct, ServersOwned, Awaited, HasProxy
<1>5. ContextsOwned'
  BY DEF StepsAgree, PortsDistinct, ContextsOwned
<1>6. CancellationForwarded'
  BY DEF StepsAgree, PortsDistinct, ContextsOwned, CancellationForwarded
<1> QED
  BY <1>1, <1>2, <1>3, <1>4, <1>5, <1>6

\* The request is submitted.
LEMMA SubmitAsyncStep ==
    ASSUME ContainmentInv, NEW c \in Calls, submit_async(c)
    PROVE  ContainmentInv'
<1> USE PortFacts, RangeIsPositive DEF ContainmentInv, ContainmentTypeOK, submit_async,
        Goto, Throws, Answers, server_is_running, SetContext, ports, flags,
        NoProxySteps, StartSteps, DelegateSteps, ContextSteps, Steps, Statuses
<1>1. ContainmentTypeOK'
  <2>1. port[c] \in Ports
    BY DEF StepsAgree
  <2>2. \/ UNCHANGED contexts
        \/ \E s \in Statuses : contexts' = [contexts EXCEPT ![port[c]][c] = s]
    OBVIOUS
  <2>3. contexts' \in [Ports -> [Calls -> Statuses]]
    BY <2>1, <2>2, ContextsType
  <2>4. \A s \in {asked, delegated, cancelled, remoteId, succeeded}' : s \subseteq Calls
    OBVIOUS
  <2>5. step' \in [Calls -> Steps]
    OBVIOUS
  <2> QED
    BY <2>3, <2>4, <2>5
<1>2. StepsAgree'
  BY DEF StepsAgree
<1>3. PortsDistinct'
  BY DEF StepsAgree, PortsDistinct
<1>4. ServersOwned'
  <2>1. UNCHANGED <<server, child, port, pool>>
    OBVIOUS
  <2>2. \A d \in Calls : step'[d] \in StartSteps <=> step[d] \in StartSteps
    OBVIOUS
  <2>3. \A d \in Calls : step'[d] = "awaiting_server" <=> step[d] = "awaiting_server"
    OBVIOUS
  <2>4. \A q \in Ports : (Awaited(q) => Awaited(q)') /\ (HasProxy(q) => HasProxy(q)')
    BY <2>1, <2>2, <2>3 DEF Awaited, HasProxy
  <2> QED
    BY <2>1, <2>4 DEF ServersOwned
<1>5. ContextsOwned'
  BY DEF StepsAgree, PortsDistinct, ContextsOwned
<1>6. CancellationForwarded'
  BY DEF StepsAgree, PortsDistinct, ContextsOwned, CancellationForwarded
<1> QED
  BY <1>1, <1>2, <1>3, <1>4, <1>5, <1>6

\* The id is known; an early cancellation is passed on.
LEMMA SetRemoteIdStep ==
    ASSUME ContainmentInv, NEW c \in Calls, set_remote_id(c)
    PROVE  ContainmentInv'
<1> USE PortFacts, RangeIsPositive DEF ContainmentInv, ContainmentTypeOK, set_remote_id,
        Goto, Throws, Answers, server_is_running, SetContext, Cancel, ports,
        NoProxySteps, StartSteps, DelegateSteps, ContextSteps, Steps, Statuses
<1>1. ContainmentTypeOK'
  <2>1. port[c] \in Ports
    BY DEF StepsAgree
  <2>2. \/ UNCHANGED contexts
        \/ \E s \in Statuses : contexts' = [contexts EXCEPT ![port[c]][c] = s]
    OBVIOUS
  <2>3. contexts' \in [Ports -> [Calls -> Statuses]]
    BY <2>1, <2>2, ContextsType
  <2>4. \A s \in {asked, delegated, cancelled, remoteId, succeeded}' : s \subseteq Calls
    OBVIOUS
  <2>5. step' \in [Calls -> Steps]
    OBVIOUS
  <2> QED
    BY <2>3, <2>4, <2>5
<1>2. StepsAgree'
  BY DEF StepsAgree
<1>3. PortsDistinct'
  BY DEF StepsAgree, PortsDistinct
<1>4. ServersOwned'
  <2>1. UNCHANGED <<server, child, port, pool>>
    OBVIOUS
  <2>2. \A d \in Calls : step'[d] \in StartSteps <=> step[d] \in StartSteps
    OBVIOUS
  <2>3. \A d \in Calls : step'[d] = "awaiting_server" <=> step[d] = "awaiting_server"
    OBVIOUS
  <2>4. \A q \in Ports : (Awaited(q) => Awaited(q)') /\ (HasProxy(q) => HasProxy(q)')
    BY <2>1, <2>2, <2>3 DEF Awaited, HasProxy
  <2> QED
    BY <2>1, <2>4 DEF ServersOwned
<1>5. ContextsOwned'
  BY DEF StepsAgree, PortsDistinct, ContextsOwned
<1>6. CancellationForwarded'
  BY DEF StepsAgree, PortsDistinct, ContextsOwned, CancellationForwarded
<1> QED
  BY <1>1, <1>2, <1>3, <1>4, <1>5, <1>6

\* The status is polled.
LEMMA GetAsyncStatusStep ==
    ASSUME ContainmentInv, NEW c \in Calls, get_async_status(c)
    PROVE  ContainmentInv'
<1> USE PortFacts, RangeIsPositive DEF ContainmentInv, ContainmentTypeOK,
        get_async_status, Goto, Throws, Answers, server_is_running, ports, servers,
        flags, NoProxySteps, StartSteps, DelegateSteps, ContextSteps, Steps, Statuses
<1>1. ContainmentTypeOK'
  BY DEF StepsAgree
<1>2. StepsAgree'
  BY DEF StepsAgree
<1>3. PortsDistinct'
  BY DEF StepsAgree, PortsDistinct
<1>4. ServersOwned'
  BY DEF StepsAgree, PortsDistinct, ServersOwned, Awaited, HasProxy
<1>5. ContextsOwned'
  BY DEF StepsAgree, PortsDistinct, ContextsOwned
<1>6. CancellationForwarded'
  BY DEF StepsAgree, PortsDistinct, ContextsOwned, CancellationForwarded
<1> QED
  BY <1>1, <1>2, <1>3, <1>4, <1>5, <1>6

\* The result is fetched.
LEMMA GetAsyncResponseStep ==
    ASSUME ContainmentInv, NEW c \in Calls, get_async_response(c)
    PROVE  ContainmentInv'
<1> USE PortFacts, RangeIsPositive DEF ContainmentInv, ContainmentTypeOK,
        get_async_response, Goto, Throws, Answers, server_is_running, ports, servers,
        NoProxySteps, StartSteps, DelegateSteps, ContextSteps, Steps, Statuses
<1>1. ContainmentTypeOK'
  BY DEF StepsAgree
<1>2. StepsAgree'
  BY DEF StepsAgree
<1>3. PortsDistinct'
  BY DEF StepsAgree, PortsDistinct
<1>4. ServersOwned'
  BY DEF StepsAgree, PortsDistinct, ServersOwned, Awaited, HasProxy
<1>5. ContextsOwned'
  BY DEF StepsAgree, PortsDistinct, ContextsOwned
<1>6. CancellationForwarded'
  BY DEF StepsAgree, PortsDistinct, ContextsOwned, CancellationForwarded
<1> QED
  BY <1>1, <1>2, <1>3, <1>4, <1>5, <1>6

\* The context on the server is removed.
LEMMA FinishRemoteStep ==
    ASSUME ContainmentInv, NEW c \in Calls, finish_remote(c)
    PROVE  ContainmentInv'
<1> USE PortFacts, RangeIsPositive DEF ContainmentInv, ContainmentTypeOK, finish_remote,
        Goto, Answers, server_is_running, SetContext, ports, NoProxySteps, StartSteps,
        DelegateSteps, ContextSteps, Steps, Statuses
<1>1. ContainmentTypeOK'
  <2>1. port[c] \in Ports
    BY DEF StepsAgree
  <2>2. \/ UNCHANGED contexts
        \/ \E s \in Statuses : contexts' = [contexts EXCEPT ![port[c]][c] = s]
    OBVIOUS
  <2>3. contexts' \in [Ports -> [Calls -> Statuses]]
    BY <2>1, <2>2, ContextsType
  <2>4. \A s \in {asked, delegated, cancelled, remoteId, succeeded}' : s \subseteq Calls
    OBVIOUS
  <2>5. step' \in [Calls -> Steps]
    OBVIOUS
  <2> QED
    BY <2>3, <2>4, <2>5
<1>2. StepsAgree'
  BY DEF StepsAgree
<1>3. PortsDistinct'
  BY DEF StepsAgree, PortsDistinct
<1>4. ServersOwned'
  BY DEF StepsAgree, PortsDistinct, ServersOwned, Awaited, HasProxy
<1>5. ContextsOwned'
  BY DEF StepsAgree, PortsDistinct, ContextsOwned
<1>6. CancellationForwarded'
  <2>1. /\ delegated' = delegated \ {c} /\ step'[c] = "freeing"
        /\ \A d \in Calls : d # c => step'[d] = step[d]
        /\ UNCHANGED <<asked, cancelled, remoteId, port>>
    OBVIOUS
  <2>2. ASSUME NEW d \in Calls, d # c, port[d] \in Ports
        PROVE  contexts'[port[d]][d] = contexts[port[d]][d]
    BY <2>2
  <2> QED
    BY <2>1, <2>2 DEF StepsAgree, CancellationForwarded
<1> QED
  BY <1>1, <1>2, <1>3, <1>4, <1>5, <1>6

\* The proxy goes to the pool, or its server is stopped.
LEMMA FreeProxyStep ==
    ASSUME ContainmentInv, NEW c \in Calls, free_proxy(c)
    PROVE  ContainmentInv'
<1> USE PortFacts, RangeIsPositive DEF ContainmentInv, ContainmentTypeOK, free_proxy,
        Goto, servers, flags, stop_server, server_is_running, NoProxySteps, StartSteps,
        DelegateSteps, ContextSteps, Steps, Statuses
<1>p. port[c] \in Ports
  BY DEF StepsAgree
<1>a. ASSUME c \in succeeded
      PROVE  /\ DOMAIN pool' = DOMAIN pool \cup {Len(pool) + 1} /\ pool' \in Seq(Ports)
             /\ Len(pool) + 1 \notin DOMAIN pool /\ pool'[Len(pool) + 1] = port[c]
             /\ \A i \in DOMAIN pool : pool'[i] = pool[i]
  <2> DEFINE r == Append(pool, port[c])
  <2>1. pool \in Seq(Ports) /\ pool' = r
    BY <1>a
  <2>2. /\ DOMAIN r = DOMAIN pool \cup {Len(pool) + 1} /\ r \in Seq(Ports)
        /\ Len(pool) + 1 \notin DOMAIN pool /\ r[Len(pool) + 1] = port[c]
        /\ \A i \in DOMAIN pool : r[i] = pool[i]
    BY ONLY <1>p, <2>1, AppendFacts
  <2> QED
    BY ONLY <2>1, <2>2
<1>1. ContainmentTypeOK'
  <2>1. pool' \in Seq(Ports) /\ inUse' \subseteq Ports /\ child' \subseteq Ports
    BY <1>a
  <2>2. server' \in [Ports -> {"none", "starting", "own", "foreign"}]
    BY <1>p
  <2>3. contexts' \in [Ports -> [Calls -> Statuses]]
    BY <1>p
  <2>4. step' \in [Calls -> Steps] /\ port' \in [Calls -> Ports \cup {NoPort}]
    OBVIOUS
  <2> QED
    BY <2>1, <2>2, <2>3, <2>4
<1>2. StepsAgree'
  BY <1>p, <1>a DEF StepsAgree
<1>3. PortsDistinct'
  <2>1. \A d \in Calls : port'[d] # NoPort => d # c /\ port'[d] = port[d]
    OBVIOUS
  <2>2. CASE c \in succeeded
    <3>1. \A i \in DOMAIN pool' : i \in DOMAIN pool \/ pool'[i] = port[c]
      BY <1>a, <2>2
    <3>2. \A i, j \in DOMAIN pool' : pool'[i] = pool'[j] => i = j
      BY <1>a, <2>2 DEF PortsDistinct
    <3>3. \A d \in Calls : \A i \in DOMAIN pool' : port'[d] # pool'[i]
      BY <1>p, <1>a, <2>1, <2>2, <3>1 DEF PortsDistinct
    <3>4. \A i \in DOMAIN pool' : pool'[i] \in inUse'
      BY <1>p, <1>a, <2>2, <3>1 DEF PortsDistinct
    <3> QED
      BY <2>1, <2>2, <3>2, <3>3, <3>4 DEF PortsDistinct
  <2>3. CASE c \notin succeeded
    BY <1>p, <2>1, <2>3 DEF PortsDistinct
  <2> QED
    BY <2>2, <2>3
<1>4. ServersOwned'
  BY <1>p, <1>a DEF StepsAgree, PortsDistinct, ServersOwned, Awaited, HasProxy
<1>5. ContextsOwned'
  BY <1>p, <1>a DEF StepsAgree, PortsDistinct, ContextsOwned
<1>6. CancellationForwarded'
  BY <1>p, <1>a DEF StepsAgree, PortsDistinct, ContextsOwned, CancellationForwarded
<1> QED
  BY <1>1, <1>2, <1>3, <1>4, <1>5, <1>6

\* The call is cancelled by another thread.
LEMMA RequestCancellationStep ==
    ASSUME ContainmentInv, NEW c \in Calls, request_cancellation(c)
    PROVE  ContainmentInv'
<1> USE PortFacts, RangeIsPositive DEF ContainmentInv, ContainmentTypeOK,
        request_cancellation, Answers, server_is_running, SetContext, Cancel, ports,
        NoProxySteps, StartSteps, DelegateSteps, ContextSteps, Steps, Statuses
<1>1. ContainmentTypeOK'
  <2>1. c \in delegated => port[c] \in Ports
    BY DEF StepsAgree, CancellationForwarded
  <2>2. UNCHANGED contexts \/ (c \in delegated /\ \E s \in Statuses :
                                contexts' = [contexts EXCEPT ![port[c]][c] = s])
    OBVIOUS
  <2>3. contexts' \in [Ports -> [Calls -> Statuses]]
    BY <2>1, <2>2, ContextsType
  <2>4. \A s \in {asked, delegated, cancelled, remoteId, succeeded}' : s \subseteq Calls
    OBVIOUS
  <2> QED
    BY <2>3, <2>4
<1>2. StepsAgree'
  BY DEF StepsAgree
<1>3. PortsDistinct'
  BY DEF StepsAgree, PortsDistinct
<1>4. ServersOwned'
  BY DEF StepsAgree, PortsDistinct, ServersOwned, Awaited, HasProxy
<1>5. ContextsOwned'
  BY DEF StepsAgree, PortsDistinct, ContextsOwned
<1>6. CancellationForwarded'
  BY DEF StepsAgree, PortsDistinct, ContextsOwned, CancellationForwarded
<1> QED
  BY <1>1, <1>2, <1>3, <1>4, <1>5, <1>6

-----------------------------------------------------------------------------
(* The steps of the servers.                                               *)

\* A process that was started listens, or ends.
LEMMA ServerStartsStep ==
    ASSUME ContainmentInv, NEW p \in Ports, server_starts(p)
    PROVE  ContainmentInv'
<1> USE RangeIsPositive DEF ContainmentInv, ContainmentTypeOK, server_starts,
        server_is_running, ports, flags, NoProxySteps, StartSteps, DelegateSteps,
        ContextSteps, Steps, Statuses
<1>1. ContainmentTypeOK'
  OBVIOUS
<1>2. StepsAgree'
  BY DEF StepsAgree
<1>3. PortsDistinct'
  BY DEF PortsDistinct
<1>4. ServersOwned'
  BY DEF StepsAgree, PortsDistinct, ServersOwned, Awaited, HasProxy
<1>5. ContextsOwned'
  BY DEF ContextsOwned
<1>6. CancellationForwarded'
  BY DEF ContextsOwned, CancellationForwarded
<1> QED
  BY <1>1, <1>2, <1>3, <1>4, <1>5, <1>6

\* A server dies, and its contexts with it.
LEMMA ServerDiesStep ==
    ASSUME ContainmentInv, NEW p \in Ports, server_dies(p)
    PROVE  ContainmentInv'
<1> USE RangeIsPositive DEF ContainmentInv, ContainmentTypeOK, server_dies,
        server_is_running, ports, flags, NoProxySteps, StartSteps, DelegateSteps,
        ContextSteps, Steps, Statuses
<1>1. ContainmentTypeOK'
  OBVIOUS
<1>2. StepsAgree'
  BY DEF StepsAgree
<1>3. PortsDistinct'
  BY DEF PortsDistinct
<1>4. ServersOwned'
  BY DEF StepsAgree, PortsDistinct, ServersOwned, Awaited, HasProxy
<1>5. ContextsOwned'
  BY DEF ContextsOwned
<1>6. CancellationForwarded'
  BY DEF ContextsOwned, CancellationForwarded
<1> QED
  BY <1>1, <1>2, <1>3, <1>4, <1>5, <1>6

\* The function of a context ends.
LEMMA FunctionEndsStep ==
    ASSUME ContainmentInv, NEW p \in Ports, NEW c \in Calls, function_ends(p, c)
    PROVE  ContainmentInv'
<1> USE RangeIsPositive DEF ContainmentInv, ContainmentTypeOK, function_ends,
        server_is_running, ports, flags, NoProxySteps, StartSteps, DelegateSteps,
        ContextSteps, Steps, Statuses
<1>1. ContainmentTypeOK'
  OBVIOUS
<1>2. StepsAgree'
  BY DEF StepsAgree
<1>3. PortsDistinct'
  BY DEF PortsDistinct
<1>4. ServersOwned'
  BY DEF StepsAgree, PortsDistinct, ServersOwned, Awaited, HasProxy
<1>5. ContextsOwned'
  BY DEF ContextsOwned
<1>6. CancellationForwarded'
  BY DEF ContextsOwned, CancellationForwarded
<1> QED
  BY <1>1, <1>2, <1>3, <1>4, <1>5, <1>6

-----------------------------------------------------------------------------
(* The invariant holds, and with it the properties.                        *)

\* The invariant holds initially.
LEMMA InitInv == CInit => ContainmentInv
<1> SUFFICES ASSUME CInit
             PROVE  ContainmentInv
  OBVIOUS
<1> USE PortFacts, RangeIsPositive DEF CInit, Ports
<1>1. ContainmentTypeOK
  BY DEF ContainmentTypeOK, Steps, Statuses
<1>2. StepsAgree /\ PortsDistinct
  BY DEF StepsAgree, PortsDistinct, NoProxySteps, StartSteps
<1>3. ServersOwned
  BY DEF ServersOwned
<1>4. ContextsOwned /\ CancellationForwarded
  BY DEF ContextsOwned, CancellationForwarded, DelegateSteps
<1> QED
  BY <1>1, <1>2, <1>3, <1>4 DEF ContainmentInv

\* Every step keeps the invariant.
LEMMA NextInv == ContainmentInv /\ [CNext]_cvars => ContainmentInv'
<1> SUFFICES ASSUME ContainmentInv, [CNext]_cvars
             PROVE  ContainmentInv'
  OBVIOUS
<1>1. ASSUME NEW c \in Calls, CallSteps(c) \/ resolve(c) \/ request_cancellation(c)
      PROVE  ContainmentInv'
  BY <1>1, ResolveStep, ReuseProxyStep, AllocPortStep, EnsureServerStep,
     WaitUntilServerRunningStep, SetDelegateStep, ThrowIfCancelledStep,
     LoadSharedLibraryStep, SubmitAsyncStep, SetRemoteIdStep, GetAsyncStatusStep,
     GetAsyncResponseStep, FinishRemoteStep, FreeProxyStep, RequestCancellationStep
     DEF CallSteps
<1>2. ASSUME NEW p \in Ports, ServerSteps(p) \/ server_dies(p)
      PROVE  ContainmentInv'
  BY <1>2, ServerStartsStep, FunctionEndsStep, ServerDiesStep DEF ServerSteps
<1>3. CASE UNCHANGED cvars
  BY <1>3 DEF cvars, ContainmentInv, ContainmentTypeOK, StepsAgree, PortsDistinct,
              ServersOwned, Awaited, HasProxy, ContextsOwned, server_is_running,
              CancellationForwarded
<1> QED
  BY <1>1, <1>2, <1>3 DEF CNext

\* The owners of a port are one call, one proxy of the pool or nobody.
LEMMA OwnersOfPort ==
    ASSUME ContainmentInv, NEW p \in Ports
    PROVE  Owners(p) = {} \/ \E x : Owners(p) = {x}
<1> DEFINE CO == {c \in Calls : port[c] = p}
           I  == {j \in DOMAIN pool : pool[j] = p}
           PO == {<<"pool", i>> : i \in I}
<1>1. Owners(p) = CO \cup PO
  BY DEF Owners
<1>2. \A x, y \in CO : x = y
  BY PortFacts DEF ContainmentInv, PortsDistinct
<1>3. \A i, j \in I : i = j
  BY DEF ContainmentInv, PortsDistinct
<1>4. \A x, y \in PO : x = y
  BY <1>3
<1>5. CO = {} \/ I = {}
  BY DEF ContainmentInv, PortsDistinct
<1>6. CO = {} \/ PO = {}
  BY <1>5
<1> HIDE DEF CO, PO
<1> QED
  BY <1>1, <1>2, <1>4, <1>6

\* The invariant implies that servers have one owner.
LEMMA OneOwner == ContainmentInv => OneOwnerPerServer
<1> SUFFICES ASSUME ContainmentInv, NEW p \in Ports
             PROVE  /\ Cardinality(Owners(p)) <= 1
                    /\ server[p] \in {"starting", "own"} => Owners(p) # {}
                    /\ Owners(p) # {} => p \in inUse
  BY DEF OneOwnerPerServer
<1>1. Cardinality(Owners(p)) <= 1
  <2>1. CASE Owners(p) = {}
    BY <2>1, FS_EmptySet
  <2>2. CASE \E x : Owners(p) = {x}
    BY <2>2, FS_Singleton
  <2> QED
    BY <2>1, <2>2, OwnersOfPort
<1>2. ASSUME server[p] \in {"starting", "own"}
      PROVE  Owners(p) # {}
  <2>1. Awaited(p) \/ HasProxy(p)
    BY <1>2 DEF ContainmentInv, ServersOwned
  <2> QED
    BY <2>1 DEF Awaited, HasProxy, Owners
<1>3. ASSUME Owners(p) # {}
      PROVE  p \in inUse
  BY <1>3, PortFacts DEF Owners, ContainmentInv, PortsDistinct
<1> QED
  BY <1>1, <1>2, <1>3

\* The variables keep their types: the ports stay in range, and no more servers
\* fail than the bound allows.
THEOREM ContainmentTypeCorrect == CSpec => []ContainmentTypeOK
<1>1. ContainmentInv => ContainmentTypeOK
  BY DEF ContainmentInv
<1> QED
  BY <1>1, InitInv, NextInv, PTL DEF CSpec

\* A port has one proxy at most and a process that was started has its proxy,
\* whichever calls fail, are cancelled or lose their server.
THEOREM OneProxyPerServer == CSpec => []OneOwnerPerServer
BY InitInv, NextInv, OneOwner, PTL DEF CSpec

\* A proxy that goes back to the pool has no resolution left on its server.
THEOREM PoolIsClean == CSpec => []PooledServersClean
<1>1. ContainmentInv => PooledServersClean
  BY DEF ContainmentInv, ContainmentTypeOK, PortsDistinct, ContextsOwned,
         PooledServersClean
<1> QED
  BY <1>1, InitInv, NextInv, PTL DEF CSpec

\* A call that polls does not wait for a function that was never told of the
\* cancellation: whichever came first, the request or the remote id.
THEOREM CancellationNotLost == CSpec => []CancellationArrives
<1>1. ContainmentInv => CancellationArrives
  BY DEF ContainmentInv, CancellationForwarded, CancellationArrives
<1> QED
  BY <1>1, InitInv, NextInv, PTL DEF CSpec

-----------------------------------------------------------------------------
(* Ports that are lost.                                                    *)

\* Ports of the proxies of calls and of those in the pool.
Owned == {p \in Ports : \/ \E c \in Calls : port[c] = p
                        \/ \E i \in DOMAIN pool : pool[i] = p}

\* Ports that are allocated but have no proxy: nobody will free them.
Leaked == inUse \ Owned

\* Ports whose server has ended before its proxy saw it run.
Doomed == {p \in Ports : /\ server[p] = "none"
                         /\ \E c \in Calls : port[c] = p /\ step[c] = "awaiting_server"}

LeakInv == ContainmentInv /\ Cardinality(Leaked \cup Doomed) <= faults

\* In a step that is no fault, no port is lost; in a fault, at most one.
LeakBound ==
    \/ faults' = faults /\ (Leaked \cup Doomed)' \subseteq Leaked \cup Doomed
    \/ /\ faults' = faults + 1
       /\ \E p \in Ports : (Leaked \cup Doomed)' \subseteq Leaked \cup Doomed \cup {p}

\* Steps between the start of the server and the end of the call lose no port.
LEMMA NoLeakWithin ==
    ASSUME ContainmentInv, NEW c \in Calls, UNCHANGED <<inUse, pool, server, port, faults>>,
           \A d \in Calls : step'[d] = "awaiting_server" => step[d] = "awaiting_server"
    PROVE  LeakBound
<1>1. Owned' = Owned
  BY DEF Owned
<1>2. Leaked' = Leaked
  BY <1>1 DEF Leaked
<1>3. Doomed' \subseteq Doomed
  BY DEF Doomed
<1> QED
  BY <1>2, <1>3 DEF LeakBound

\* A call loses no port, unless its server cannot be started.
LEMMA CallLeak ==
    ASSUME ContainmentInv, NEW c \in Calls, CallSteps(c) \/ resolve(c) \/ request_cancellation(c)
    PROVE  LeakBound
<1>0. /\ ContainmentTypeOK /\ StepsAgree /\ PortsDistinct
      /\ step \in [Calls -> Steps] /\ port \in [Calls -> Ports \cup {NoPort}]
      /\ server \in [Ports -> {"none", "starting", "own", "foreign"}]
      /\ pool \in Seq(Ports) /\ inUse \subseteq Ports /\ NoPort \notin Ports
  BY PortFacts DEF ContainmentInv, ContainmentTypeOK
<1>1. CASE resolve(c) \/ set_delegate(c) \/ throw_if_cancelled(c) \/ load_shared_library(c)
           \/ submit_async(c) \/ set_remote_id(c) \/ get_async_status(c)
           \/ get_async_response(c) \/ finish_remote(c) \/ request_cancellation(c)
  <2>1. UNCHANGED <<inUse, pool, server, port, faults>>
    BY <1>1 DEF resolve, set_delegate, throw_if_cancelled, load_shared_library, submit_async,
       set_remote_id, get_async_status, get_async_response, finish_remote,
       request_cancellation, ports, pools, servers
  <2>2. \A d \in Calls : step'[d] = "awaiting_server" => step[d] = "awaiting_server"
    BY <1>0, <1>1 DEF resolve, set_delegate, throw_if_cancelled, load_shared_library,
       submit_async, set_remote_id, get_async_status, get_async_response, finish_remote,
       request_cancellation, Throws, Goto
  <2> QED
    BY <2>1, <2>2, NoLeakWithin
<1>2. CASE reuse_proxy(c)
  <2>1. PICK p \in Ports : p = Head(pool) /\ p = pool[1]
    BY <1>0, <1>2 DEF reuse_proxy
  <2>2. /\ port' = [port EXCEPT ![c] = p] /\ pool' = Tail(pool) /\ pool # <<>>
        /\ step' = [step EXCEPT ![c] = "have_proxy"] /\ port[c] = NoPort
        /\ UNCHANGED <<inUse, server, faults>>
    BY <1>0, <1>2, <2>1 DEF reuse_proxy, Goto, StepsAgree, NoProxySteps, ports, servers
  <2>3. \A i \in DOMAIN pool : i = 1 \/ (i - 1 \in DOMAIN Tail(pool) /\ Tail(pool)[i - 1] = pool[i])
    BY <1>0, <2>2
  <2>4. Owned \subseteq Owned'
    <3>1. ASSUME NEW q \in Ports, NEW d \in Calls, port[d] = q
          PROVE  q \in Owned'
      <4>1. d # c
        BY <1>0, <2>2, <3>1
      <4>2. port'[d] = q
        BY <1>0, <2>2, <3>1, <4>1
      <4> QED
        BY <4>2 DEF Owned
    <3>2. ASSUME NEW q \in Ports, NEW i \in DOMAIN pool, pool[i] = q
          PROVE  q \in Owned'
      <4>1. CASE i = 1
        <5>1. port'[c] = q
          BY <1>0, <2>1, <2>2, <3>2, <4>1
        <5> QED
          BY <5>1 DEF Owned
      <4>2. CASE i # 1
        <5>1. i - 1 \in DOMAIN pool' /\ pool'[i - 1] = q
          BY <2>2, <2>3, <3>2, <4>2
        <5> QED
          BY <5>1 DEF Owned
      <4> QED
        BY <4>1, <4>2
    <3> QED
      BY <3>1, <3>2 DEF Owned
  <2>5. Leaked' \subseteq Leaked
    BY <2>2, <2>4 DEF Leaked
  <2>6. Doomed' \subseteq Doomed
    BY <1>0, <2>2 DEF Doomed
  <2> QED
    BY <2>2, <2>5, <2>6 DEF LeakBound
<1>3. CASE alloc_port(c)
  <2>1. step[c] = "queued" /\ UNCHANGED <<pool, server, faults>>
    BY <1>3 DEF alloc_port, servers
  <2>2. CASE find_unused_number = NoPort
    <3>1. UNCHANGED <<inUse, port>> /\ step' = [step EXCEPT ![c] = "failed"]
      BY <1>3, <2>2 DEF alloc_port, Goto, ports
    <3>2. \A d \in Calls : step'[d] = "awaiting_server" => step[d] = "awaiting_server"
      BY <1>0, <3>1
    <3> QED
      BY <2>1, <3>1, <3>2, NoLeakWithin
  <2>3. CASE find_unused_number # NoPort
    <3>1. PICK p \in Ports \ inUse : p = find_unused_number
      BY <1>0, <2>3, UnusedNumber DEF ContainmentTypeOK
    <3>2. /\ inUse' = inUse \cup {p} /\ port' = [port EXCEPT ![c] = p] /\ port[c] = NoPort
          /\ step' = [step EXCEPT ![c] = "pinging"]
      BY <1>0, <1>3, <2>1, <2>3, <3>1 DEF alloc_port, Goto, StepsAgree, NoProxySteps
    <3>3. Owned' = Owned \cup {p}
      <4>1. ASSUME NEW q \in Ports
            PROVE  (\E d \in Calls : port'[d] = q) <=> (\E d \in Calls : port[d] = q) \/ q = p
        BY <1>0, <3>1, <3>2
      <4> QED
        BY <2>1, <3>1, <4>1 DEF Owned
    <3>4. Leaked' \subseteq Leaked
      BY <3>2, <3>3 DEF Leaked
    <3>5. Doomed' \subseteq Doomed
      BY <1>0, <2>1, <3>2 DEF Doomed
    <3> QED
      BY <2>1, <3>4, <3>5 DEF LeakBound
  <2> QED
    BY <2>2, <2>3
<1>4. CASE ensure_server(c)
  <2>1. PICK p \in Ports : p = port[c]
    BY <1>0, <1>4 DEF ensure_server, StepsAgree, NoProxySteps
  <2>2. UNCHANGED <<inUse, pool>>
    BY <1>4 DEF ensure_server, ports
  <2>3. CASE server_is_running(p)
    <3>1. UNCHANGED <<server, port, faults>> /\ step' = [step EXCEPT ![c] = "have_proxy"]
      BY <1>4, <2>1, <2>3 DEF ensure_server, Goto
    <3>2. \A d \in Calls : step'[d] = "awaiting_server" => step[d] = "awaiting_server"
      BY <1>0, <3>1
    <3> QED
      BY <2>2, <3>1, <3>2, NoLeakWithin
  <2>4. CASE /\ server' = [server EXCEPT ![p] = "starting"]
             /\ Goto(c, "awaiting_server") /\ UNCHANGED <<port, faults>>
    <3>1. Leaked' = Leaked
      BY <2>2, <2>4 DEF Leaked, Owned
    <3>2. Doomed' \subseteq Doomed
      BY <1>0, <2>1, <2>4 DEF Doomed, Goto
    <3> QED
      BY <2>4, <3>1, <3>2 DEF LeakBound
  <2>5. CASE /\ faults' = faults + 1 /\ Goto(c, "failed")
             /\ port' = [port EXCEPT ![c] = NoPort] /\ UNCHANGED server
    <3>1. Owned \subseteq Owned' \cup {p}
      BY <1>0, <2>1, <2>2, <2>5 DEF Owned
    <3>2. Leaked' \subseteq Leaked \cup {p}
      BY <2>2, <3>1 DEF Leaked
    <3>3. Doomed' \subseteq Doomed
      BY <1>0, <2>5 DEF Doomed, Goto
    <3> QED
      BY <2>5, <3>2, <3>3 DEF LeakBound
  <2> QED
    BY <1>4, <2>1, <2>3, <2>4, <2>5 DEF ensure_server
<1>5. CASE wait_until_server_running(c)
  <2>1. PICK p \in Ports : p = port[c] /\ step[c] = "awaiting_server"
    BY <1>0, <1>5 DEF wait_until_server_running, StepsAgree, NoProxySteps
  <2>2. UNCHANGED <<inUse, pool, server, faults>>
    BY <1>5 DEF wait_until_server_running, ports
  <2>3. CASE server_is_running(p)
    <3>1. UNCHANGED port /\ step' = [step EXCEPT ![c] = "have_proxy"]
      BY <1>5, <2>1, <2>3 DEF wait_until_server_running, Goto
    <3>2. \A d \in Calls : step'[d] = "awaiting_server" => step[d] = "awaiting_server"
      BY <1>0, <3>1
    <3> QED
      BY <2>2, <3>1, <3>2, NoLeakWithin
  <2>4. CASE ~server_is_running(p)
    <3>1. /\ server[p] = "none" /\ port' = [port EXCEPT ![c] = NoPort]
          /\ step' = [step EXCEPT ![c] = "failed"]
      BY <1>5, <2>1, <2>4 DEF wait_until_server_running, Goto
    <3>2. p \in Doomed
      BY <2>1, <3>1 DEF Doomed
    <3>3. Owned \subseteq Owned' \cup {p}
      BY <1>0, <2>1, <2>2, <3>1 DEF Owned
    <3>4. Leaked' \subseteq Leaked \cup {p}
      BY <2>2, <3>3 DEF Leaked
    <3>5. Doomed' \subseteq Doomed
      BY <1>0, <2>2, <3>1 DEF Doomed
    <3> QED
      BY <2>2, <3>2, <3>4, <3>5 DEF LeakBound
  <2> QED
    BY <2>3, <2>4
<1>6. CASE free_proxy(c)
  <2>1. PICK p \in Ports : p = port[c]
    BY <1>0, <1>6 DEF free_proxy, StepsAgree, NoProxySteps
  <2>2. /\ port' = [port EXCEPT ![c] = NoPort] /\ faults' = faults
        /\ \A d \in Calls : step'[d] = "awaiting_server" => step[d] = "awaiting_server" /\ d # c
    BY <1>0, <1>6 DEF free_proxy, Goto
  <2>3. CASE c \in succeeded
    <3>1. pool' = Append(pool, p) /\ UNCHANGED <<inUse, server>>
      BY <1>6, <2>1, <2>3 DEF free_proxy, servers
    <3>2. PICK q : q = Append(pool, p)
      OBVIOUS
    <3>3. /\ DOMAIN q = DOMAIN pool \cup {Len(pool) + 1} /\ q[Len(pool) + 1] = p
          /\ \A i \in DOMAIN pool : q[i] = pool[i]
      BY <1>0, <3>2, AppendFacts
    <3>4. pool' = q
      BY <3>1, <3>2
    <3>5. Owned \subseteq Owned'
      <4>1. \A r \in Ports : (\E i \in DOMAIN pool : pool[i] = r) => r \in Owned'
        BY <3>3, <3>4 DEF Owned
      <4>2. p \in Owned'
        BY <3>3, <3>4 DEF Owned
      <4>3. \A r \in Ports : (\E d \in Calls : port[d] = r) => r = p \/ r \in Owned'
        BY <1>0, <2>1, <2>2 DEF Owned
      <4> QED
        BY <4>1, <4>2, <4>3 DEF Owned
    <3>6. Leaked' \subseteq Leaked /\ Doomed' \subseteq Doomed
      BY <1>0, <2>2, <3>1, <3>5 DEF Leaked, Doomed
    <3> QED
      BY <2>2, <3>6 DEF LeakBound
  <2>4. CASE c \notin succeeded
    <3>1. inUse' = inUse \ {p} /\ stop_server(p) /\ UNCHANGED pool
      BY <1>6, <2>1, <2>4 DEF free_proxy
    <3>2. Owned \subseteq Owned' \cup {p}
      BY <1>0, <2>1, <2>2, <3>1 DEF Owned
    <3>3. Leaked' \subseteq Leaked
      BY <3>1, <3>2 DEF Leaked
    <3>4. \A r \in Ports : r # p => server'[r] = server[r]
      BY <1>0, <2>1, <3>1 DEF stop_server
    <3>5. Doomed' \subseteq Doomed
      <4>1. ASSUME NEW r \in Doomed'
            PROVE  r \in Doomed
        <5>1. PICK d \in Calls : port'[d] = r /\ step'[d] = "awaiting_server" /\ r \in Ports
          BY <4>1 DEF Doomed
        <5>2. d # c /\ port[d] = r /\ step[d] = "awaiting_server" /\ server'[r] = "none"
          BY <1>0, <2>2, <4>1, <5>1 DEF Doomed
        <5>3. r # p
          BY <1>0, <2>1, <5>1, <5>2 DEF PortsDistinct
        <5> QED
          BY <3>4, <5>1, <5>2, <5>3 DEF Doomed
      <4> QED
        BY <4>1
    <3> QED
      BY <2>2, <3>3, <3>5 DEF LeakBound
  <2> QED
    BY <2>3, <2>4
<1> QED
  BY <1>1, <1>2, <1>3, <1>4, <1>5, <1>6 DEF CallSteps

\* A server that starts, works or dies costs at most the one port that it listens on.
LEMMA ServerLeak ==
    ASSUME ContainmentInv, NEW p \in Ports, ServerSteps(p) \/ server_dies(p)
    PROVE  LeakBound
<1>0. server \in [Ports -> {"none", "starting", "own", "foreign"}]
  BY DEF ContainmentInv, ContainmentTypeOK
<1>1. UNCHANGED <<inUse, pool, port, step>>
  BY DEF ServerSteps, server_starts, function_ends, server_dies, ports
<1>2. Leaked' = Leaked
  BY <1>1 DEF Leaked, Owned
<1>3. \/ faults' = faults /\ \A q \in Ports : server'[q] = "none" => server[q] = "none"
      \/ faults' = faults + 1 /\ \A q \in Ports : server'[q] = "none" => server[q] = "none" \/ q = p
  <2>1. CASE server_starts(p)
    BY <1>0, <2>1 DEF server_starts
  <2>2. CASE server_dies(p)
    BY <1>0, <2>2 DEF server_dies
  <2>3. CASE \E c \in Calls : function_ends(p, c)
    BY <2>3 DEF function_ends
  <2> QED
    BY <2>1, <2>2, <2>3 DEF ServerSteps
<1>4. CASE faults' = faults /\ \A q \in Ports : server'[q] = "none" => server[q] = "none"
  <2>1. Doomed' \subseteq Doomed
    BY <1>1, <1>4 DEF Doomed
  <2> QED
    BY <1>2, <1>4, <2>1 DEF LeakBound
<1>5. CASE faults' = faults + 1 /\ \A q \in Ports : server'[q] = "none" => server[q] = "none" \/ q = p
  <2>1. Doomed' \subseteq Doomed \cup {p}
    BY <1>1, <1>5 DEF Doomed
  <2> QED
    BY <1>2, <1>5, <2>1 DEF LeakBound
<1> QED
  BY <1>3, <1>4, <1>5

\* The ports are finitely many, and so are those that are lost.
LEMMA LeakFinite ==
    ASSUME ContainmentInv
    PROVE  IsFiniteSet(Leaked \cup Doomed) /\ IsFiniteSet(Leaked)
<1>1. IsFiniteSet(Ports)
  BY FS_Interval, RangeIsPositive DEF Ports
<1>2. Leaked \cup Doomed \subseteq Ports /\ Leaked \subseteq Ports
  BY DEF Leaked, Doomed, ContainmentInv, ContainmentTypeOK
<1> QED
  BY <1>1, <1>2, FS_Subset

\* No more ports are lost than servers died or failed to start.
LEMMA LeakInvariant == CSpec => []LeakInv
<1>1. CInit => LeakInv
  <2> SUFFICES ASSUME CInit
               PROVE  Cardinality(Leaked \cup Doomed) <= faults
    BY InitInv DEF LeakInv
  <2>1. Leaked \cup Doomed = {}
    BY DEF CInit, Leaked, Doomed
  <2>2. Cardinality(Leaked \cup Doomed) = 0
    BY <2>1, FS_EmptySet
  <2> QED
    BY <2>2 DEF CInit
<1>2. LeakInv /\ [CNext]_cvars => LeakInv'
  <2> SUFFICES ASSUME LeakInv, [CNext]_cvars
               PROVE  Cardinality(Leaked \cup Doomed)' <= faults'
    BY NextInv DEF LeakInv
  <2>1. LeakBound
    <3>1. CASE UNCHANGED cvars
      BY <3>1 DEF cvars, LeakBound, Leaked, Owned, Doomed
    <3> QED
      BY <3>1, CallLeak, ServerLeak DEF CNext, LeakInv
  <2>2. PICK S : S = Leaked \cup Doomed
    OBVIOUS
  <2>3. PICK T : T = (Leaked \cup Doomed)'
    OBVIOUS
  <2>4. IsFiniteSet(S) /\ Cardinality(S) <= faults /\ faults \in Nat
    BY <2>2, LeakFinite DEF LeakInv, ContainmentInv, ContainmentTypeOK
  <2>5. Cardinality(S) \in Nat
    BY <2>4, FS_CardinalityType
  <2>6. CASE faults' = faults /\ T \subseteq S
    <3>1. Cardinality(T) <= Cardinality(S) /\ IsFiniteSet(T)
      BY <2>4, <2>6, FS_Subset
    <3>2. Cardinality(T) \in Nat
      BY <3>1, FS_CardinalityType
    <3> QED
      BY <2>3, <2>4, <2>5, <2>6, <3>1, <3>2
  <2>7. CASE faults' = faults + 1 /\ \E p \in Ports : T \subseteq S \cup {p}
    <3>1. PICK p \in Ports : T \subseteq S \cup {p}
      BY <2>7
    <3>2. PICK U : U = S \cup {p}
      OBVIOUS
    <3>3. IsFiniteSet(U) /\ Cardinality(U) <= Cardinality(S) + 1
      <4>1. /\ IsFiniteSet(S \cup {p})
            /\ Cardinality(S \cup {p}) = IF p \in S THEN Cardinality(S) ELSE Cardinality(S) + 1
        BY <2>4, FS_AddElement
      <4> QED
        BY <2>5, <3>2, <4>1
    <3>4. Cardinality(T) <= Cardinality(U) /\ IsFiniteSet(T)
      BY <3>1, <3>2, <3>3, FS_Subset
    <3>5. Cardinality(T) \in Nat /\ Cardinality(U) \in Nat
      BY <3>3, <3>4, FS_CardinalityType
    <3> QED
      BY <2>3, <2>4, <2>5, <2>7, <3>3, <3>4, <3>5
  <2> QED
    BY <2>1, <2>2, <2>3, <2>6, <2>7 DEF LeakBound
<1> QED
  BY <1>1, <1>2, PTL DEF CSpec

\* alloc_port() throws only if the proxies in use and those that were lost to faults
\* have all the ports.
PortsSuffice ==
    /\ Cardinality(Leaked) <= faults
    /\ find_unused_number = NoPort => Cardinality(Owned) + faults >= RangeSize

\* A port is lost only where a server dies or does not start: at most one for each such
\* fault, and none in any cancellation or failure of a call.  So calls do not run out of
\* ports as long as proxies and faults together are fewer than the ports.
THEOREM PortsAreReturned == CSpec => []PortsSuffice
<1>1. LeakInv => PortsSuffice
  <2> SUFFICES ASSUME LeakInv
               PROVE  PortsSuffice
    OBVIOUS
  <2>1. PICK S : S = Leaked \cup Doomed
    OBVIOUS
  <2>2. PICK T : T = Leaked
    OBVIOUS
  <2>3. IsFiniteSet(S) /\ Cardinality(S) <= faults /\ T \subseteq S /\ IsFiniteSet(T)
    BY <2>1, <2>2, LeakFinite DEF LeakInv
  <2>4. Cardinality(T) <= Cardinality(S) /\ Cardinality(S) \in Nat /\ Cardinality(T) \in Nat
    BY <2>3, FS_Subset, FS_CardinalityType
  <2>5. faults \in Nat /\ ContainmentInv
    BY DEF LeakInv, ContainmentInv, ContainmentTypeOK
  <2>6. Cardinality(T) <= faults
    BY <2>3, <2>4, <2>5
  <2>7. ASSUME find_unused_number = NoPort
        PROVE  Cardinality(Owned) + faults >= RangeSize
    <3>1. Ports \ inUse = {}
      BY <2>5, <2>7, UnusedIfAny, PortFacts DEF ContainmentInv, ContainmentTypeOK
    <3>2. PICK O : O = Owned
      OBVIOUS
    <3>3. Ports = O \cup T /\ O \subseteq Ports
      BY <2>2, <2>5, <3>1, <3>2 DEF Leaked, Owned, ContainmentInv, ContainmentTypeOK
    <3>4. IsFiniteSet(Ports) /\ Cardinality(Ports) = RangeSize
      BY FS_Interval, RangeIsPositive DEF Ports
    <3>5. IsFiniteSet(O) /\ IsFiniteSet(O \cap T)
      BY <3>3, <3>4, FS_Subset
    <3>6. Cardinality(O) \in Nat /\ Cardinality(O \cap T) \in Nat
      BY <3>5, FS_CardinalityType
    <3>7. Cardinality(O \cup T) = Cardinality(O) + Cardinality(T) - Cardinality(O \cap T)
      BY <2>3, <3>5, FS_Union
    <3> QED
      BY <2>4, <2>5, <2>6, <3>2, <3>3, <3>4, <3>6, <3>7, RangeIsPositive
  <2> QED
    BY <2>2, <2>6, <2>7 DEF PortsSuffice
<1> QED
  BY <1>1, LeakInvariant, PTL

-----------------------------------------------------------------------------
(* Nobody waits in vain: the part of CallEnds that needs no fairness.      *)

\* The guards of the steps of a call.
CallReady(c) ==
    \/ step[c] \in {"queued", "freeing"} /\ holder = NoCall
    \/ step[c] \in {"pinging", "have_proxy", "delegating", "loading", "submitting",
                    "submitted", "fetching", "finishing"}
    \/ step[c] = "awaiting_server" /\ server[port[c]] # "starting"
    \/ /\ step[c] = "polling"
       /\ ~Answers(c) \/ contexts[port[c]][c] \notin {"running", "cancelling"}

\* A process that starts, and a function that runs on a server, for the call.
ServerComes(c) == step[c] = "awaiting_server" /\ server[port[c]] = "starting"
FunctionRuns(c) ==
    step[c] = "polling" /\ Answers(c) /\ contexts[port[c]][c] \in {"running", "cancelling"}

\* A call that has not ended can take a step; or it waits for its server, its function
\* or the pool's mutex, whose holder can take a step or waits for its server.
CallsGoOn ==
    \A c \in Calls : step[c] \notin {"idle", "done", "failed"} =>
        \/ CallReady(c) \/ FunctionRuns(c) \/ ServerComes(c)
        \/ \E d \in Calls : holder = d /\ (CallReady(d) \/ ServerComes(d))

\* No contained call waits for something that will not happen, whichever servers died
\* or did not start and whoever cancelled: a server that a call waits for starts or has
\* ended, the function that it polls runs on a live server, and the pool's mutex is held
\* by a call that can go on.
THEOREM ContainedCallsGoOn == CSpec => []CallsGoOn
<1>1. ContainmentInv => CallsGoOn
  <2> SUFFICES ASSUME ContainmentInv, NEW c \in Calls, step[c] \notin {"idle", "done", "failed"}
               PROVE  \/ CallReady(c) \/ FunctionRuns(c) \/ ServerComes(c)
                      \/ \E d \in Calls : holder = d /\ (CallReady(d) \/ ServerComes(d))
    BY DEF CallsGoOn
  <2>1. step[c] \in Steps /\ holder \in Calls \cup {NoCall}
    BY DEF ContainmentInv, ContainmentTypeOK
  <2>2. CASE step[c] \in {"queued", "freeing"} /\ holder # NoCall
    <3>1. step[holder] \in StartSteps
      BY <2>1, <2>2 DEF ContainmentInv, StepsAgree
    <3> QED
      BY <2>1, <2>2, <3>1 DEF StartSteps, CallReady, ServerComes
  <2> QED
    BY <2>1, <2>2 DEF Steps, CallReady, FunctionRuns, ServerComes
<1>2. CSpec => []ContainmentInv
  BY InitInv, NextInv, PTL DEF CSpec
<1> QED
  BY <1>1, <1>2, PTL
=============================================================================
